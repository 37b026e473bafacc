---------------------------- MODULE LibraryProofs ----------------------------
(***************************************************************************)
(* Proofs about the library (Library.tla): that do_div64() divides, for    *)
(* words of any size, that the functions on blocks and strings do what     *)
(* they promise in memories of any size, that what is printed is printed   *)
(* whole, and that the numbers in it are read back.  A loop is a function  *)
(* of the turns it has made (Loops.tla): what it does in one turn, by      *)
(* induction over the turns, gives what it does in all.                    *)
(***************************************************************************)
EXTENDS Library, SequenceTheorems, FunctionTheorems, FiniteSetTheorems, WellFoundedInduction, TLAPS

\* A set of naturals has a smallest element.
LEMMA Smallest ==
  ASSUME NEW T \in SUBSET Nat, T # {}
  PROVE  \E n \in T : \A k \in T : n <= k
<1> DEFINE R == {ss \in Nat \X Nat : ss[1] < ss[2]}
<1>1. IsWellFoundedOn(R, Nat)
  BY NatLessThanWellFounded DEF OpToRel
<1>2. ASSUME NEW n \in Nat, NEW k \in Nat, k < n
      PROVE  <<k, n>> \in R
  BY <1>2
<1> HIDE DEF R
<1>3. PICK n \in T : \A k \in T : <<k, n>> \notin R
  BY <1>1, WFMin
<1>4. \A k \in T : ~(k < n)
  BY <1>2, <1>3
<1> QED
  BY <1>3, <1>4

\* 2 ^ k counts the subsets of 1 .. k, of which the intervals 1 .. i are k + 1.
LEMMA PowerFacts ==
  /\ 2 ^ 0 = 1
  /\ \A k \in Nat : 2 ^ k \in Nat /\ k < 2 ^ k
<1>1. ASSUME NEW k \in Nat
      PROVE  2 ^ k \in Nat /\ k < 2 ^ k
  <2> DEFINE f == [i \in 0 .. k |-> 1 .. i]
  <2>1. IsFiniteSet(1 .. k) /\ Cardinality(1 .. k) = k
    BY FS_Interval
  <2>2. IsFiniteSet(SUBSET (1 .. k)) /\ Cardinality(SUBSET (1 .. k)) = 2 ^ k
    BY <2>1, FS_SUBSET
  <2>3. IsFiniteSet(0 .. k) /\ Cardinality(0 .. k) = k + 1
    BY FS_Interval
  <2>4. ASSUME NEW i \in 0 .. k, NEW j \in 0 .. k, i < j
        PROVE  f[i] # f[j]
    <3>1. j \in f[j] /\ j \notin f[i]
      BY <2>4
    <3> QED
      BY <3>1
  <2>5. f \in Injection(0 .. k, SUBSET (1 .. k))
    <3>1. f \in [0 .. k -> SUBSET (1 .. k)]
      OBVIOUS
    <3>2. \A i, j \in 0 .. k : f[i] = f[j] => i = j
      <4>1. ASSUME NEW i \in 0 .. k, NEW j \in 0 .. k, i # j
            PROVE  f[i] # f[j]
        <5>1. i < j \/ j < i
          BY <4>1
        <5> HIDE DEF f
        <5> QED
          BY <2>4, <5>1
      <4> QED
        BY <4>1
    <3> HIDE DEF f
    <3> QED
      BY <3>1, <3>2 DEF Injection, IsInjective
  <2>6. k + 1 <= 2 ^ k
    <3> HIDE DEF f
    <3> QED
      BY <2>2, <2>3, <2>5, FS_Injection
  <2>7. 2 ^ k \in Nat
    BY <2>2, FS_CardinalityType
  <2> QED
    BY <2>6, <2>7
<1>2. 2 ^ 0 = 1
  <2>1. Cardinality(SUBSET {}) = 2 ^ Cardinality({}) /\ Cardinality({}) = 0
    BY FS_EmptySet, FS_SUBSET
  <2>2. SUBSET {} = {{}}
    OBVIOUS
  <2> QED
    BY <2>1, <2>2, FS_Singleton
<1> QED
  BY <1>1, <1>2

\* Every number but 0 has a highest bit.
LEMMA Log2Facts ==
  ASSUME NEW n \in Nat \ {0}
  PROVE  log2(n) \in 0 .. n /\ 2 ^ log2(n) <= n /\ n < 2 ^ (log2(n) + 1)
<1> DEFINE T == {k \in 0 .. n : n < 2 ^ (k + 1)}
<1>1. n \in T
  <2>1. n + 1 < 2 ^ (n + 1) /\ 2 ^ (n + 1) \in Nat
    BY PowerFacts
  <2> QED
    BY <2>1
<1>2. PICK k \in T : \A j \in T : k <= j
  <2>1. T \in SUBSET Nat
    OBVIOUS
  <2> HIDE DEF T
  <2> QED
    BY <1>1, <2>1, Smallest
<1>3. k \in 0 .. n /\ n < 2 ^ (k + 1)
  OBVIOUS
<1>4. 2 ^ k <= n
  <2>1. CASE k = 0
    BY <2>1, PowerFacts
  <2>2. CASE k # 0
    <3>1. k - 1 \in 0 .. n /\ k - 1 + 1 = k /\ ~(k <= k - 1)
      BY <1>3, <2>2
    <3>2. k - 1 \notin T
      <4> HIDE DEF T
      <4> QED
        BY <1>2, <3>1
    <3>3. ~(n < 2 ^ k)
      BY <3>1, <3>2
    <3> QED
      BY <1>3, <3>3, PowerFacts
  <2> QED
    BY <2>1, <2>2
<1>5. \E j \in 0 .. n : 2 ^ j <= n /\ n < 2 ^ (j + 1)
  BY <1>3, <1>4
<1> QED
  BY <1>5 DEF log2

----------------------------------------------------------------------------
(* Quotients.                                                              *)

\* What the provers know of products, by name.
LEMMA ProductFacts ==
  /\ \A x, y \in Nat : x * y \in Nat /\ x * y = y * x
  /\ \A x, y, z \in Nat : x <= y => x * z <= y * z
  /\ \A x, y, z \in Nat : x * z < y * z => x < y
  /\ \A x, y, z \in Int : x * (y + z) = x * y + x * z
  /\ \A x, y, z \in Int : x * (y - z) = x * y - x * z
  /\ \A x, y, z \in Nat : (x * y) * z = x * (y * z)
OBVIOUS

\* The quotient and the rest...
LEMMA Parts ==
  ASSUME NEW x \in Nat, NEW y \in Nat \ {0}
  PROVE  /\ x \div y \in Nat /\ x % y \in Nat /\ x % y < y
         /\ x = y * (x \div y) + (x % y)
<1>1. x \in Int /\ y \in Int /\ y > 0
  OBVIOUS
<1>2. x % y \in 0 .. y - 1
  BY <1>1
<1>3. x = y * (x \div y) + (x % y)
  BY <1>1
<1>4. x \div y \in Nat
  <2>1. x \div y \in Int
    BY <1>1
  <2>2. x \div y >= 0
    BY <1>1
  <2> QED
    BY <2>1, <2>2
<1>5. x % y \in Nat /\ x % y < y
  BY <1>2
<1> QED
  BY <1>3, <1>4, <1>5

\* ... and that there is no other.
LEMMA Quotient ==
  ASSUME NEW x \in Nat, NEW y \in Nat \ {0}, NEW q \in Nat, NEW r \in Nat,
         r < y, x = y * q + r
  PROVE  x \div y = q /\ x % y = r
<1> DEFINE p == x \div y
           s == x % y
<1>1. p \in Nat /\ s \in Nat /\ s < y /\ x = y * p + s
  BY Parts
<1> HIDE DEF p, s
<1>2. ASSUME NEW a \in Nat, NEW b \in Nat, NEW c \in Nat, NEW d \in Nat,
             y * a + c = y * b + d, c < y, d < y
      PROVE  ~(a < b)
  <2> SUFFICES ASSUME a + 1 <= b
               PROVE  FALSE
    BY <1>2
  <2>1. y * (a + 1) <= y * b
    BY ProductFacts
  <2>2. y * (a + 1) = y * a + y
    BY ProductFacts
  <2>3. y * a \in Nat /\ y * b \in Nat
    BY ProductFacts
  <2> QED
    BY <1>2, <2>1, <2>2, <2>3
<1>3. p = q
  BY <1>1, <1>2
<1>4. s = r
  BY <1>1, <1>3, ProductFacts
<1> QED
  BY <1>3, <1>4 DEF p, s

\* A quotient is below any number whose product with the divisor is above.
LEMMA QuotientBound ==
  ASSUME NEW x \in Nat, NEW y \in Nat \ {0}, NEW n \in Nat
  PROVE  /\ x < y * n => x \div y < n
         /\ y * n <= x => n <= x \div y
<1> DEFINE q == x \div y
           r == x % y
<1>1. q \in Nat /\ r \in Nat /\ r < y /\ x = y * q + r
  BY Parts
<1> HIDE DEF q, r
<1>2. y * q \in Nat /\ y * n \in Nat /\ y * (q + 1) = y * q + y
  BY <1>1, ProductFacts
<1>3. ASSUME x < y * n
      PROVE  q < n
  <2> SUFFICES ASSUME n <= q
               PROVE  FALSE
    BY <1>1
  <2>1. y * n <= y * q
    BY <1>1, ProductFacts
  <2> QED
    BY <1>1, <1>2, <1>3, <2>1
<1>4. ASSUME y * n <= x
      PROVE  n <= q
  <2> SUFFICES ASSUME q + 1 <= n
               PROVE  FALSE
    BY <1>1
  <2>1. y * (q + 1) <= y * n
    BY <1>1, ProductFacts
  <2> QED
    BY <1>1, <1>2, <1>4, <2>1
<1> QED
  BY <1>3, <1>4 DEF q

\* A correction of an estimate that is not too large ends with the quotient.
LEMMA CorrectedFacts ==
  ASSUME NEW x \in DoubleWord, NEW y \in DoubleWord, HALF <= y, NEW q \in Nat, y * q <= x
  PROVE  corrected(x, y, q) = [q |-> x \div y, rem |-> x % y]
<1>1. /\ HALF \in Nat \ {0} /\ HALF * HALF \in Nat /\ x \in Nat /\ x < HALF * HALF
      /\ y \in Nat \ {0} /\ y * q \in Nat
  BY DivisionAssumption, ProductFacts DEF DoubleWord
<1> DEFINE r == x - y * q
           T == {k \in Nat : r < y * (k + 1)}
           Exit(k) == r - k * y < y /\ \A j \in 0 .. k - 1 : r - j * y >= y
           turns == CHOOSE k \in 0 .. r : Exit(k)
<1>2. r \in Nat /\ r < HALF * HALF /\ r % (HALF * HALF) = r
  BY <1>1
<1>3. \A k \in Nat : /\ k * y \in Nat /\ y * (k + 1) = k * y + y
                     /\ r < y * (k + 1) <=> r - k * y < y
  <2> HIDE DEF r
  <2>1. ASSUME NEW k \in Nat
        PROVE  /\ k * y \in Nat /\ y * (k + 1) = k * y + y
               /\ r < y * (k + 1) <=> r - k * y < y
    <3>1. k * y \in Nat /\ y * (k + 1) = k * y + y
      BY <1>1, ProductFacts
    <3> QED
      BY <1>1, <1>2, <3>1
  <2> QED
    BY <2>1
<1> HIDE DEF r
<1>4. \E k \in 0 .. r : Exit(k)
  <2>1. r \in T
    <3>1. 1 * (r + 1) <= y * (r + 1)
      BY <1>1, <1>2, ProductFacts
    <3> QED
      BY <1>1, <1>2, <1>3, <3>1
  <2>2. PICK k \in T : \A j \in T : k <= j
    <3>1. T \in SUBSET Nat
      OBVIOUS
    <3> HIDE DEF T
    <3> QED
      BY <2>1, <3>1, Smallest
  <2>3. k \in 0 .. r /\ r - k * y < y
    BY <1>2, <1>3, <2>1, <2>2
  <2>4. ASSUME NEW j \in 0 .. k - 1
        PROVE  r - j * y >= y
    <3>1. j \in Nat /\ ~(k <= j)
      BY <2>3
    <3>2. j \notin T
      <4> HIDE DEF T
      <4> QED
        BY <2>2, <3>1
    <3>3. ~(r - j * y < y)
      BY <1>3, <3>1, <3>2
    <3> QED
      BY <1>1, <1>2, <1>3, <3>1, <3>3
  <2> QED
    BY <2>3, <2>4
<1>5. turns \in 0 .. r /\ Exit(turns)
  <2> HIDE DEF Exit
  <2> QED
    BY <1>4
<1>6. corrected(x, y, q) = [q |-> (q + turns) % HALF, rem |-> r - turns * y]
  BY <1>2 DEF corrected, r
<1> HIDE DEF turns
<1>7. turns \in Nat /\ turns * y \in Nat /\ r - turns * y \in Nat /\ r - turns * y < y
  <2>1. turns \in Nat /\ turns * y \in Nat /\ r - turns * y < y
    BY <1>2, <1>3, <1>5
  <2>2. CASE turns = 0
    BY <1>1, <1>2, <2>1, <2>2
  <2>3. CASE turns # 0
    <3>1. turns - 1 \in 0 .. turns - 1 /\ turns - 1 \in Nat /\ turns - 1 + 1 = turns
      BY <2>1, <2>3
    <3>2. r - (turns - 1) * y >= y
      BY <1>5, <3>1
    <3>3. y * turns = (turns - 1) * y + y /\ y * turns = turns * y
      BY <1>1, <1>3, <2>1, <3>1, ProductFacts
    <3> QED
      BY <1>1, <1>2, <1>3, <2>1, <3>1, <3>2, <3>3
  <2> QED
    BY <2>2, <2>3
<1>8. x = y * (q + turns) + (r - turns * y)
  <2>1. y * (q + turns) = y * q + y * turns /\ y * turns = turns * y
    BY <1>1, <1>7, ProductFacts
  <2> QED
    BY <1>1, <1>7, <2>1 DEF r
<1>9. q + turns = x \div y /\ r - turns * y = x % y
  <2> DEFINE a == q + turns
             b == r - turns * y
  <2>1. a \in Nat /\ b \in Nat /\ b < y /\ x = y * a + b
    BY <1>1, <1>7, <1>8
  <2> HIDE DEF a, b
  <2>2. a = x \div y /\ b = x % y
    BY <1>1, <2>1, Quotient
  <2> QED
    BY <2>2 DEF a, b
<1>10. x \div y < HALF
  <2>1. HALF * HALF <= y * HALF
    BY <1>1, ProductFacts
  <2>2. x < y * HALF
    BY <1>1, <2>1, ProductFacts
  <2> QED
    BY <1>1, <2>2, QuotientBound
<1>11. (q + turns) % HALF = q + turns
  BY <1>1, <1>7, <1>9, <1>10
<1> QED
  BY <1>6, <1>9, <1>11

----------------------------------------------------------------------------
(* The two cases of do_div64().                                            *)

\* A word counts modulo HALF, a double word modulo HALF * HALF.
LEMMA WordFacts ==
  /\ HALF \in Nat \ {0} /\ HALF > 1 /\ HALF * HALF \in Nat
  /\ \A x \in DoubleWord : x \in Nat /\ x < HALF * HALF
BY DivisionAssumption, ProductFacts DEF DoubleWord

\* A divisor of one word: two digits, whose quotients fit in a word.
LEMMA ByWordFacts ==
  ASSUME NEW x \in DoubleWord, NEW y \in 1 .. HALF - 1
  PROVE  by_word(x, y) = [q |-> x \div y, rem |-> x % y]
<1> DEFINE high == x \div HALF
           rest == x % HALF
           first == high \div y
           carry == high % y
           low == carry * HALF + rest
           second == low \div y
           last == low % y
<1>1. x \in Nat /\ x < HALF * HALF /\ HALF \in Nat \ {0} /\ y \in Nat \ {0}
  BY WordFacts
<1>2. high \in Nat /\ rest \in Nat /\ rest < HALF /\ x = HALF * high + rest
  BY <1>1, Parts
<1>3. high < HALF
  BY <1>1, QuotientBound
<1> HIDE DEF high, rest
<1>4. first \in Nat /\ carry \in Nat /\ carry < y /\ high = y * first + carry
  BY <1>1, <1>2, Parts
<1>5. first < HALF
  <2>1. 1 * HALF <= y * HALF
    BY <1>1, ProductFacts
  <2>2. high < y * HALF
    BY <1>1, <1>2, <1>3, <2>1
  <2> QED
    BY <1>1, <1>2, <2>2, QuotientBound
<1> HIDE DEF first, carry
<1>6. carry * HALF \in Nat /\ low \in Nat /\ low < y * HALF
  <2>1. (carry + 1) * HALF <= y * HALF
    BY <1>1, <1>4, ProductFacts
  <2>2. (carry + 1) * HALF = carry * HALF + HALF /\ carry * HALF \in Nat /\ y * HALF \in Nat
    BY <1>1, <1>4, ProductFacts
  <2> QED
    BY <1>1, <1>2, <2>1, <2>2
<1>7. low = carry * HALF + rest
  OBVIOUS
<1> HIDE DEF low
<1>8. second \in Nat /\ last \in Nat /\ last < y /\ low = y * second + last
  BY <1>1, <1>6, Parts
<1>9. second < HALF
  BY <1>1, <1>6, QuotientBound
<1>10. by_word(x, y) = [q |-> first * HALF + second, rem |-> last]
  <2>1. y # 0 /\ ~(first >= HALF) /\ ~(second >= HALF)
    BY <1>1, <1>4, <1>5, <1>8, <1>9
  <2>2. divl(high, y) = first
    BY <2>1 DEF divl, first
  <2>3. divl(low, y) = second
    BY <2>1 DEF divl
  <2> QED
    BY <2>2, <2>3 DEF by_word, high, rest, carry, low
<1> HIDE DEF second, last
<1>11. x = y * (first * HALF + second) + last
  <2>1. HALF * high = HALF * (y * first) + HALF * carry
    BY <1>1, <1>4, ProductFacts
  <2>2. HALF * (y * first) = y * (first * HALF)
    <3>1. (y * first) * HALF = y * (first * HALF) /\ y * first \in Nat
      BY <1>1, <1>4, ProductFacts
    <3> QED
      BY <1>1, <3>1, ProductFacts
  <2>3. HALF * carry = carry * HALF
    BY <1>1, <1>4, ProductFacts
  <2>4. first * HALF \in Nat
    BY <1>1, <1>4, ProductFacts
  <2>5. y * (first * HALF + second) = y * (first * HALF) + y * second
    BY <1>1, <1>8, <2>4, ProductFacts
  <2>6. y * (first * HALF) \in Nat /\ y * second \in Nat
    BY <1>1, <1>8, <2>4, ProductFacts
  <2> QED
    BY <1>2, <1>6, <1>7, <1>8, <2>1, <2>2, <2>3, <2>5, <2>6
<1>12. first * HALF + second = x \div y /\ last = x % y
  <2> DEFINE a == first * HALF + second
  <2>1. a \in Nat /\ x = y * a + last
    BY <1>1, <1>4, <1>8, <1>11, ProductFacts
  <2> HIDE DEF a
  <2>2. a = x \div y /\ last = x % y
    BY <1>1, <1>8, <2>1, Quotient
  <2> QED
    BY <2>2 DEF a
<1> QED
  BY <1>10, <1>12

\* What is left of a divisor of more than one word, after the shift, is one word.
LEMMA ShiftFacts ==
  ASSUME NEW y \in DoubleWord, HALF <= y
  PROVE  /\ Shift(y) \in Nat \ {0}
         /\ LeadingWord(y) = y \div Shift(y)
         /\ LeadingWord(y) \in 0 .. HALF - 1
         /\ y < Shift(y) * (LeadingWord(y) + 1)
<1> DEFINE w == y \div HALF
           t == y % HALF
           s == Shift(y)
           d == y \div s
           r == y % s
<1>1. y \in Nat /\ y < HALF * HALF /\ HALF \in Nat \ {0}
  BY WordFacts
<1>2. w \in Nat /\ t \in Nat /\ t < HALF /\ y = HALF * w + t
  BY <1>1, Parts
<1>3. w # 0
  <2>1. HALF * 1 <= y
    BY <1>1
  <2>2. 1 <= w
    BY <1>1, <2>1, QuotientBound
  <2> QED
    BY <2>2
<1>4. s = 2 ^ (log2(w) + 1)
  BY DEF Shift
<1> HIDE DEF w, t, s
<1>5. s \in Nat /\ w < s
  <2>1. log2(w) \in 0 .. w /\ w < 2 ^ (log2(w) + 1)
    BY <1>2, <1>3, Log2Facts
  <2>2. log2(w) + 1 \in Nat
    BY <1>2, <2>1
  <2> QED
    BY <1>4, <2>1, <2>2, PowerFacts
<1>6. s # 0
  BY <1>2, <1>5
<1>7. d \in Nat /\ r \in Nat /\ r < s /\ y = s * d + r
  BY <1>1, <1>5, <1>6, Parts
<1>8. y < s * HALF
  <2>1. (w + 1) * HALF <= s * HALF
    BY <1>1, <1>2, <1>5, ProductFacts
  <2>2. HALF * (w + 1) = HALF * w + HALF /\ (w + 1) * HALF = HALF * (w + 1)
    BY <1>1, <1>2, ProductFacts
  <2>3. HALF * w \in Nat /\ s * HALF \in Nat
    BY <1>1, <1>2, <1>5, ProductFacts
  <2> QED
    BY <1>1, <1>2, <2>1, <2>2, <2>3
<1>9. d < HALF
  BY <1>1, <1>5, <1>6, <1>8, QuotientBound
<1>10. LeadingWord(y) = d
  <2>1. ~(y < HALF)
    BY <1>1
  <2> QED
    BY <2>1 DEF LeadingWord, s
<1> HIDE DEF d, r
<1>11. y < s * (d + 1)
  <2>1. s * (d + 1) = s * d + s /\ s * d \in Nat
    BY <1>5, <1>7, ProductFacts
  <2> QED
    BY <1>5, <1>7, <2>1
<1>12. d \in 0 .. HALF - 1
  BY <1>1, <1>7, <1>9
<1> QED
  BY <1>5, <1>6, <1>10, <1>11, <1>12 DEF s, d

\* The estimate is never too large, and divl divides by 0 when the leading word is all ones.
LEMMA ByDoubleWordFacts ==
  ASSUME NEW x \in DoubleWord, NEW y \in DoubleWord, HALF <= y
  PROVE  by_double_word(x, y) =
           IF LeadingWord(y) = HALF - 1 THEN [q |-> DIVIDE_ERROR, rem |-> 0]
                                        ELSE [q |-> x \div y, rem |-> x % y]
<1> DEFINE s == Shift(y)
           lead == LeadingWord(y)
           d == lead + 1
           n == x \div s
           t == x % s
           q == n \div d
           u == n % d
<1>1. /\ HALF \in Nat \ {0} /\ HALF > 1 /\ x \in Nat /\ y \in Nat \ {0}
      /\ x < HALF * HALF /\ HALF * HALF \in Nat
  BY WordFacts
<1>2. s \in Nat \ {0} /\ lead \in 0 .. HALF - 1 /\ y < s * d
  BY ShiftFacts
<1>3. CASE lead = HALF - 1
  <2>1. d % HALF = 0
    <3>1. d = HALF
      BY <1>1, <1>3
    <3>2. HALF % HALF = 0
      <4>1. HALF = HALF * 1 + 0 /\ 0 < HALF
        BY <1>1
      <4> QED
        BY <1>1, <4>1, Quotient
    <3> HIDE DEF d
    <3> QED
      BY <3>1, <3>2
  <2>2. divl(n, d % HALF) = DIVIDE_ERROR
    BY <2>1 DEF divl
  <2> QED
    BY <1>3, <2>2 DEF by_double_word
<1>4. CASE lead # HALF - 1
  <2>1. d \in Nat \ {0} /\ d < HALF /\ d % HALF = d
    <3>1. d \in Nat \ {0} /\ d < HALF
      BY <1>1, <1>2, <1>4
    <3>2. d = HALF * 0 + d
      BY <1>1, <3>1
    <3> HIDE DEF d
    <3> QED
      BY <1>1, <3>1, <3>2, Quotient
  <2>2. by_double_word(x, y) = IF divl(n, d) = DIVIDE_ERROR THEN [q |-> DIVIDE_ERROR, rem |-> 0]
                                                            ELSE corrected(x, y, divl(n, d))
    BY <2>1 DEF by_double_word
  <2> HIDE DEF s, d
  <2>3. n \in Nat /\ t \in Nat /\ x = s * n + t
    BY <1>1, <1>2, Parts
  <2> HIDE DEF n, t
  <2>4. q \in Nat /\ u \in Nat /\ n = d * q + u
    BY <2>1, <2>3, Parts
  <2>5. divl(n, d) = IF q >= HALF THEN DIVIDE_ERROR ELSE q
    BY <2>1 DEF divl
  <2> HIDE DEF q, u
  <2>6. y * q <= x
    <3>1. s * d \in Nat /\ d * q \in Nat /\ (s * d) * q = s * (d * q)
      BY <1>2, <2>1, <2>4, ProductFacts
    <3>2. y * q <= (s * d) * q
      BY <1>1, <1>2, <2>4, <3>1, ProductFacts
    <3>3. s * n = s * (d * q) + s * u
      BY <1>2, <2>4, <3>1, ProductFacts
    <3>4. s * u \in Nat /\ s * (d * q) \in Nat /\ y * q \in Nat
      BY <1>1, <1>2, <2>4, <3>1, ProductFacts
    <3> QED
      BY <1>1, <2>3, <3>1, <3>2, <3>3, <3>4
  <2>7. q < HALF
    <3>1. HALF * HALF <= y * HALF
      BY <1>1, ProductFacts
    <3>2. y * q < y * HALF /\ y * q = q * y /\ y * HALF = HALF * y
      BY <1>1, <2>4, <2>6, <3>1, ProductFacts
    <3> QED
      BY <1>1, <2>4, <3>2, ProductFacts
  <2>8. divl(n, d) = q /\ q # DIVIDE_ERROR
    BY <1>1, <2>4, <2>5, <2>7 DEF DIVIDE_ERROR
  <2>9. corrected(x, y, q) = [q |-> x \div y, rem |-> x % y]
    BY <2>4, <2>6, CorrectedFacts
  <2> QED
    BY <1>4, <2>2, <2>8, <2>9
<1> QED
  BY <1>3, <1>4

----------------------------------------------------------------------------

\* do_div64() divides every double word by every other, but for the divisors of more than
\* one word whose leading word is all ones, for words of any size (div64.c:28-64).
THEOREM DivisionIsExact == number \in DoubleWord => DivisionExact
<1> SUFFICES ASSUME number \in DoubleWord, NEW y \in DoubleWord
             PROVE  do_div64(number, y) =
                      CASE y = 0                                -> [q |-> 0, rem |-> number]
                        [] LeadingWord(y) = HALF - 1            -> [q |-> DIVIDE_ERROR, rem |-> 0]
                        [] y # 0 /\ LeadingWord(y) # HALF - 1   -> [q |-> number \div y, rem |-> number % y]
  BY DEF DivisionExact
<1>1. HALF \in Nat \ {0} /\ HALF > 1 /\ y \in Nat
  BY WordFacts
<1>2. CASE y = 0
  <2>1. ~(y >= HALF) /\ LeadingWord(y) = 0 /\ HALF - 1 # 0
    BY <1>1, <1>2 DEF LeadingWord
  <2> QED
    BY <1>2, <2>1 DEF do_div64
<1>3. CASE y # 0 /\ y < HALF
  <2>1. ~(y >= HALF) /\ LeadingWord(y) = 0 /\ HALF - 1 # 0 /\ y \in 1 .. HALF - 1
    BY <1>1, <1>3 DEF LeadingWord
  <2>2. by_word(number, y) = [q |-> number \div y, rem |-> number % y]
    BY <2>1, ByWordFacts
  <2>3. do_div64(number, y) = by_word(number, y)
    BY <1>3, <2>1 DEF do_div64
  <2> QED
    BY <1>3, <2>1, <2>2, <2>3
<1>4. CASE y >= HALF
  <2>1. y # 0 /\ ~(y < HALF) /\ HALF <= y
    BY <1>1, <1>4
  <2>2. do_div64(number, y) = by_double_word(number, y)
    BY <1>4, <2>1 DEF do_div64
  <2>3. by_double_word(number, y) =
          IF LeadingWord(y) = HALF - 1 THEN [q |-> DIVIDE_ERROR, rem |-> 0]
                                       ELSE [q |-> number \div y, rem |-> number % y]
    BY <2>1, ByDoubleWordFacts
  <2> QED
    BY <2>1, <2>2, <2>3
<1> QED
  BY <1>1, <1>2, <1>3, <1>4

\* Induction on the turns of a loop: T are the turns at which something holds.
LEMMA TurnInduction ==
  ASSUME NEW n \in Nat, NEW T, 0 \in T, \A j \in 0 .. n - 1 : j \in T => j + 1 \in T
  PROVE  \A j \in 0 .. n : j \in T
<1> DEFINE F == {j \in 0 .. n : j \notin T}
<1> SUFFICES ASSUME F # {}
             PROVE  FALSE
  OBVIOUS
<1>1. PICK j \in F : \A k \in F : j <= k
  <2>1. F \in SUBSET Nat
    OBVIOUS
  <2> HIDE DEF F
  <2> QED
    BY <2>1, Smallest
<1>2. j \in 1 .. n /\ j \notin T
  OBVIOUS
<1>3. j - 1 \in 0 .. n - 1 /\ ~(j <= j - 1)
  BY <1>2
<1>4. j - 1 \notin F
  BY <1>1, <1>3
<1>5. j - 1 \in T /\ j - 1 + 1 = j
  BY <1>2, <1>3, <1>4
<1> QED
  BY <1>2, <1>3, <1>5

\* Two loops that start alike and make the same turns end alike.
LEMMA SameLoop ==
  ASSUME NEW n \in Nat, NEW f, NEW g, f[0] = g[0],
         \A j \in 1 .. n : f[j - 1] = g[j - 1] => f[j] = g[j]
  PROVE  f[n] = g[n]
<1> DEFINE T == {j \in 0 .. n : f[j] = g[j]}
<1>1. 0 \in T
  OBVIOUS
<1>2. ASSUME NEW j \in 0 .. n - 1, j \in T
      PROVE  j + 1 \in T
  <2>1. f[j] = g[j] /\ j + 1 \in 1 .. n /\ j + 1 - 1 = j
    BY <1>2
  <2>2. f[j + 1] = g[j + 1]
    BY <2>1
  <2> QED
    BY <2>1, <2>2
<1>3. \A j \in 0 .. n : j \in T
  <2> HIDE DEF T
  <2> QED
    BY <1>1, <1>2, TurnInduction
<1> QED
  BY <1>3

----------------------------------------------------------------------------
(* Blocks.                                                                 *)

\* The memory m with the n cells from p on copied to q.
Copied(m, q, p, n) == [a \in Cells |-> IF a \in q .. q + n - 1 THEN m[p + (a - q)] ELSE m[a]]

\* The memories of a program.
Memories == [Cells -> Char]

\* Copying x cells and then u more, from a source that is not overwritten, is copying x + u.
LEMMA CopiedMore ==
  ASSUME NEW m \in Memories, NEW q \in Nat \ {0}, NEW p \in Nat \ {0}, NEW x \in Nat, NEW u \in Nat,
         Room(q, x + u), Room(p, x + u), q <= p \/ Apart(p, x + u, q, x + u)
  PROVE  Copied(m, q, p, x + u) =
           [a \in Cells |-> IF a \in q + x .. q + x + u - 1 THEN Copied(m, q, p, x)[p + (a - q)]
                                                           ELSE Copied(m, q, p, x)[a]]
<1> DEFINE w == Copied(m, q, p, x)
<1>1. CELLS \in Nat
  BY LibraryAssumption
<1>2. ASSUME NEW a \in Cells, a \in q + x .. q + x + u - 1
      PROVE  w[p + (a - q)] = m[p + (a - q)]
  <2>1. p + (a - q) \in Cells /\ p + (a - q) \in p .. p + (x + u) - 1
    BY <1>1, <1>2 DEF Cells, Room
  <2>2. p + (a - q) \notin q .. q + x - 1
    <3>1. CASE q <= p
      BY <1>1, <1>2, <3>1 DEF Cells
    <3>2. CASE Apart(p, x + u, q, x + u)
      BY <1>1, <2>1, <3>2 DEF Cells, Apart
    <3> QED
      BY <3>1, <3>2
  <2> QED
    BY <2>1, <2>2 DEF Copied
<1>3. ASSUME NEW a \in Cells
      PROVE  Copied(m, q, p, x + u)[a] =
               IF a \in q + x .. q + x + u - 1 THEN w[p + (a - q)] ELSE w[a]
  <2>1. CASE a \in q + x .. q + x + u - 1
    <3>1. a \in q .. q + (x + u) - 1
      BY <1>1, <2>1 DEF Cells
    <3>2. Copied(m, q, p, x + u)[a] = m[p + (a - q)]
      BY <3>1 DEF Copied
    <3> QED
      BY <1>2, <2>1, <3>2
  <2>2. CASE a \notin q + x .. q + x + u - 1
    BY <1>1, <2>2 DEF Copied, Cells
  <2> QED
    BY <2>1, <2>2
<1> QED
  BY <1>3 DEF Copied

\* rep movs, upwards, copies, when it is no unit ahead of what it reads...
LEMMA MovsUp ==
  ASSUME NEW m \in Memories, NEW q \in Nat \ {0}, NEW p \in Nat \ {0}, NEW k \in Nat, NEW u \in Nat,
         Room(q, k * u), Room(p, k * u), q <= p \/ Apart(p, k * u, q, k * u)
  PROVE  movs(m, q, p, k, u, 1) = Copied(m, q, p, k * u)
<1> DEFINE turn(j, w) == LET to == q + 1 * (j - 1) * u
                         IN  [a \in DOMAIN m |-> IF a \in to .. to + u - 1 THEN w[p + (a - q)]
                                                                           ELSE w[a]]
           E(h) == h = [j \in 0 .. k |-> IF j = 0 THEN m ELSE turn(j, h[j - 1])]
           f == CHOOSE h : E(h)
           g == [j \in 0 .. k |-> Copied(m, q, p, j * u)]
<1>1. movs(m, q, p, k, u, 1) = f[k]
  BY DEF movs, After
<1>2. g[0] = m
  <2>1. g[0] = Copied(m, q, p, 0 * u) /\ 0 * u = 0
    OBVIOUS
  <2>2. Copied(m, q, p, 0) = [a \in Cells |-> m[a]]
    BY DEF Copied
  <2> QED
    BY <2>1, <2>2 DEF Memories
<1>3. ASSUME NEW j \in 1 .. k
      PROVE  g[j] = turn(j, g[j - 1])
  <2> DEFINE x == (j - 1) * u
  <2>1. x \in Nat /\ j * u = x + u /\ j * u <= k * u /\ 1 * (j - 1) * u = x
    <3>1. j - 1 \in Nat /\ 1 * (j - 1) = j - 1
      OBVIOUS
    <3>2. u * (j - 1) \in Nat /\ u * (j - 1) = x /\ u * j = j * u /\ u * (j - 1) = u * j - u * 1
      BY <3>1, ProductFacts
    <3>3. j * u <= k * u
      BY ProductFacts
    <3> QED
      BY <3>1, <3>2, <3>3
  <2> HIDE DEF x
  <2>2. g[j] = Copied(m, q, p, x + u) /\ g[j - 1] = Copied(m, q, p, x)
    BY <2>1 DEF x
  <2>3. Room(q, x + u) /\ Room(p, x + u) /\ (q <= p \/ Apart(p, x + u, q, x + u))
    <3>1. CELLS \in Nat /\ k * u \in Nat /\ x + u <= k * u
      BY <2>1, LibraryAssumption, ProductFacts
    <3>2. Room(q, x + u) /\ Room(p, x + u)
      BY <2>1, <3>1 DEF Room
    <3>3. Apart(p, k * u, q, k * u) => Apart(p, x + u, q, x + u)
      BY <2>1, <3>1 DEF Apart
    <3> QED
      BY <3>2, <3>3
  <2>4. g[j] = [a \in Cells |-> IF a \in q + x .. q + x + u - 1 THEN Copied(m, q, p, x)[p + (a - q)]
                                                               ELSE Copied(m, q, p, x)[a]]
    <3> HIDE DEF g
    <3>1. Copied(m, q, p, x + u) =
            [a \in Cells |-> IF a \in q + x .. q + x + u - 1 THEN Copied(m, q, p, x)[p + (a - q)]
                                                            ELSE Copied(m, q, p, x)[a]]
      BY <2>1, <2>3, CopiedMore
    <3> QED
      BY <2>2, <3>1
  <2>5. DOMAIN m = Cells
    BY DEF Memories
  <2>6. turn(j, g[j - 1]) = [a \in Cells |-> IF a \in q + x .. q + x + u - 1 THEN g[j - 1][p + (a - q)]
                                                               ELSE g[j - 1][a]]
    <3> HIDE DEF g
    <3> QED
      BY <2>1, <2>5
  <2> HIDE DEF g, turn
  <2> QED
    BY <2>2, <2>4, <2>6
<1>4. E(g)
  <2>1. g = [j \in 0 .. k |-> g[j]]
    OBVIOUS
  <2> HIDE DEF turn, g
  <2>2. \A j \in 0 .. k : g[j] = IF j = 0 THEN m ELSE turn(j, g[j - 1])
    BY <1>2, <1>3
  <2>3. g = [j \in 0 .. k |-> IF j = 0 THEN m ELSE turn(j, g[j - 1])]
    BY <2>1, <2>2
  <2> QED
    BY <2>3
<1>5. E(f)
  <2> HIDE DEF turn, g
  <2> QED
    BY <1>4
<1>6. f[0] = g[0] /\ \A j \in 1 .. k : f[j - 1] = g[j - 1] => f[j] = g[j]
  <2> HIDE DEF turn, g, f
  <2> QED
    BY <1>4, <1>5
<1>7. g[k] = Copied(m, q, p, k * u)
  OBVIOUS
<1> HIDE DEF f, E, g
<1>8. f[k] = g[k]
  BY <1>6, SameLoop
<1> QED
  BY <1>1, <1>7, <1>8

\* ... and downwards, in bytes, when it is not behind it.
LEMMA MovsDown ==
  ASSUME NEW m \in Memories, NEW q \in Nat \ {0}, NEW p \in Nat \ {0}, NEW k \in Nat,
         Room(q, k), Room(p, k), p <= q
  PROVE  movs(m, q + k - 1, p + k - 1, k, 1, -1) = Copied(m, q, p, k)
<1> DEFINE turn(j, w) == LET to == q + k - 1 + (-1) * (j - 1) * 1
                         IN  [a \in DOMAIN m |->
                               IF a \in to .. to + 1 - 1 THEN w[p + k - 1 + (a - (q + k - 1))] ELSE w[a]]
           E(h) == h = [j \in 0 .. k |-> IF j = 0 THEN m ELSE turn(j, h[j - 1])]
           f == CHOOSE h : E(h)
           g == [j \in 0 .. k |-> Copied(m, q + k - j, p + k - j, j)]
<1>1. movs(m, q + k - 1, p + k - 1, k, 1, -1) = f[k]
  BY DEF movs, After
<1>2. g[0] = m
  <2>1. Copied(m, q + k - 0, p + k - 0, 0) = [a \in Cells |-> m[a]]
    BY DEF Copied
  <2> QED
    BY <2>1 DEF Memories
<1>3. ASSUME NEW j \in 1 .. k
      PROVE  g[j] = turn(j, g[j - 1])
  <2> DEFINE w == Copied(m, q + k - j + 1, p + k - j + 1, j - 1)
  <2>1. g[j] = Copied(m, q + k - j, p + k - j, j) /\ g[j - 1] = w
    OBVIOUS
  <2>2. DOMAIN m = Cells /\ CELLS \in Nat
    BY LibraryAssumption DEF Memories
  <2>3. q + k - j \in Cells /\ p + k - j \in Cells
    BY <2>2 DEF Room, Cells
  <2>4. turn(j, w) = [a \in Cells |-> IF a = q + k - j THEN w[p + k - j] ELSE w[a]]
    <3>1. q + k - 1 + (-1) * (j - 1) * 1 = q + k - j
      OBVIOUS
    <3>2. \A a \in Cells : a \in q + k - j .. q + k - j + 1 - 1 <=> a = q + k - j
      BY <2>2, <2>3 DEF Cells
    <3>3. p + k - 1 + (q + k - j - (q + k - 1)) = p + k - j
      OBVIOUS
    <3> HIDE DEF w
    <3> QED
      BY <2>2, <3>1, <3>2, <3>3
  <2>5. w[p + k - j] = m[p + k - j]
    BY <2>2, <2>3 DEF Copied, Cells
  <2>6. ASSUME NEW a \in Cells
        PROVE  Copied(m, q + k - j, p + k - j, j)[a] = IF a = q + k - j THEN m[p + k - j] ELSE w[a]
    <3>1. CASE a = q + k - j
      BY <2>2, <3>1 DEF Copied, Cells
    <3>2. CASE a # q + k - j
      <4>1. a \in q + k - j .. q + k - j + j - 1
              <=> a \in q + k - j + 1 .. q + k - j + 1 + (j - 1) - 1
        BY <2>2, <3>2 DEF Cells
      <4>2. p + k - j + (a - (q + k - j)) = p + k - j + 1 + (a - (q + k - j + 1))
        BY <2>2 DEF Cells
      <4> QED
        BY <3>2, <4>1, <4>2 DEF Copied
    <3> QED
      BY <3>1, <3>2
  <2> HIDE DEF w, turn
  <2>7. turn(j, w) = Copied(m, q + k - j, p + k - j, j)
    BY <2>4, <2>5, <2>6 DEF Copied
  <2> QED
    BY <2>1, <2>7
<1>4. E(g)
  <2>1. g = [j \in 0 .. k |-> g[j]]
    OBVIOUS
  <2> HIDE DEF turn, g
  <2>2. \A j \in 0 .. k : g[j] = IF j = 0 THEN m ELSE turn(j, g[j - 1])
    BY <1>2, <1>3
  <2>3. g = [j \in 0 .. k |-> IF j = 0 THEN m ELSE turn(j, g[j - 1])]
    BY <2>1, <2>2
  <2> QED
    BY <2>3
<1>5. E(f)
  <2> HIDE DEF turn, g
  <2> QED
    BY <1>4
<1>6. f[0] = g[0] /\ \A j \in 1 .. k : f[j - 1] = g[j - 1] => f[j] = g[j]
  <2> HIDE DEF turn, g, f
  <2> QED
    BY <1>4, <1>5
<1>7. g[k] = Copied(m, q, p, k)
  <2>1. q + k - k = q /\ p + k - k = p
    OBVIOUS
  <2> QED
    BY <2>1
<1> HIDE DEF f, E, g
<1>8. f[k] = g[k]
  BY <1>6, SameLoop
<1> QED
  BY <1>1, <1>7, <1>8

\* The memory m with c in the n cells from q on.
Filled(m, q, c, n) == [a \in Cells |-> IF a \in q .. q + n - 1 THEN c ELSE m[a]]

\* rep stos, upwards, fills.
LEMMA StosUp ==
  ASSUME NEW m \in Memories, NEW q \in Nat \ {0}, NEW c, NEW k \in Nat, NEW u \in Nat
  PROVE  stos(m, q, c, k, u, 1) = Filled(m, q, c, k * u)
<1> DEFINE turn(j, w) == LET to == q + 1 * (j - 1) * u
                         IN  [a \in DOMAIN m |-> IF a \in to .. to + u - 1 THEN c
                                                                           ELSE w[a]]
           E(h) == h = [j \in 0 .. k |-> IF j = 0 THEN m ELSE turn(j, h[j - 1])]
           f == CHOOSE h : E(h)
           g == [j \in 0 .. k |-> Filled(m, q, c, j * u)]
<1>1. stos(m, q, c, k, u, 1) = f[k]
  BY DEF stos, After
<1>2. g[0] = m
  <2>1. g[0] = Filled(m, q, c, 0 * u) /\ 0 * u = 0
    OBVIOUS
  <2>2. Filled(m, q, c, 0) = [a \in Cells |-> m[a]]
    BY DEF Filled
  <2> QED
    BY <2>1, <2>2 DEF Memories
<1>3. ASSUME NEW j \in 1 .. k
      PROVE  g[j] = turn(j, g[j - 1])
  <2> DEFINE x == (j - 1) * u
  <2>1. x \in Nat /\ j * u = x + u /\ j * u <= k * u /\ 1 * (j - 1) * u = x
    <3>1. j - 1 \in Nat /\ 1 * (j - 1) = j - 1
      OBVIOUS
    <3>2. u * (j - 1) \in Nat /\ u * (j - 1) = x /\ u * j = j * u /\ u * (j - 1) = u * j - u * 1
      BY <3>1, ProductFacts
    <3>3. j * u <= k * u
      BY ProductFacts
    <3> QED
      BY <3>1, <3>2, <3>3
  <2> HIDE DEF x
  <2>2. g[j] = Filled(m, q, c, x + u) /\ g[j - 1] = Filled(m, q, c, x)
    BY <2>1 DEF x
  <2>4. g[j] = [a \in Cells |-> IF a \in q + x .. q + x + u - 1 THEN c ELSE Filled(m, q, c, x)[a]]
    <3> HIDE DEF g
    <3>1. CELLS \in Nat
      BY LibraryAssumption
    <3>2. \A a \in Cells : Filled(m, q, c, x + u)[a] =
                             IF a \in q + x .. q + x + u - 1 THEN c ELSE Filled(m, q, c, x)[a]
      BY <2>1, <3>1 DEF Filled, Cells
    <3>3. Filled(m, q, c, x + u) =
            [a \in Cells |-> IF a \in q + x .. q + x + u - 1 THEN c ELSE Filled(m, q, c, x)[a]]
      BY <3>2 DEF Filled
    <3> QED
      BY <2>2, <3>3
  <2>5. DOMAIN m = Cells
    BY DEF Memories
  <2>6. turn(j, g[j - 1]) = [a \in Cells |-> IF a \in q + x .. q + x + u - 1 THEN c
                                                               ELSE g[j - 1][a]]
    <3> HIDE DEF g
    <3> QED
      BY <2>1, <2>5
  <2> HIDE DEF g, turn
  <2> QED
    BY <2>2, <2>4, <2>6
<1>4. E(g)
  <2>1. g = [j \in 0 .. k |-> g[j]]
    OBVIOUS
  <2> HIDE DEF turn, g
  <2>2. \A j \in 0 .. k : g[j] = IF j = 0 THEN m ELSE turn(j, g[j - 1])
    BY <1>2, <1>3
  <2>3. g = [j \in 0 .. k |-> IF j = 0 THEN m ELSE turn(j, g[j - 1])]
    BY <2>1, <2>2
  <2> QED
    BY <2>3
<1>5. E(f)
  <2> HIDE DEF turn, g
  <2> QED
    BY <1>4
<1>6. f[0] = g[0] /\ \A j \in 1 .. k : f[j - 1] = g[j - 1] => f[j] = g[j]
  <2> HIDE DEF turn, g, f
  <2> QED
    BY <1>4, <1>5
<1>7. g[k] = Filled(m, q, c, k * u)
  OBVIOUS
<1> HIDE DEF f, E, g
<1>8. f[k] = g[k]
  BY <1>6, SameLoop
<1> QED
  BY <1>1, <1>7, <1>8

\* A copy is a memory.
LEMMA CopiedType ==
  ASSUME NEW m \in Memories, NEW q \in Nat \ {0}, NEW p \in Nat \ {0}, NEW n \in Nat, Room(p, n)
  PROVE  Copied(m, q, p, n) \in Memories
<1>1. ASSUME NEW a \in Cells, a \in q .. q + n - 1
      PROVE  p + (a - q) \in Cells
  BY <1>1, LibraryAssumption DEF Room, Cells
<1> QED
  BY <1>1 DEF Copied, Memories

\* Words, then what is left.
LEMMA InWords ==
  ASSUME NEW n \in Nat
  PROVE  /\ n \div WORD \in Nat /\ n % WORD \in Nat /\ (n \div WORD) * WORD \in Nat
         /\ n = (n \div WORD) * WORD + (n % WORD)
<1>1. WORD \in Nat \ {0}
  BY StringsAssumption
<1>2. n \div WORD \in Nat /\ n % WORD \in Nat /\ n = WORD * (n \div WORD) + (n % WORD)
  BY <1>1, Parts
<1>3. (n \div WORD) * WORD = WORD * (n \div WORD) /\ (n \div WORD) * WORD \in Nat
  BY <1>1, <1>2, ProductFacts
<1> QED
  BY <1>2, <1>3

\* memcpy(): words, then what is left of them, whatever the direction flag was
\* (string.c:102-123).
LEMMA MemcpyCopies ==
  ASSUME NEW m \in Memories, NEW d, NEW q \in Nat \ {0}, NEW p \in Nat \ {0}, NEW n \in Nat,
         Room(q, n), Room(p, n), Apart(p, n, q, n)
  PROVE  memcpy(m, d, q, p, n) = Copied(m, q, p, n)
<1> DEFINE k == n \div WORD
           x == k * WORD
           r == n % WORD
           w == Copied(m, q, p, x)
<1>1. WORD \in Nat /\ CELLS \in Nat /\ k \in Nat /\ x \in Nat /\ r \in Nat /\ n = x + r
  BY InWords, StringsAssumption, LibraryAssumption
<1>2. memcpy(m, d, q, p, n) = movs(movs(m, q, p, k, WORD, 1), q + x, p + x, r, 1, 1)
  BY DEF memcpy, cld
<1> HIDE DEF k, r
<1>3. movs(m, q, p, k, WORD, 1) = w
  <2>1. Room(q, k * WORD) /\ Room(p, k * WORD) /\ Apart(p, k * WORD, q, k * WORD)
    BY <1>1 DEF Room, Apart
  <2> QED
    BY <1>1, <2>1, MovsUp
<1> HIDE DEF x
<1>4. w \in Memories
  <2>1. Room(p, x)
    BY <1>1 DEF Room
  <2> QED
    BY <1>1, <2>1, CopiedType
<1>5. movs(w, q + x, p + x, r, 1, 1) = Copied(w, q + x, p + x, r)
  <2>1. r * 1 = r /\ q + x \in Nat \ {0} /\ p + x \in Nat \ {0}
    BY <1>1
  <2>2. Room(q + x, r) /\ Room(p + x, r) /\ Apart(p + x, r, q + x, r)
    BY <1>1 DEF Room, Apart
  <2> HIDE DEF w
  <2> QED
    BY <1>1, <1>4, <2>1, <2>2, MovsUp
<1>6. Copied(m, q, p, x + r) = [a \in Cells |-> IF a \in q + x .. q + x + r - 1 THEN w[p + (a - q)] ELSE w[a]]
  BY <1>1, CopiedMore
<1>7. Copied(w, q + x, p + x, r) = [a \in Cells |-> IF a \in q + x .. q + x + r - 1 THEN w[p + (a - q)] ELSE w[a]]
  <2>1. \A a \in Cells : p + x + (a - (q + x)) = p + (a - q)
    BY <1>1 DEF Cells
  <2> HIDE DEF w
  <2> QED
    BY <2>1 DEF Copied
<1> QED
  BY <1>1, <1>2, <1>3, <1>5, <1>6, <1>7

\* memmove() chooses the direction in which it does not overwrite what it has not read
\* (string.c:130-159).
LEMMA MemmoveCopies ==
  ASSUME NEW m \in Memories, NEW q \in Nat \ {0}, NEW p \in Nat \ {0}, NEW n \in Nat,
         Room(q, n), Room(p, n)
  PROVE  memmove(m, q, p, n) = Copied(m, q, p, n)
<1>1. CASE q < p
  <2>1. n * 1 = n /\ q <= p
    BY <1>1
  <2>2. movs(m, q, p, n, 1, 1) = Copied(m, q, p, n)
    BY <2>1, MovsUp
  <2> QED
    BY <1>1, <2>2 DEF memmove
<1>2. CASE ~(q < p)
  <2>1. p <= q
    BY <1>2
  <2>2. movs(m, q + n - 1, p + n - 1, n, 1, -1) = Copied(m, q, p, n)
    BY <2>1, MovsDown
  <2> QED
    BY <1>2, <2>2 DEF memmove
<1> QED
  BY <1>1, <1>2

\* memset(): words, then bytes (string.c:166-188).
LEMMA MemsetFills ==
  ASSUME NEW m \in Memories, NEW d, NEW q \in Nat \ {0}, NEW c \in Char, NEW n \in Nat
  PROVE  memset(m, d, q, c, n) = Filled(m, q, c, n) /\ Filled(m, q, c, n) \in Memories
<1> DEFINE k == n \div WORD
           x == k * WORD
           r == n % WORD
           w == Filled(m, q, c, x)
<1>1. WORD \in Nat /\ CELLS \in Nat /\ k \in Nat /\ x \in Nat /\ r \in Nat /\ n = x + r
  BY InWords, StringsAssumption, LibraryAssumption
<1>2. memset(m, d, q, c, n) = stos(stos(m, q, c, k, WORD, 1), q + x, c, r, 1, 1)
  BY DEF memset, cld
<1> HIDE DEF k, r
<1>3. stos(m, q, c, k, WORD, 1) = w
  BY <1>1, StosUp
<1> HIDE DEF x
<1>4. w \in Memories
  BY DEF Filled, Memories
<1>5. stos(w, q + x, c, r, 1, 1) = Filled(w, q + x, c, r)
  <2>1. r * 1 = r /\ q + x \in Nat \ {0}
    BY <1>1
  <2> HIDE DEF w
  <2> QED
    BY <1>1, <1>4, <2>1, StosUp
<1>6. \A a \in Cells : Filled(w, q + x, c, r)[a] = Filled(m, q, c, n)[a]
  BY <1>1 DEF Filled, Cells
<1>7. Filled(w, q + x, c, r) = Filled(m, q, c, n)
  BY <1>6 DEF Filled
<1>8. Filled(m, q, c, n) \in Memories
  BY DEF Filled, Memories
<1> QED
  BY <1>2, <1>3, <1>5, <1>7, <1>8

\* The memory m with the n cells from p on and those from q on exchanged.
Swapped(m, p, q, n) ==
  [a \in Cells |-> IF a \in p .. p + n - 1 THEN m[q + (a - p)]
                   ELSE IF a \in q .. q + n - 1 THEN m[p + (a - q)] ELSE m[a]]

\* memswap(), of blocks that are apart (string.c:276-290).
LEMMA MemswapSwaps ==
  ASSUME NEW m \in Memories, NEW p \in Nat \ {0}, NEW q \in Nat \ {0}, NEW n \in Nat,
         Room(p, n), Room(q, n), Apart(p, n, q, n)
  PROVE  memswap(m, p, q, n) = Swapped(m, p, q, n)
<1> DEFINE turn(j, w) == [w EXCEPT ![p + j - 1] = w[q + j - 1], ![q + j - 1] = w[p + j - 1]]
           E(h) == h = [j \in 0 .. n |-> IF j = 0 THEN m ELSE turn(j, h[j - 1])]
           f == CHOOSE h : E(h)
           g == [j \in 0 .. n |-> Swapped(m, p, q, j)]
<1>1. memswap(m, p, q, n) = f[n]
  BY DEF memswap, After
<1>2. g[0] = m
  BY DEF Swapped, Memories
<1>3. ASSUME NEW j \in 1 .. n
      PROVE  g[j] = turn(j, g[j - 1])
  <2> DEFINE w == Swapped(m, p, q, j - 1)
             b == p + j - 1
             c == q + j - 1
  <2>1. g[j] = Swapped(m, p, q, j) /\ g[j - 1] = w
    OBVIOUS
  <2>2. CELLS \in Nat /\ b \in Cells /\ c \in Cells
    BY LibraryAssumption DEF Room, Cells
  <2>3. \A i \in 0 .. n - 1 : p + i # c /\ q + i # b
    <3>1. ASSUME NEW i \in 0 .. n - 1
          PROVE  p + i # c /\ q + i # b
      <4>1. p + i \in p .. p + n - 1 /\ q + i \in q .. q + n - 1
        OBVIOUS
      <4>2. b \in p .. p + n - 1 /\ c \in q .. q + n - 1
        OBVIOUS
      <4> HIDE DEF b, c
      <4> QED
        BY <4>1, <4>2 DEF Apart
    <3> QED
      BY <3>1
  <2>4. b # c
    BY <2>3
  <2>5. w[b] = m[b] /\ w[c] = m[c]
    <3>1. b \notin p .. p + (j - 1) - 1 /\ c \notin q .. q + (j - 1) - 1
      OBVIOUS
    <3>2. b \notin q .. q + (j - 1) - 1
      <4> SUFFICES ASSUME b \in q .. q + (j - 1) - 1
                   PROVE  FALSE
        OBVIOUS
      <4>1. b - q \in 0 .. n - 1 /\ q + (b - q) = b
        BY <2>2 DEF Cells
      <4> HIDE DEF b
      <4> QED
        BY <2>3, <4>1
    <3>3. c \notin p .. p + (j - 1) - 1
      <4> SUFFICES ASSUME c \in p .. p + (j - 1) - 1
                   PROVE  FALSE
        OBVIOUS
      <4>1. c - p \in 0 .. n - 1 /\ p + (c - p) = c
        BY <2>2 DEF Cells
      <4> HIDE DEF c
      <4> QED
        BY <2>3, <4>1
    <3> HIDE DEF b, c
    <3> QED
      BY <2>2, <3>1, <3>2, <3>3 DEF Swapped
  <2>6. DOMAIN w = Cells
    BY DEF Swapped
  <2>7. turn(j, w) = [a \in Cells |-> IF a = c THEN m[b] ELSE IF a = b THEN m[c] ELSE w[a]]
    <3>1. turn(j, w) = [w EXCEPT ![b] = w[c], ![c] = w[b]]
      OBVIOUS
    <3>2. w = [a \in Cells |-> w[a]]
      BY DEF Swapped
    <3> HIDE DEF b, c, w, turn
    <3>3. [w EXCEPT ![b] = w[c], ![c] = w[b]] = [a \in Cells |-> IF a = c THEN w[b] ELSE IF a = b THEN w[c] ELSE w[a]]
      BY <2>2, <2>4, <3>2
    <3> QED
      BY <2>5, <3>1, <3>3
  <2>8. ASSUME NEW a \in Cells
        PROVE  Swapped(m, p, q, j)[a] = IF a = c THEN m[b] ELSE IF a = b THEN m[c] ELSE w[a]
    <3>1. CASE a = c
      <4>1. a \in q .. q + j - 1 /\ p + (a - q) = b
        BY <3>1
      <4>2. a \notin p .. p + j - 1
        <5> SUFFICES ASSUME a \in p .. p + j - 1
                     PROVE  FALSE
          OBVIOUS
        <5>1. a - p \in 0 .. n - 1 /\ p + (a - p) = a
          BY <2>2 DEF Cells
        <5> HIDE DEF c
        <5> QED
          BY <2>3, <3>1, <5>1
      <4> HIDE DEF b, c
      <4> QED
        BY <3>1, <4>1, <4>2 DEF Swapped
    <3>2. CASE a = b
      <4>1. a \in p .. p + j - 1 /\ q + (a - p) = c
        BY <3>2
      <4> HIDE DEF b, c
      <4> QED
        BY <2>4, <3>2, <4>1 DEF Swapped
    <3>3. CASE a # b /\ a # c
      <4>1. /\ a \in p .. p + j - 1 <=> a \in p .. p + (j - 1) - 1
            /\ a \in q .. q + j - 1 <=> a \in q .. q + (j - 1) - 1
        BY <2>2, <3>3 DEF Cells
      <4> HIDE DEF b, c
      <4> QED
        BY <3>3, <4>1 DEF Swapped
    <3> QED
      BY <3>1, <3>2, <3>3
  <2> HIDE DEF b, c, w, turn
  <2>9. turn(j, w) = Swapped(m, p, q, j)
    BY <2>7, <2>8 DEF Swapped
  <2> QED
    BY <2>1, <2>9
<1>4. E(g)
  <2>1. g = [j \in 0 .. n |-> g[j]]
    OBVIOUS
  <2> HIDE DEF turn, g
  <2>2. \A j \in 0 .. n : g[j] = IF j = 0 THEN m ELSE turn(j, g[j - 1])
    BY <1>2, <1>3
  <2>3. g = [j \in 0 .. n |-> IF j = 0 THEN m ELSE turn(j, g[j - 1])]
    BY <2>1, <2>2
  <2> QED
    BY <2>3
<1>5. E(f)
  <2> HIDE DEF turn, g
  <2> QED
    BY <1>4
<1>6. f[0] = g[0] /\ \A j \in 1 .. n : f[j - 1] = g[j - 1] => f[j] = g[j]
  <2> HIDE DEF turn, g, f
  <2> QED
    BY <1>4, <1>5
<1>7. g[n] = Swapped(m, p, q, n)
  OBVIOUS
<1> HIDE DEF f, E, g
<1>8. f[n] = g[n]
  BY <1>6, SameLoop
<1> QED
  BY <1>1, <1>7, <1>8

\* k cells are what comes up to the first c of the n at p, or all n when there is none.
UpTo(m, p, c, n, k) ==
  /\ k \in 0 .. n
  /\ \A i \in 1 .. k - 1 : m[p + i - 1] # c
  /\ k = n \/ (k >= 1 /\ m[p + k - 1] = c)

\* What memccpy() does when it copies k cells.
CopiedAnswer(m, q, p, c, k) ==
  [mem |-> Copied(m, q, p, k), ret |-> IF k >= 1 /\ m[p + k - 1] = c THEN q + k ELSE NULL]

\* memccpy() copies up to the first c, that one too (string.c:25-38).
LEMMA MemccpyCopies ==
  ASSUME NEW m \in Memories, NEW q \in Nat \ {0}, NEW p \in Nat \ {0}, NEW c, NEW n \in Nat,
         NEW k \in Nat, UpTo(m, p, c, n, k), Room(q, k), Room(p, k), Apart(p, k, q, k)
  PROVE  memccpy(m, q, p, c, n) = CopiedAnswer(m, q, p, c, k)
<1> DEFINE hit == k >= 1 /\ m[p + k - 1] = c
<1>0. /\ k \in 0 .. n
      /\ \A i \in 1 .. k : m[p + i - 1] = c <=> hit /\ i = k
      /\ IF hit THEN k >= 1 ELSE k = n
  BY DEF UpTo
<1> HIDE DEF hit
<1> DEFINE start == [mem |-> m, ret |-> NULL]
           turn(j, w) == IF w.ret # NULL THEN w
                         ELSE [mem |-> [w.mem EXCEPT ![q + j - 1] = w.mem[p + j - 1]],
                               ret |-> IF w.mem[p + j - 1] = c THEN q + j ELSE NULL]
           E(h) == h = [j \in 0 .. n |-> IF j = 0 THEN start ELSE turn(j, h[j - 1])]
           f == CHOOSE h : E(h)
           g == [j \in 0 .. n |-> [mem |-> Copied(m, q, p, IF j < k THEN j ELSE k),
                                   ret |-> IF hit /\ j >= k THEN q + k ELSE NULL]]
<1>1. memccpy(m, q, p, c, n) = f[n]
  BY DEF memccpy, After
<1>2. g[0] = start
  <2>1. Copied(m, q, p, 0) = m
    BY DEF Copied, Memories
  <2>2. (IF 0 < k THEN 0 ELSE k) = 0 /\ ~(hit /\ 0 >= k)
    BY <1>0
  <2>3. g[0] = [mem |-> Copied(m, q, p, IF 0 < k THEN 0 ELSE k), ret |-> IF hit /\ 0 >= k THEN q + k ELSE NULL]
    OBVIOUS
  <2> HIDE DEF g
  <2> QED
    BY <2>1, <2>2, <2>3
<1>3. ASSUME NEW j \in 1 .. n
      PROVE  g[j] = turn(j, g[j - 1])
  <2>1. CASE hit /\ j > k
    <3>1. g[j] = [mem |-> Copied(m, q, p, k), ret |-> q + k]
      BY <2>1
    <3>2. g[j - 1] = [mem |-> Copied(m, q, p, k), ret |-> q + k]
      BY <2>1
    <3>3. q + k # NULL
      BY DEF NULL
    <3> HIDE DEF g
    <3> QED
      BY <3>1, <3>2, <3>3
  <2>2. CASE ~(hit /\ j > k)
    <3>1. j \in 1 .. k
      BY <1>0, <2>2
    <3> DEFINE w == Copied(m, q, p, j - 1)
    <3>2. g[j - 1] = [mem |-> w, ret |-> NULL]
      BY <3>1
    <3>3. g[j] = [mem |-> Copied(m, q, p, j), ret |-> IF hit /\ j = k THEN q + k ELSE NULL]
      BY <3>1
    <3>4. CELLS \in Nat /\ p + j - 1 \in Cells /\ q + j - 1 \in Cells
      BY <3>1, LibraryAssumption DEF Room, Cells
    <3>5. w[p + j - 1] = m[p + j - 1]
      <4>1. p + j - 1 \in p .. p + k - 1
        BY <3>1
      <4>2. p + j - 1 \notin q .. q + k - 1
        BY <4>1 DEF Apart
      <4>3. p + j - 1 \notin q .. q + (j - 1) - 1
        BY <3>1, <4>2
      <4> QED
        BY <3>4, <4>3 DEF Copied
    <3>6. [w EXCEPT ![q + j - 1] = m[p + j - 1]] = Copied(m, q, p, j)
      <4>1. ASSUME NEW a \in Cells
            PROVE  Copied(m, q, p, j)[a] = IF a = q + j - 1 THEN m[p + j - 1] ELSE w[a]
        <5>1. CASE a = q + j - 1
          <6>1. a \in q .. q + j - 1 /\ p + (a - q) = p + j - 1
            BY <5>1
          <6> QED
            BY <5>1, <6>1 DEF Copied
        <5>2. CASE a # q + j - 1
          <6>1. a \in q .. q + j - 1 <=> a \in q .. q + (j - 1) - 1
            BY <3>4, <5>2 DEF Cells
          <6> QED
            BY <5>2, <6>1 DEF Copied
        <5> QED
          BY <5>1, <5>2
      <4>2. w = [a \in Cells |-> w[a]]
        BY DEF Copied
      <4> HIDE DEF w
      <4>3. [w EXCEPT ![q + j - 1] = m[p + j - 1]] = [a \in Cells |-> IF a = q + j - 1 THEN m[p + j - 1] ELSE w[a]]
        BY <4>2
      <4> QED
        BY <4>1, <4>3 DEF Copied
    <3>7. m[p + j - 1] = c <=> hit /\ j = k
      BY <1>0, <3>1
    <3> HIDE DEF g, w
    <3>8. turn(j, g[j - 1]) = [mem |-> Copied(m, q, p, j), ret |-> IF m[p + j - 1] = c THEN q + j ELSE NULL]
      BY <3>2, <3>5, <3>6
    <3> HIDE DEF turn
    <3> QED
      BY <3>3, <3>7, <3>8
  <2> QED
    BY <2>1, <2>2
<1>4. E(g)
  <2>1. g = [j \in 0 .. n |-> g[j]]
    OBVIOUS
  <2> HIDE DEF turn, start, g
  <2>2. \A j \in 0 .. n : g[j] = IF j = 0 THEN start ELSE turn(j, g[j - 1])
    BY <1>2, <1>3
  <2>3. g = [j \in 0 .. n |-> IF j = 0 THEN start ELSE turn(j, g[j - 1])]
    BY <2>1, <2>2
  <2> QED
    BY <2>3
<1>5. E(f)
  <2> HIDE DEF turn, start, g
  <2> QED
    BY <1>4
<1>6. f[0] = g[0] /\ \A j \in 1 .. n : f[j - 1] = g[j - 1] => f[j] = g[j]
  <2> HIDE DEF turn, start, g, f
  <2> QED
    BY <1>4, <1>5
<1>7. g[n] = [mem |-> Copied(m, q, p, k), ret |-> IF hit THEN q + k ELSE NULL]
  BY <1>0
<1> HIDE DEF f, E, g
<1>8. f[n] = g[n]
  BY <1>6, SameLoop
<1> QED
  BY <1>1, <1>7, <1>8 DEF hit, CopiedAnswer

----------------------------------------------------------------------------
(* In the words of Library.tla.                                            *)

\* A memory is a sequence of characters.
LEMMA MemoryIsSequence ==
  ASSUME NEW m \in Memories
  PROVE  m \in Seq(Char) /\ Len(m) = CELLS
<1>1. CELLS \in Nat /\ m \in [1 .. CELLS -> Char]
  BY LibraryAssumption DEF Memories, Cells
<1>2. m \in Seq(Char)
  BY <1>1, SeqDef
<1>3. DOMAIN m = 1 .. Len(m) /\ Len(m) \in Nat
  BY <1>2, LenProperties
<1> QED
  BY <1>1, <1>2, <1>3

\* What is read of a memory from p on.
LEMMA SliceFacts ==
  ASSUME NEW m \in Memories, NEW p \in Nat \ {0}, NEW n \in Nat, Room(p, n)
  PROVE  /\ SubSeq(m, p, p + n - 1) \in Seq(Char)
         /\ Len(SubSeq(m, p, p + n - 1)) = n
         /\ \A i \in 1 .. n : SubSeq(m, p, p + n - 1)[i] = m[p + i - 1]
<1>1. CELLS \in Nat /\ m \in Seq(Char) /\ Len(m) = CELLS
  BY LibraryAssumption, MemoryIsSequence
<1>2. CASE n = 0
  <2>1. SubSeq(m, p, p + n - 1) = << >>
    <3>1. p + n - 1 < p /\ p + n - 1 \in Int
      BY <1>2
    <3> QED
      BY <1>1, <3>1, SubSeqEmpty
  <2> QED
    BY <1>2, <2>1
<1>3. CASE n # 0
  <2>1. p \in 1 .. Len(m) + 1 /\ p + n - 1 \in 0 .. Len(m) /\ p <= p + n - 1 /\ p + n - 1 - p + 1 = n
    BY <1>1, <1>3 DEF Room
  <2>2. \A i \in 1 .. n : p + i - 1 = p + i - 1
    OBVIOUS
  <2> QED
    BY <1>1, <2>1, SubSeqProperties
<1> QED
  BY <1>2, <1>3

\* What Put() makes of a piece of a memory.
LEMMA PutFacts ==
  ASSUME NEW m \in Memories, NEW w, NEW q \in Nat \ {0}, NEW p \in Nat \ {0}, NEW n \in Nat, Room(p, n)
  PROVE  Put(w, q, SubSeq(m, p, p + n - 1)) =
           [a \in Cells |-> IF a \in q .. q + n - 1 THEN m[p + (a - q)] ELSE w[a]]
<1> DEFINE t == SubSeq(m, p, p + n - 1)
<1>1. Len(t) = n /\ \A i \in 1 .. n : t[i] = m[p + i - 1]
  BY SliceFacts
<1>2. CELLS \in Nat
  BY LibraryAssumption
<1> HIDE DEF t
<1>3. ASSUME NEW a \in Cells, a \in q .. q + n - 1
      PROVE  t[a - q + 1] = m[p + (a - q)]
  <2>1. a - q + 1 \in 1 .. n /\ p + (a - q + 1) - 1 = p + (a - q)
    BY <1>2, <1>3 DEF Cells
  <2> QED
    BY <1>1, <2>1
<1>4. Put(w, q, t) = [a \in Cells |-> IF a \in q .. q + n - 1 THEN m[p + (a - q)] ELSE w[a]]
  BY <1>1, <1>3 DEF Put
<1> QED
  BY <1>4 DEF t

\* The least element of a set of numbers.
LEMMA MinFacts ==
  ASSUME NEW S \in SUBSET Nat, S # {}
  PROVE  Min(S) \in S /\ \A k \in S : Min(S) <= k
BY Smallest DEF Min

\* Where memccpy() stops.
LEMMA StopFacts ==
  ASSUME mem \in Memories, NEW p \in Cells, NEW n \in 0 .. CELLS, NEW c, Room(p, n),
         NEW k, k = IF Holding(p, n, c) = {} THEN n ELSE Min(Holding(p, n, c)) - p + 1
  PROVE  /\ k \in 0 .. n
         /\ IF Holding(p, n, c) = {} THEN k = n ELSE k >= 1
         /\ \A i \in 1 .. k : mem[p + i - 1] = c <=> Holding(p, n, c) # {} /\ i = k
<1>1. CELLS \in Nat /\ p \in Nat \ {0} /\ n \in Nat
  BY LibraryAssumption DEF Cells
<1>2. CASE Holding(p, n, c) # {}
  <2>1. Holding(p, n, c) \in SUBSET Nat /\ Holding(p, n, c) # {}
    BY <1>1, <1>2 DEF Holding
  <2> DEFINE a == Min(Holding(p, n, c))
  <2>2. a \in Holding(p, n, c) /\ \A b \in Holding(p, n, c) : a <= b
    BY <2>1, MinFacts
  <2>3. k = a - p + 1
    BY <1>2
  <2> HIDE DEF a
  <2>4. a \in p .. p + n - 1 /\ mem[a] = c
    BY <2>2 DEF Holding
  <2>5. k \in 1 .. n
    BY <1>1, <2>3, <2>4
  <2>6. ASSUME NEW i \in 1 .. k
        PROVE  mem[p + i - 1] = c <=> i = k
    <3>1. CASE i = k
      <4>1. p + i - 1 = a
        BY <1>1, <2>3, <2>4, <3>1
      <4> QED
        BY <2>4, <3>1, <4>1
    <3>2. CASE i # k
      <4>1. p + i - 1 \in p .. p + n - 1 /\ ~(a <= p + i - 1)
        BY <1>1, <2>3, <2>4, <2>5, <3>2
      <4>2. p + i - 1 \notin Holding(p, n, c)
        BY <2>2, <4>1
      <4> QED
        BY <3>2, <4>1, <4>2 DEF Holding
    <3> QED
      BY <3>1, <3>2
  <2> QED
    BY <1>1, <1>2, <2>5, <2>6
<1>3. CASE Holding(p, n, c) = {}
  <2>1. Holding(p, n, c) = {} /\ k = n
    BY <1>3
  <2>2. ASSUME NEW i \in 1 .. k
        PROVE  mem[p + i - 1] # c
    <3>1. p + i - 1 \in p .. p + n - 1
      BY <1>1, <2>1
    <3> QED
      BY <2>1, <3>1 DEF Holding
  <2> QED
    BY <1>1, <1>3, <2>1, <2>2
<1> QED
  BY <1>2, <1>3

\* In every memory, every call that writes a block writes what it should.
LEMMA CopiesAreExact == mem \in Memories => CopiesExact
<1> SUFFICES ASSUME mem \in Memories, NEW q \in Cells, NEW n \in 0 .. CELLS, Room(q, n)
             PROVE
    /\ \A c \in Char : memset(mem, df, q, c, n) = Put(mem, q, [i \in 1 .. n |-> c])
    /\ \A p \in Cells : Room(p, n) =>
         /\ memmove(mem, q, p, n) = Put(mem, q, Bytes(p, n))
         /\ Apart(p, n, q, n) =>
              /\ memcpy(mem, df, q, p, n) = Put(mem, q, Bytes(p, n))
              /\ memswap(mem, p, q, n) = Put(Put(mem, q, Bytes(p, n)), p, Bytes(q, n))
              /\ \A c \in Char :
                   LET k == IF Holding(p, n, c) = {} THEN n ELSE Min(Holding(p, n, c)) - p + 1
                   IN  memccpy(mem, q, p, c, n) =
                         [mem |-> Put(mem, q, Bytes(p, k)),
                          ret |-> IF Holding(p, n, c) = {} THEN NULL ELSE q + k]
  BY DEF CopiesExact
<1>1. CELLS \in Nat /\ q \in Nat \ {0} /\ n \in Nat
  BY LibraryAssumption DEF Cells
<1>2. ASSUME NEW c \in Char
      PROVE  memset(mem, df, q, c, n) = Put(mem, q, [i \in 1 .. n |-> c])
  <2>1. memset(mem, df, q, c, n) = Filled(mem, q, c, n)
    BY <1>1, MemsetFills
  <2> DEFINE t == [i \in 1 .. n |-> c]
  <2>2. Len(t) = n /\ \A i \in 1 .. n : t[i] = c
    BY <1>1
  <2> HIDE DEF t
  <2>3. \A a \in Cells : a \in q .. q + n - 1 => t[a - q + 1] = c
    <3>1. ASSUME NEW a \in Cells, a \in q .. q + n - 1
          PROVE  a - q + 1 \in 1 .. n
      BY <1>1, <3>1 DEF Cells
    <3> QED
      BY <2>2, <3>1
  <2>4. Put(mem, q, t) = Filled(mem, q, c, n)
    BY <2>2, <2>3 DEF Put, Filled
  <2> QED
    BY <2>1, <2>4 DEF t
<1>3. ASSUME NEW p \in Cells, NEW k \in Nat, Room(p, k)
      PROVE  Put(mem, q, Bytes(p, k)) = Copied(mem, q, p, k)
  <2>1. p \in Nat \ {0}
    BY <1>1 DEF Cells
  <2> QED
    BY <1>1, <1>3, <2>1, PutFacts DEF Bytes, Copied
<1>4. ASSUME NEW p \in Cells, Room(p, n)
      PROVE  memmove(mem, q, p, n) = Put(mem, q, Bytes(p, n))
  <2>1. p \in Nat \ {0}
    BY <1>1 DEF Cells
  <2>2. memmove(mem, q, p, n) = Copied(mem, q, p, n)
    BY <1>1, <1>4, <2>1, MemmoveCopies
  <2> QED
    BY <1>1, <1>3, <1>4, <2>2
<1>5. ASSUME NEW p \in Cells, Room(p, n), Apart(p, n, q, n)
      PROVE  memcpy(mem, df, q, p, n) = Put(mem, q, Bytes(p, n))
  <2>1. p \in Nat \ {0}
    BY <1>1 DEF Cells
  <2>2. memcpy(mem, df, q, p, n) = Copied(mem, q, p, n)
    BY <1>1, <1>5, <2>1, MemcpyCopies
  <2> QED
    BY <1>1, <1>3, <1>5, <2>2
<1>6. ASSUME NEW p \in Cells, Room(p, n), Apart(p, n, q, n)
      PROVE  memswap(mem, p, q, n) = Put(Put(mem, q, Bytes(p, n)), p, Bytes(q, n))
  <2>1. p \in Nat \ {0}
    BY <1>1 DEF Cells
  <2>2. memswap(mem, p, q, n) = Swapped(mem, p, q, n)
    BY <1>1, <1>6, <2>1, MemswapSwaps
  <2>3. Put(mem, q, Bytes(p, n)) = Copied(mem, q, p, n)
    BY <1>1, <1>3, <1>6
  <2>4. Put(Copied(mem, q, p, n), p, Bytes(q, n)) =
          [a \in Cells |-> IF a \in p .. p + n - 1 THEN mem[q + (a - p)] ELSE Copied(mem, q, p, n)[a]]
    <3> DEFINE w == Copied(mem, q, p, n)
    <3> HIDE DEF w
    <3>1. Put(w, p, SubSeq(mem, q, q + n - 1)) =
            [a \in Cells |-> IF a \in p .. p + n - 1 THEN mem[q + (a - p)] ELSE w[a]]
      <4>1. mem \in Memories /\ q \in Nat \ {0} /\ p \in Nat \ {0} /\ n \in Nat /\ Room(q, n)
        BY <1>1, <2>1
      <4>2. ASSUME NEW v
            PROVE  Put(v, p, SubSeq(mem, q, q + n - 1)) =
                     [a \in Cells |-> IF a \in p .. p + n - 1 THEN mem[q + (a - p)] ELSE v[a]]
        BY <4>1, PutFacts
      <4> QED
        BY <4>2
    <3> QED
      BY <3>1 DEF w, Bytes
  <2>5. Put(Copied(mem, q, p, n), p, Bytes(q, n)) = Swapped(mem, p, q, n)
    BY <2>4 DEF Swapped, Copied
  <2> QED
    BY <2>2, <2>3, <2>5
<1>7. ASSUME NEW p \in Cells, Room(p, n), Apart(p, n, q, n), NEW c \in Char, NEW k,
             k = IF Holding(p, n, c) = {} THEN n ELSE Min(Holding(p, n, c)) - p + 1
      PROVE  memccpy(mem, q, p, c, n) =
               [mem |-> Put(mem, q, Bytes(p, k)),
                ret |-> IF Holding(p, n, c) = {} THEN NULL ELSE q + k]
  <2>1. p \in Nat \ {0}
    BY <1>1 DEF Cells
  <2>2. /\ k \in 0 .. n
        /\ IF Holding(p, n, c) = {} THEN k = n ELSE k >= 1
        /\ \A i \in 1 .. k : mem[p + i - 1] = c <=> Holding(p, n, c) # {} /\ i = k
    BY <1>7, StopFacts
  <2>3. Room(q, k) /\ Room(p, k) /\ Apart(p, k, q, k)
    BY <1>1, <1>7, <2>1, <2>2 DEF Room, Apart
  <2>4. Put(mem, q, Bytes(p, k)) = Copied(mem, q, p, k)
    BY <1>3, <2>2, <2>3
  <2>5. /\ UpTo(mem, p, c, n, k)
        /\ (k >= 1 /\ mem[p + k - 1] = c) <=> Holding(p, n, c) # {}
    BY <2>2 DEF UpTo
  <2>6. memccpy(mem, q, p, c, n) = CopiedAnswer(mem, q, p, c, k)
    BY <1>1, <2>1, <2>2, <2>3, <2>5, MemccpyCopies
  <2> QED
    BY <2>4, <2>5, <2>6 DEF CopiedAnswer
<1> QED
  BY <1>2, <1>4, <1>5, <1>6, <1>7

----------------------------------------------------------------------------

Types == mem \in Memories /\ df \in {1, -1} /\ number \in DoubleWord

\* The memory keeps its type: this is all that the properties ask of a state.
LEMMA TypesInductive == Spec => []Types
<1>1. Init => Types
  <2> SUFFICES ASSUME Init
               PROVE  Types
    OBVIOUS
  <2>1. 0 \in DoubleWord
    BY DivisionAssumption, ProductFacts DEF DoubleWord
  <2>2. [a \in Cells |-> 0] \in Memories
    BY LibraryAssumption DEF Memories
  <2> QED
    BY <2>1, <2>2 DEF Init, Types, Memories
<1>2. Types /\ [Next]_vars => Types'
  <2> SUFFICES ASSUME Types, [Next]_vars
               PROVE  Types'
    OBVIOUS
  <2>1. CASE UNCHANGED vars
    BY <2>1 DEF Types, vars
  <2>2. ASSUME NEW q \in Cells, NEW n \in 0 .. CELLS, NEW p \in Cells, Memcpy(q, p, n)
        PROVE  Types'
    <3>1. q \in Nat \ {0} /\ p \in Nat \ {0} /\ n \in Nat
      BY LibraryAssumption DEF Cells
    <3>2. mem' = Copied(mem, q, p, n)
      BY <2>2, <3>1, MemcpyCopies DEF Memcpy, Types
    <3>3. mem' \in Memories
      BY <2>2, <3>1, <3>2, CopiedType DEF Memcpy, Types
    <3> QED
      BY <2>2, <3>3 DEF Memcpy, Types, cld
  <2>3. ASSUME NEW q \in Cells, NEW n \in 0 .. CELLS, NEW p \in Cells, Memmove(q, p, n)
        PROVE  Types'
    <3>1. q \in Nat \ {0} /\ p \in Nat \ {0} /\ n \in Nat
      BY LibraryAssumption DEF Cells
    <3>2. mem' = Copied(mem, q, p, n)
      BY <2>3, <3>1, MemmoveCopies DEF Memmove, Types
    <3>3. mem' \in Memories
      BY <2>3, <3>1, <3>2, CopiedType DEF Memmove, Types
    <3> QED
      BY <2>3, <3>3 DEF Memmove, Types, memmove_df
  <2>4. ASSUME NEW q \in Cells, NEW n \in 0 .. CELLS, NEW c \in Char, Memset(q, c, n)
        PROVE  Types'
    <3>1. q \in Nat \ {0} /\ n \in Nat
      BY LibraryAssumption DEF Cells
    <3>2. mem' \in Memories
      BY <2>4, <3>1, MemsetFills DEF Memset, Types
    <3> QED
      BY <2>4, <3>2 DEF Memset, Types, cld
  <2> QED
    BY <2>1, <2>2, <2>3, <2>4 DEF Next
<1> QED
  BY <1>1, <1>2, PTL DEF Spec

\* Copying, moving, filling and swapping blocks change the cells they should and no other, in
\* memories of any size and for movsl of any width, whatever an earlier call has left in the
\* direction flag (string.c:25-38, 102-188, 276-290).
THEOREM CopiesProved == Spec => []CopiesExact
<1>1. Types => CopiesExact
  BY CopiesAreExact DEF Types
<1> QED
  BY <1>1, TypesInductive, PTL

(* Searches.                                                               *)

\* To be the least...
LEMMA MinIs ==
  ASSUME NEW S \in SUBSET Nat, NEW e \in S, \A k \in S : e <= k
  PROVE  Min(S) = e /\ Least(S) = e
<1>1. Min(S) \in S /\ Min(S) <= e
  BY MinFacts
<1>2. Min(S) \in Nat /\ e \in Nat /\ e <= Min(S) /\ S # {}
  BY <1>1
<1>3. Min(S) = e
  BY <1>1, <1>2
<1> QED
  BY <1>2, <1>3 DEF Least

\* ... and the greatest of a set.
LEMMA MaxIs ==
  ASSUME NEW S \in SUBSET Nat, NEW e \in S, \A k \in S : k <= e
  PROVE  Max(S) = e /\ Greatest(S) = e
<1>1. Max(S) \in S /\ Max(S) >= e
  BY DEF Max
<1>2. Max(S) \in Nat /\ e \in Nat /\ Max(S) <= e /\ S # {}
  BY <1>1
<1>3. Max(S) = e
  BY <1>1, <1>2
<1> QED
  BY <1>2, <1>3 DEF Greatest

\* Up() ends at the first stop, or n places up.
LEMMA UpIs ==
  ASSUME NEW n \in Nat, NEW a \in Nat, NEW stops, NEW e \in a .. a + n,
         \A i \in a .. e - 1 : i \notin stops, e = a + n \/ e \in stops
  PROVE  Up(n, a, stops) = e
<1> DEFINE turn(j, p) == IF p \in stops THEN p ELSE p + 1
           E(h) == h = [j \in 0 .. n |-> IF j = 0 THEN a ELSE turn(j, h[j - 1])]
           f == CHOOSE h : E(h)
           g == [j \in 0 .. n |-> IF a + j < e THEN a + j ELSE e]
<1>1. Up(n, a, stops) = f[n]
  BY DEF Up, After
<1>2. g[0] = a
  OBVIOUS
<1>3. ASSUME NEW j \in 1 .. n
      PROVE  g[j] = turn(j, g[j - 1])
  <2>1. CASE a + j <= e
    <3>1. g[j - 1] = a + (j - 1) /\ g[j] = a + j /\ a + (j - 1) \in a .. e - 1
      BY <2>1
    <3> HIDE DEF g
    <3> QED
      BY <3>1
  <2>2. CASE ~(a + j <= e)
    <3>1. g[j - 1] = e /\ g[j] = e /\ e # a + n
      BY <2>2
    <3> HIDE DEF g
    <3> QED
      BY <3>1
  <2> QED
    BY <2>1, <2>2
<1>4. E(g)
  <2>1. g = [j \in 0 .. n |-> g[j]]
    OBVIOUS
  <2> HIDE DEF turn, g
  <2>2. \A j \in 0 .. n : g[j] = IF j = 0 THEN a ELSE turn(j, g[j - 1])
    BY <1>2, <1>3
  <2>3. g = [j \in 0 .. n |-> IF j = 0 THEN a ELSE turn(j, g[j - 1])]
    BY <2>1, <2>2
  <2> QED
    BY <2>3
<1>5. E(f)
  <2> HIDE DEF turn, g
  <2> QED
    BY <1>4
<1>6. f[0] = g[0] /\ \A j \in 1 .. n : f[j - 1] = g[j - 1] => f[j] = g[j]
  <2> HIDE DEF turn, g, f
  <2> QED
    BY <1>4, <1>5
<1>7. g[n] = e
  OBVIOUS
<1> HIDE DEF f, E, g
<1>8. f[n] = g[n]
  BY <1>6, SameLoop
<1> QED
  BY <1>1, <1>7, <1>8

\* Where a pointer that goes up ends.
LEMMA UpFacts ==
  ASSUME NEW n \in Nat, NEW a \in Nat, NEW stops
  PROVE  /\ Up(n, a, stops) \in a .. a + n
         /\ \A i \in a .. Up(n, a, stops) - 1 : i \notin stops
         /\ Up(n, a, stops) = a + n \/ Up(n, a, stops) \in stops
<1> DEFINE T == {i \in a .. a + n : i \in stops \/ i = a + n}
<1>1. T \in SUBSET Nat /\ a + n \in T
  OBVIOUS
<1>2. PICK e \in T : \A k \in T : e <= k
  <2> HIDE DEF T
  <2> QED
    BY <1>1, Smallest
<1>3. e \in a .. a + n /\ (e = a + n \/ e \in stops)
  OBVIOUS
<1>4. ASSUME NEW i \in a .. e - 1
      PROVE  i \notin stops
  <2>1. i \in a .. a + n /\ ~(e <= i)
    BY <1>3
  <2> QED
    BY <1>2, <2>1
<1>5. Up(n, a, stops) = e
  BY <1>3, <1>4, UpIs
<1> QED
  BY <1>3, <1>4, <1>5

\* The first and the last place of c among n cells.
LEMMA FirstPlace ==
  ASSUME mem \in Memories, NEW p \in Cells, NEW n \in 0 .. CELLS, NEW c, Room(p, n)
  PROVE  memchr(mem, p, c, n) = Least(Holding(p, n, c))
<1>1. CELLS \in Nat /\ p \in Nat \ {0} /\ n \in Nat
  BY LibraryAssumption DEF Cells
<1> DEFINE e == Up(n, p, At(mem, {c}))
<1>2. /\ e \in p .. p + n
      /\ \A i \in p .. e - 1 : i \notin At(mem, {c})
      /\ e = p + n \/ e \in At(mem, {c})
  BY <1>1, UpFacts
<1>3. memchr(mem, p, c, n) = IF e = p + n THEN NULL ELSE e
  BY DEF memchr
<1> HIDE DEF e
<1>4. \A i \in p .. p + n - 1 : i \in At(mem, {c}) <=> mem[i] = c
  <2>1. \A i \in p .. p + n - 1 : i \in DOMAIN mem
    BY <1>1 DEF Memories, Cells, Room
  <2> QED
    BY <2>1 DEF At
<1>5. Holding(p, n, c) \in SUBSET Nat
  BY <1>1 DEF Holding
<1>6. CASE e = p + n
  <2>1. Holding(p, n, c) = {}
    <3>1. \A i \in p .. p + n - 1 : mem[i] # c
      BY <1>1, <1>2, <1>4, <1>6
    <3> QED
      BY <3>1 DEF Holding
  <2> QED
    BY <1>3, <1>6, <2>1 DEF Least
<1>7. CASE e # p + n
  <2>1. e \in p .. p + n - 1
    BY <1>1, <1>2, <1>7
  <2>2. e \in Holding(p, n, c)
    BY <1>2, <1>4, <1>7, <2>1 DEF Holding
  <2>3. \A k \in Holding(p, n, c) : e <= k
    <3> SUFFICES ASSUME NEW k \in Holding(p, n, c), ~(e <= k)
                 PROVE  FALSE
      OBVIOUS
    <3>1. k \in p .. p + n - 1 /\ mem[k] = c
      BY DEF Holding
    <3>2. k \in p .. e - 1
      BY <1>1, <2>1, <3>1
    <3> QED
      BY <1>2, <1>4, <3>1, <3>2
  <2> QED
    BY <1>3, <1>5, <1>7, <2>2, <2>3, MinIs
<1> QED
  BY <1>6, <1>7

\* The last place of c among n cells, from the last among n - 1.
LEMMA GreatestStep ==
  ASSUME mem \in Memories, NEW p \in Cells, NEW n \in Nat \ {0}, NEW c
  PROVE  Greatest(Holding(p, n, c)) =
           IF mem[p + n - 1] = c THEN p + n - 1 ELSE Greatest(Holding(p, n - 1, c))
<1>1. p \in Nat \ {0}
  BY LibraryAssumption DEF Cells
<1>2. CASE mem[p + n - 1] = c
  <2>1. Holding(p, n, c) \in SUBSET Nat /\ p + n - 1 \in Holding(p, n, c)
    BY <1>1, <1>2 DEF Holding
  <2>2. \A k \in Holding(p, n, c) : k <= p + n - 1
    BY <1>1 DEF Holding
  <2> QED
    BY <1>2, <2>1, <2>2, MaxIs
<1>3. CASE mem[p + n - 1] # c
  <2>1. \A a \in p .. p + n - 1 : a = p + n - 1 \/ a \in p .. p + (n - 1) - 1
    BY <1>1
  <2>2. p .. p + (n - 1) - 1 \subseteq p .. p + n - 1
    BY <1>1
  <2>3. Holding(p, n, c) = Holding(p, n - 1, c)
    BY <1>3, <2>1, <2>2 DEF Holding
  <2> QED
    BY <1>3, <2>3
<1> QED
  BY <1>2, <1>3

\* Nothing is in no cell.
LEMMA NonePlace ==
  ASSUME NEW p \in Cells, NEW c
  PROVE  Greatest(Holding(p, 0, c)) = NULL
<1>1. p .. p + 0 - 1 = {}
  BY LibraryAssumption DEF Cells
<1> QED
  BY <1>1 DEF Holding, Greatest

\* memrchr() goes down from the last cell: what is above its pointer does not hold c.
LEMMA LastPlace ==
  ASSUME mem \in Memories, NEW p \in Cells, NEW n \in 0 .. CELLS, NEW c, Room(p, n)
  PROVE  memrchr(mem, p, c, n) = Greatest(Holding(p, n, c))
<1>0. CELLS \in Nat /\ p \in Nat \ {0} /\ n \in Nat
  BY LibraryAssumption DEF Cells
<1> DEFINE start == p + n - 1
           last == Greatest(Holding(p, n, c))
           end == IF last = NULL THEN p - 1 ELSE last
           turn(j, a) == IF mem[a] = c THEN a ELSE a - 1
           E(h) == h = [j \in 0 .. n |-> IF j = 0 THEN start ELSE turn(j, h[j - 1])]
           f == CHOOSE h : E(h)
           g == [j \in 0 .. n |-> IF p + n - 1 - j > end THEN p + n - 1 - j ELSE end]
<1>1. memrchr(mem, p, c, n) = IF f[n] = p - 1 THEN NULL ELSE f[n]
  BY DEF memrchr, After
<1>10. /\ end \in p - 1 .. p + n - 1
       /\ end # p - 1 => mem[end] = c
       /\ \A i \in end + 1 .. p + n - 1 : mem[i] # c
       /\ last = IF end = p - 1 THEN NULL ELSE end
  <2>1. Holding(p, n, c) \in SUBSET Nat
    BY <1>0 DEF Holding
  <2>2. CASE Holding(p, n, c) = {}
    <3>1. last = NULL /\ end = p - 1
      BY <2>2 DEF Greatest
    <3>2. \A i \in p .. p + n - 1 : mem[i] # c
      BY <2>2 DEF Holding
    <3> HIDE DEF last, end
    <3> QED
      BY <1>0, <3>1, <3>2
  <2>3. CASE Holding(p, n, c) # {}
    <3>1. PICK m \in Holding(p, n, c) : \A k \in Holding(p, n, c) : k <= m
      <4> DEFINE S == {p + n - 1 - k : k \in Holding(p, n, c)}
      <4>1. S \in SUBSET Nat /\ S # {}
        BY <1>0, <2>3 DEF Holding
      <4>2. PICK s \in S : \A k \in S : s <= k
        <5> HIDE DEF S
        <5> QED
          BY <4>1, Smallest
      <4>3. PICK m \in Holding(p, n, c) : s = p + n - 1 - m
        OBVIOUS
      <4>4. ASSUME NEW k \in Holding(p, n, c)
            PROVE  k <= m
        <5>1. p + n - 1 - k \in S /\ k \in Nat /\ m \in Nat
          BY <2>1
        <5>2. p + n - 1 - m <= p + n - 1 - k
          BY <4>2, <4>3, <5>1
        <5> QED
          BY <1>0, <5>1, <5>2
      <4> QED
        BY <4>4
    <3>2. last = m
      BY <2>1, <3>1, MaxIs
    <3>3. m \in p .. p + n - 1 /\ mem[m] = c
      BY DEF Holding
    <3>4. m # NULL
      BY <1>0, <3>3 DEF NULL
    <3>5. end = m
      BY <3>2, <3>4
    <3>6. ASSUME NEW i \in m + 1 .. p + n - 1
          PROVE  mem[i] # c
      <4>1. i \in p .. p + n - 1 /\ ~(i <= m)
        BY <1>0, <3>3
      <4> QED
        BY <3>1, <4>1 DEF Holding
    <3> HIDE DEF last, end
    <3> QED
      BY <1>0, <3>2, <3>3, <3>5, <3>6
  <2> QED
    BY <2>2, <2>3
<1> HIDE DEF end, last
<1>2. g[0] = start
  BY <1>0, <1>10
<1>3. ASSUME NEW j \in 1 .. n
      PROVE  g[j] = turn(j, g[j - 1])
  <2>1. CASE p + n - 1 - j >= end
    <3>1. g[j - 1] = p + n - 1 - (j - 1) /\ g[j] = p + n - 1 - j
      BY <1>0, <1>10, <2>1
    <3>2. p + n - 1 - (j - 1) \in end + 1 .. p + n - 1
      BY <1>0, <1>10, <2>1
    <3>3. mem[p + n - 1 - (j - 1)] # c
      BY <1>10, <3>2
    <3> HIDE DEF g
    <3> QED
      BY <1>0, <3>1, <3>3
  <2>2. CASE ~(p + n - 1 - j >= end)
    <3>1. g[j - 1] = end /\ g[j] = end /\ end # p - 1
      BY <1>0, <1>10, <2>2
    <3> HIDE DEF g
    <3> QED
      BY <1>10, <3>1
  <2> QED
    BY <2>1, <2>2
<1>4. E(g)
  <2>1. g = [j \in 0 .. n |-> g[j]]
    OBVIOUS
  <2> HIDE DEF turn, start, g
  <2>2. \A j \in 0 .. n : g[j] = IF j = 0 THEN start ELSE turn(j, g[j - 1])
    BY <1>2, <1>3
  <2>3. g = [j \in 0 .. n |-> IF j = 0 THEN start ELSE turn(j, g[j - 1])]
    BY <2>1, <2>2
  <2> QED
    BY <2>3
<1>5. E(f)
  <2> HIDE DEF turn, g
  <2> QED
    BY <1>4
<1>6. f[0] = g[0] /\ \A j \in 1 .. n : f[j - 1] = g[j - 1] => f[j] = g[j]
  <2> HIDE DEF turn, g, f
  <2> QED
    BY <1>4, <1>5
<1>7. g[n] = end
  BY <1>0, <1>10
<1> HIDE DEF f, E, g
<1>8. f[n] = g[n]
  BY <1>0, <1>6, SameLoop
<1> QED
  BY <1>1, <1>7, <1>8, <1>10 DEF last

\* Where two sequences first differ.
LEMMA DifferenceAt ==
  ASSUME NEW s, NEW t, DOMAIN s \cap DOMAIN t \in SUBSET Nat, NEW i \in DOMAIN s \cap DOMAIN t,
         s[i] # t[i], \A k \in DOMAIN s \cap DOMAIN t : k < i => s[k] = t[k]
  PROVE  Difference(s, t) = s[i] - t[i]
<1> DEFINE apart == {k \in DOMAIN s \cap DOMAIN t : s[k] # t[k]}
<1>1. apart \in SUBSET Nat /\ i \in apart /\ apart # {}
  OBVIOUS
<1>2. \A k \in apart : i <= k
  BY <1>1
<1>3. Difference(s, t) = s[Min(apart)] - t[Min(apart)]
  BY <1>1 DEF Difference
<1> HIDE DEF apart
<1>4. Min(apart) = i
  BY <1>1, <1>2, MinIs
<1> QED
  BY <1>3, <1>4

\* Sequences that agree do not differ.
LEMMA NoDifference ==
  ASSUME NEW s, NEW t, \A k \in DOMAIN s \cap DOMAIN t : s[k] = t[k]
  PROVE  Difference(s, t) = 0
BY DEF Difference

\* memcmp() (string.c:83-95).
LEMMA MemcmpFacts ==
  ASSUME mem \in Memories, NEW p \in Nat \ {0}, NEW q \in Nat \ {0}, NEW n \in Nat,
         Room(p, n), Room(q, n)
  PROVE  /\ memcmp(mem, p, q, n) = Difference(Bytes(p, n), Bytes(q, n))
         /\ memcmp(mem, p, q, n) = 0 <=> \A k \in 0 .. n - 1 : mem[p + k] = mem[q + k]
<1>1. CELLS \in Nat /\ Char \subseteq Nat
  BY LibraryAssumption
<1> DEFINE D == {k \in 0 .. n - 1 : mem[p + k] # mem[q + k]}
           i == Up(n, 0, D)
           s == Bytes(p, n)
           t == Bytes(q, n)
<1>2. i \in 0 .. n /\ (\A k \in 0 .. i - 1 : k \notin D) /\ (i = n \/ i \in D)
  <2>1. 0 + n = n
    OBVIOUS
  <2> HIDE DEF D
  <2> QED
    BY <2>1, UpFacts
<1>3. memcmp(mem, p, q, n) = IF i = n THEN 0 ELSE mem[p + i] - mem[q + i]
  BY DEF memcmp
<1>4. /\ DOMAIN s = 1 .. n /\ DOMAIN t = 1 .. n
      /\ \A k \in 1 .. n : s[k] = mem[p + k - 1] /\ t[k] = mem[q + k - 1]
  <2>1. /\ s \in Seq(Char) /\ Len(s) = n /\ \A k \in 1 .. n : s[k] = mem[p + k - 1]
    BY SliceFacts DEF Bytes
  <2>2. /\ t \in Seq(Char) /\ Len(t) = n /\ \A k \in 1 .. n : t[k] = mem[q + k - 1]
    BY SliceFacts DEF Bytes
  <2> QED
    BY <2>1, <2>2, LenProperties
<1> HIDE DEF s, t, i
<1>5. CASE i = n
  <2>1. \A k \in 0 .. n - 1 : mem[p + k] = mem[q + k]
    BY <1>2, <1>5
  <2>2. \A k \in 1 .. n : s[k] = t[k]
    <3>1. ASSUME NEW k \in 1 .. n
          PROVE  s[k] = t[k]
      <4>1. k - 1 \in 0 .. n - 1 /\ p + (k - 1) = p + k - 1 /\ q + (k - 1) = q + k - 1
        OBVIOUS
      <4> QED
        BY <1>4, <2>1, <4>1
    <3> QED
      BY <3>1
  <2>3. Difference(s, t) = 0
    BY <1>4, <2>2, NoDifference
  <2> QED
    BY <1>3, <1>5, <2>1, <2>3 DEF s, t
<1>6. CASE i # n
  <2>1. i \in 0 .. n - 1 /\ mem[p + i] # mem[q + i] /\ \A k \in 0 .. i - 1 : mem[p + k] = mem[q + k]
    BY <1>2, <1>6
  <2>2. i + 1 \in 1 .. n /\ p + (i + 1) - 1 = p + i /\ q + (i + 1) - 1 = q + i
    BY <2>1
  <2>3. s[i + 1] = mem[p + i] /\ t[i + 1] = mem[q + i]
    BY <1>4, <2>2
  <2>4. \A k \in 1 .. n : k < i + 1 => s[k] = t[k]
    <3>1. ASSUME NEW k \in 1 .. n, k < i + 1
          PROVE  s[k] = t[k]
      <4>1. k - 1 \in 0 .. i - 1 /\ p + (k - 1) = p + k - 1 /\ q + (k - 1) = q + k - 1
        BY <2>1, <3>1
      <4> QED
        BY <1>4, <2>1, <4>1
    <3> QED
      BY <3>1
  <2>5. Difference(s, t) = s[i + 1] - t[i + 1]
    BY <1>4, <2>1, <2>2, <2>3, <2>4, DifferenceAt
  <2>6. mem[p + i] \in Nat /\ mem[q + i] \in Nat
    <3>1. p + i \in Cells /\ q + i \in Cells
      BY <1>1, <2>1 DEF Cells, Room
    <3> QED
      BY <1>1, <3>1 DEF Memories
  <2>7. mem[p + i] - mem[q + i] # 0
    BY <2>1, <2>6
  <2> QED
    BY <1>3, <1>6, <2>1, <2>3, <2>5, <2>7 DEF s, t
<1> QED
  BY <1>5, <1>6

\* g is what a loop goes through in n turns from s, when its turns are functions F of S.
IsRun(g, n, S, s, F) ==
  g \in [0 .. n -> S] /\ g[0] = s /\ \A j \in 1 .. n : g[j] = F[j][g[j - 1]]

\* Such a loop has a value at every turn.
LEMMA LoopExists ==
  ASSUME NEW n \in Nat, NEW S, NEW s \in S, NEW F \in [1 .. n -> [S -> S]]
  PROVE  \E g : IsRun(g, n, S, s, F)
<1> DEFINE Good(m, g) == g \in [0 .. m -> S] /\ g[0] = s /\ \A j \in 1 .. m : g[j] = F[j][g[j - 1]]
           T == {m \in 0 .. n : \E g \in [0 .. m -> S] : Good(m, g)}
<1>1. 0 \in T
  <2> DEFINE g == [j \in {0} |-> s]
  <2>1. g \in [0 .. 0 -> S] /\ Good(0, g)
    OBVIOUS
  <2> HIDE DEF g, Good
  <2> QED
    BY <2>1
<1>2. ASSUME NEW m \in 0 .. n - 1, m \in T
      PROVE  m + 1 \in T
  <2>1. PICK g \in [0 .. m -> S] : Good(m, g)
    BY <1>2
  <2> DEFINE h == [j \in 0 .. m + 1 |-> IF j = m + 1 THEN F[j][g[m]] ELSE g[j]]
  <2>2. F[m + 1][g[m]] \in S
    <3>1. m + 1 \in 1 .. n /\ g[m] \in S
      OBVIOUS
    <3> QED
      BY <3>1
  <2>3. h \in [0 .. m + 1 -> S]
    BY <2>2
  <2>4. h[0] = s
    BY <2>1
  <2>5. ASSUME NEW j \in 1 .. m + 1
        PROVE  h[j] = F[j][h[j - 1]]
    <3>1. CASE j = m + 1
      <4>1. h[j] = F[j][g[m]] /\ h[j - 1] = g[m]
        BY <3>1
      <4> HIDE DEF h
      <4> QED
        BY <4>1
    <3>2. CASE j # m + 1
      <4>1. j \in 1 .. m /\ j - 1 \in 0 .. m /\ h[j] = g[j] /\ h[j - 1] = g[j - 1]
        BY <3>2
      <4> HIDE DEF h
      <4> QED
        BY <2>1, <4>1
    <3> QED
      BY <3>1, <3>2
  <2>6. Good(m + 1, h)
    <3> HIDE DEF h
    <3> QED
      BY <2>3, <2>4, <2>5
  <2> HIDE DEF h, Good
  <2> QED
    BY <2>3, <2>6
<1>3. \A j \in 0 .. n - 1 : j \in T => j + 1 \in T
  BY <1>2
<1> HIDE DEF T
<1>4. \A j \in 0 .. n : j \in T
  BY <1>1, <1>3, TurnInduction
<1>5. n \in T
  BY <1>4
<1> QED
  BY <1>5 DEF T, IsRun

\* The l cells at a hold what those at q do.
Match(a, q, l) == \A k \in 0 .. l - 1 : mem[a + k] = mem[q + k]

\* A match is where the bytes are the same.
LEMMA MatchFacts ==
  ASSUME mem \in Memories, NEW a \in Nat \ {0}, NEW q \in Nat \ {0}, NEW l \in Nat,
         Room(a, l), Room(q, l)
  PROVE  Bytes(a, l) = Bytes(q, l) <=> Match(a, q, l)
<1> DEFINE s == Bytes(a, l)
           t == Bytes(q, l)
<1>1. s \in Seq(Char) /\ Len(s) = l /\ \A k \in 1 .. l : s[k] = mem[a + k - 1]
  BY SliceFacts DEF Bytes
<1>2. t \in Seq(Char) /\ Len(t) = l /\ \A k \in 1 .. l : t[k] = mem[q + k - 1]
  BY SliceFacts DEF Bytes
<1> HIDE DEF s, t
<1>3. ASSUME s = t
      PROVE  Match(a, q, l)
  <2>1. ASSUME NEW k \in 0 .. l - 1
        PROVE  mem[a + k] = mem[q + k]
    <3>1. k + 1 \in 1 .. l /\ a + (k + 1) - 1 = a + k /\ q + (k + 1) - 1 = q + k
      OBVIOUS
    <3>2. s[k + 1] = mem[a + k] /\ t[k + 1] = mem[q + k]
      BY <1>1, <1>2, <3>1
    <3> QED
      BY <1>3, <3>2
  <2> QED
    BY <2>1 DEF Match
<1>4. ASSUME Match(a, q, l)
      PROVE  s = t
  <2>1. ASSUME NEW k \in 1 .. l
        PROVE  s[k] = t[k]
    <3>1. k - 1 \in 0 .. l - 1 /\ a + (k - 1) = a + k - 1 /\ q + (k - 1) = q + k - 1
      OBVIOUS
    <3>2. mem[a + (k - 1)] = mem[q + (k - 1)]
      BY <1>4, <3>1 DEF Match
    <3> QED
      BY <1>1, <1>2, <3>1, <3>2
  <2> QED
    BY <1>1, <1>2, <2>1, SeqEqual
<1> QED
  BY <1>3, <1>4 DEF s, t

\* memmem() looks no further than the first match, and skips none.
LEMMA OffsetFacts ==
  ASSUME mem \in Memories, NEW p \in Nat \ {0}, NEW q \in Nat \ {0}, NEW n \in Nat, NEW l \in Nat,
         2 <= l, l <= n, Room(p, n), Room(q, l)
  PROVE  LET j == memmem_offset(mem, p, n, q, l)
         IN  /\ j \in Nat
             /\ \A k \in 0 .. n - l : k < j => ~Match(p + k, q, l)
             /\ j <= n - l => Match(p + j, q, l)
<1> DEFINE second(j) == mem[q + 1] = mem[p + j + 1]
           found(j)  == second(j) /\ memcmp(mem, q + 2, p + j + 2, l - 2) = 0 /\ mem[q] = mem[p + j]
           skip(j) == memmem_skip(mem, q)[IF second(j) THEN 2 ELSE 1]
           turn(i, j) == IF j > n - l \/ found(j) THEN j ELSE j + skip(j)
           E(h) == h = [i \in 0 .. n |-> IF i = 0 THEN 0 ELSE turn(i, h[i - 1])]
           f == CHOOSE h : E(h)
<1>1. memmem_offset(mem, p, n, q, l) = f[n]
  BY DEF memmem_offset, After
<1>2. \A j : skip(j) \in {1, 2}
  BY DEF memmem_skip
<1>3. ASSUME NEW j \in 0 .. n - l
      PROVE  found(j) <=> Match(p + j, q, l)
  <2>1. /\ l - 2 \in Nat /\ q + 2 \in Nat \ {0} /\ p + j + 2 \in Nat \ {0}
        /\ Room(q + 2, l - 2) /\ Room(p + j + 2, l - 2)
    BY LibraryAssumption DEF Room
  <2>2. memcmp(mem, q + 2, p + j + 2, l - 2) = 0
          <=> \A k \in 0 .. l - 2 - 1 : mem[q + 2 + k] = mem[p + j + 2 + k]
    BY <2>1, MemcmpFacts
  <2>3. ASSUME found(j)
        PROVE  Match(p + j, q, l)
    <3>1. ASSUME NEW k \in 0 .. l - 1
          PROVE  mem[p + j + k] = mem[q + k]
      <4>1. CASE k = 0
        BY <2>3, <4>1
      <4>2. CASE k = 1
        BY <2>3, <4>2
      <4>3. CASE k >= 2
        <5>1. k - 2 \in 0 .. l - 2 - 1 /\ q + 2 + (k - 2) = q + k /\ p + j + 2 + (k - 2) = p + j + k
          BY <4>3
        <5>2. mem[q + 2 + (k - 2)] = mem[p + j + 2 + (k - 2)]
          BY <2>2, <2>3, <5>1
        <5> QED
          BY <5>1, <5>2
      <4> QED
        BY <4>1, <4>2, <4>3
    <3> QED
      BY <3>1 DEF Match
  <2>4. ASSUME Match(p + j, q, l)
        PROVE  found(j)
    <3>1. mem[q] = mem[p + j]
      <4>1. 0 \in 0 .. l - 1 /\ p + j + 0 = p + j /\ q + 0 = q
        OBVIOUS
      <4> QED
        BY <2>4, <4>1 DEF Match
    <3>2. second(j)
      <4>1. 1 \in 0 .. l - 1
        OBVIOUS
      <4> QED
        BY <2>4, <4>1 DEF Match
    <3>3. ASSUME NEW k \in 0 .. l - 2 - 1
          PROVE  mem[q + 2 + k] = mem[p + j + 2 + k]
      <4>1. k + 2 \in 0 .. l - 1 /\ q + 2 + k = q + (k + 2) /\ p + j + 2 + k = p + j + (k + 2)
        OBVIOUS
      <4> QED
        BY <2>4, <4>1 DEF Match
    <3> QED
      BY <2>2, <3>1, <3>2, <3>3
  <2> QED
    BY <2>3, <2>4
<1>4. ASSUME NEW j \in 0 .. n - l, ~found(j), skip(j) = 2, j + 1 <= n - l
      PROVE  ~Match(p + (j + 1), q, l)
  <2>1. 0 \in 0 .. l - 1 /\ p + (j + 1) + 0 = p + j + 1 /\ q + 0 = q
    OBVIOUS
  <2>2. mem[q] = mem[q + 1] => ~second(j)
    BY <1>4 DEF memmem_skip
  <2>3. mem[q] # mem[q + 1] => second(j)
    BY <1>4 DEF memmem_skip
  <2>4. mem[p + j + 1] # mem[q]
    BY <2>2, <2>3
  <2> QED
    BY <2>1, <2>4 DEF Match
<1> DEFINE F == [i \in 1 .. n |-> [j \in Nat |-> turn(i, j)]]
<1>5. E(f)
  <2>1. F \in [1 .. n -> [Nat -> Nat]]
    <3>1. ASSUME NEW i \in 1 .. n
          PROVE  [j \in Nat |-> turn(i, j)] \in [Nat -> Nat]
      <4> HIDE DEF skip, found
      <4>1. \A j \in Nat : turn(i, j) \in Nat
        BY <1>2
      <4> HIDE DEF turn
      <4> QED
        BY <4>1
    <3> HIDE DEF turn
    <3> QED
      BY <3>1
  <2>2. PICK g : IsRun(g, n, Nat, 0, F)
    <3>1. 0 \in Nat
      OBVIOUS
    <3> HIDE DEF F
    <3> QED
      BY <2>1, <3>1, LoopExists
  <2> HIDE DEF turn
  <2>3. \A i \in 1 .. n : g[i] = turn(i, g[i - 1])
    <3>1. \A i \in 1 .. n : g[i - 1] \in Nat
      BY <2>2 DEF IsRun
    <3> QED
      BY <2>2, <3>1 DEF IsRun
  <2>4. g = [i \in 0 .. n |-> IF i = 0 THEN 0 ELSE turn(i, g[i - 1])]
    BY <2>2, <2>3 DEF IsRun
  <2>5. E(g)
    BY <2>4
  <2> HIDE DEF E
  <2> QED
    BY <2>5
<1>6. f[0] = 0 /\ \A i \in 1 .. n : f[i] = turn(i, f[i - 1])
  <2> HIDE DEF turn, f
  <2> QED
    BY <1>5
<1> HIDE DEF f, E
<1> DEFINE T == {i \in 0 .. n : /\ f[i] \in Nat
                                /\ \A k \in 0 .. n - l : k < f[i] => ~Match(p + k, q, l)
                                /\ f[i] >= i \/ f[i] > n - l \/ Match(p + f[i], q, l)}
<1>7. 0 \in T
  BY <1>6
<1>8. ASSUME NEW i \in 0 .. n - 1, i \in T
      PROVE  i + 1 \in T
  <2> DEFINE j == f[i]
  <2>1. /\ j \in Nat
        /\ \A k \in 0 .. n - l : k < j => ~Match(p + k, q, l)
        /\ j >= i \/ j > n - l \/ Match(p + j, q, l)
    BY <1>8
  <2>2. f[i + 1] = turn(i + 1, j)
    <3>1. i + 1 \in 1 .. n /\ i + 1 - 1 = i
      OBVIOUS
    <3> HIDE DEF turn
    <3> QED
      BY <1>6, <3>1
  <2> HIDE DEF j, found, skip
  <2>3. CASE j > n - l
    <3>1. f[i + 1] = j
      BY <2>2, <2>3
    <3> QED
      BY <2>1, <2>3, <3>1
  <2>4. CASE j <= n - l /\ found(j)
    <3>1. f[i + 1] = j /\ Match(p + j, q, l)
      BY <1>3, <2>1, <2>2, <2>4
    <3> QED
      BY <2>1, <2>4, <3>1
  <2>5. CASE j <= n - l /\ ~found(j)
    <3>1. f[i + 1] = j + skip(j) /\ skip(j) \in {1, 2}
      BY <1>2, <2>1, <2>2, <2>5
    <3>2. j \in 0 .. n - l /\ ~Match(p + j, q, l)
      BY <1>3, <2>1, <2>5
    <3>3. ASSUME NEW k \in 0 .. n - l, k < j + skip(j)
          PROVE  ~Match(p + k, q, l)
      <4>1. CASE k < j
        BY <2>1, <4>1
      <4>2. CASE k = j
        BY <3>2, <4>2
      <4>3. CASE k > j
        <5>1. skip(j) = 2 /\ k = j + 1 /\ j + 1 <= n - l
          BY <2>1, <3>1, <3>3, <4>3
        <5> QED
          BY <1>4, <2>5, <3>2, <5>1
      <4> QED
        BY <2>1, <4>1, <4>2, <4>3
    <3>4. j + skip(j) \in Nat /\ j + skip(j) >= i + 1
      BY <2>1, <3>1, <3>2
    <3> QED
      BY <3>1, <3>3, <3>4
  <2> QED
    BY <2>1, <2>3, <2>4, <2>5
<1>9. \A i \in 0 .. n : i \in T
  <2> HIDE DEF T
  <2> QED
    BY <1>7, <1>8, TurnInduction
<1>10. n \in T
  BY <1>9
<1>11. f[n] <= n - l => Match(p + f[n], q, l)
  BY <1>10
<1> QED
  BY <1>1, <1>10, <1>11

\* The places of a needle are its matches.
LEMMA PlacesFacts ==
  ASSUME mem \in Memories, NEW p \in Nat \ {0}, NEW n \in Nat, NEW t \in Seq(Char), NEW q \in Nat \ {0},
         NEW l \in Nat, Room(p, n), Room(q, l), t = Bytes(q, l)
  PROVE  Places(p, n, t) = {a \in p .. p + n - l : Match(a, q, l)}
<1>1. Len(t) = l
  BY SliceFacts DEF Bytes
<1>2. ASSUME NEW a \in p .. p + n - l
      PROVE  Bytes(a, l) = t <=> Match(a, q, l)
  <2>1. a \in Nat \ {0} /\ Room(a, l)
    BY LibraryAssumption DEF Room
  <2> QED
    BY <2>1, MatchFacts
<1> QED
  BY <1>1, <1>2 DEF Places

\* memmem() (string.c:228-266).
LEMMA MemmemFinds ==
  ASSUME mem \in Memories, NEW p \in Cells, NEW q \in Cells, NEW n \in 0 .. CELLS, NEW l \in 1 .. CELLS,
         Room(p, n), Room(q, l)
  PROVE  memmem(mem, p, n, q, l) = Least(Places(p, n, Bytes(q, l)))
<1>1. CELLS \in Nat /\ p \in Nat \ {0} /\ q \in Nat \ {0} /\ n \in Nat /\ l \in Nat
  BY LibraryAssumption DEF Cells
<1>2. Places(p, n, Bytes(q, l)) = {a \in p .. p + n - l : Match(a, q, l)}
  <2>1. Bytes(q, l) \in Seq(Char)
    BY <1>1, SliceFacts DEF Bytes
  <2> QED
    BY <1>1, <2>1, PlacesFacts
<1>3. CASE l > n
  <2>1. p .. p + n - l = {}
    BY <1>1, <1>3
  <2>2. Places(p, n, Bytes(q, l)) = {}
    BY <1>2, <2>1
  <2> QED
    BY <1>3, <2>2 DEF memmem, Least
<1>4. CASE l = 1 /\ l <= n
  <2>1. memmem(mem, p, n, q, l) = memchr(mem, p, mem[q], n)
    <3>1. ~(l > n \/ l = 0 \/ n = 0) /\ n > 0
      BY <1>1, <1>4
    <3> QED
      BY <1>4, <3>1 DEF memmem
  <2>2. memchr(mem, p, mem[q], n) = Least(Holding(p, n, mem[q]))
    BY FirstPlace
  <2>3. ASSUME NEW a \in p .. p + n - 1
        PROVE  Match(a, q, l) <=> mem[a] = mem[q]
    <3>1. 0 .. l - 1 = {0} /\ a + 0 = a /\ q + 0 = q
      BY <1>1, <1>4
    <3> QED
      BY <3>1 DEF Match
  <2>4. Holding(p, n, mem[q]) = Places(p, n, Bytes(q, l))
    BY <1>2, <1>4, <2>3 DEF Holding
  <2> QED
    BY <2>1, <2>2, <2>4
<1>5. CASE l > 1 /\ l <= n
  <2> DEFINE j == memmem_offset(mem, p, n, q, l)
  <2>1. memmem(mem, p, n, q, l) = IF j > n - l THEN NULL ELSE p + j
    <3>1. ~(l > n \/ l = 0 \/ n = 0) /\ l # 1
      BY <1>1, <1>5
    <3> QED
      BY <1>5, <3>1 DEF memmem
  <2>2. /\ j \in Nat
        /\ \A k \in 0 .. n - l : k < j => ~Match(p + k, q, l)
        /\ j <= n - l => Match(p + j, q, l)
    BY <1>1, <1>5, OffsetFacts
  <2> HIDE DEF j
  <2>3. ASSUME NEW a \in p .. p + n - l, a < p + j
        PROVE  ~Match(a, q, l)
    <3>1. a - p \in 0 .. n - l /\ a - p < j /\ p + (a - p) = a
      BY <1>1, <2>2, <2>3
    <3> QED
      BY <2>2, <3>1
  <2>4. Places(p, n, Bytes(q, l)) \in SUBSET Nat
    BY <1>1, <1>2
  <2>5. CASE j > n - l
    <3>1. \A a \in p .. p + n - l : a < p + j
      BY <1>1, <2>2, <2>5
    <3>2. Places(p, n, Bytes(q, l)) = {}
      BY <1>2, <2>3, <3>1
    <3> QED
      BY <2>1, <2>5, <3>2 DEF Least
  <2>6. CASE ~(j > n - l)
    <3>1. p + j \in p .. p + n - l /\ Match(p + j, q, l)
      BY <1>1, <2>2, <2>6
    <3>2. p + j \in Places(p, n, Bytes(q, l))
      BY <1>2, <3>1
    <3>3. ASSUME NEW a \in Places(p, n, Bytes(q, l))
          PROVE  p + j <= a
      <4>1. a \in p .. p + n - l /\ Match(a, q, l)
        BY <1>2
      <4> QED
        BY <1>1, <2>2, <2>3, <4>1
    <3>4. Least(Places(p, n, Bytes(q, l))) = p + j
      BY <2>4, <3>2, <3>3, MinIs
    <3> QED
      BY <2>1, <2>6, <3>4
  <2> QED
    BY <2>5, <2>6
<1> QED
  BY <1>1, <1>3, <1>4, <1>5

----------------------------------------------------------------------------
(* Strings.                                                                *)

\* The text of a string ends before its first '\0'.
LEMMA TextFacts ==
  ASSUME mem \in Memories, NEW p \in Str
  PROVE  /\ p \in Nat \ {0} /\ p \in Cells
         /\ Size(p) \in 1 .. CELLS /\ Room(p, Size(p))
         /\ mem[p + Size(p) - 1] = 0
         /\ \A i \in p .. p + Size(p) - 2 : mem[i] # 0
         /\ Text(p) \in Seq(Char) /\ Len(Text(p)) = Size(p) - 1
         /\ \A i \in 1 .. Size(p) - 1 : Text(p)[i] = mem[p + i - 1] /\ Text(p)[i] # 0
         /\ Whole(p) \in Seq(Char) /\ Len(Whole(p)) = Size(p)
         /\ \A i \in 1 .. Size(p) : Whole(p)[i] = mem[p + i - 1]
<1>1. CELLS \in Nat /\ p \in Cells /\ p \in Nat \ {0} /\ p <= CELLS
  BY LibraryAssumption DEF Str, Cells
<1> DEFINE Z == {a \in p .. CELLS : mem[a] = 0}
           z == Min(Z)
           n == Size(p)
<1>2. z \in Z /\ \A a \in Z : z <= a
  <2>1. Z \in SUBSET Nat /\ Z # {}
    BY <1>1 DEF Str
  <2> HIDE DEF Z
  <2> QED
    BY <2>1, MinFacts
<1>3. n = z - p + 1
  BY DEF Size
<1> HIDE DEF z, n
<1>4. z \in p .. CELLS /\ mem[z] = 0 /\ \A a \in p .. CELLS : mem[a] = 0 => z <= a
  BY <1>2
<1>5. n \in 1 .. CELLS /\ Room(p, n) /\ p + n - 1 = z /\ n - 1 \in Nat /\ Room(p, n - 1)
  BY <1>1, <1>3, <1>4 DEF Room
<1>6. ASSUME NEW i \in p .. p + n - 2
      PROVE  mem[i] # 0
  <2>1. i \in p .. CELLS /\ ~(z <= i)
    BY <1>1, <1>3, <1>4
  <2> QED
    BY <1>4, <2>1
<1>7. /\ Text(p) \in Seq(Char) /\ Len(Text(p)) = n - 1
      /\ \A i \in 1 .. n - 1 : Text(p)[i] = mem[p + i - 1]
  <2>1. Text(p) = SubSeq(mem, p, p + (n - 1) - 1)
    BY DEF Text, Bytes, n
  <2> QED
    BY <1>1, <1>5, <2>1, SliceFacts
<1>8. /\ Whole(p) \in Seq(Char) /\ Len(Whole(p)) = n
      /\ \A i \in 1 .. n : Whole(p)[i] = mem[p + i - 1]
  <2>1. Whole(p) = SubSeq(mem, p, p + n - 1)
    BY DEF Whole, Bytes, n
  <2> QED
    BY <1>1, <1>5, <2>1, SliceFacts
<1>9. ASSUME NEW i \in 1 .. n - 1
      PROVE  Text(p)[i] # 0
  <2>1. p + i - 1 \in p .. p + n - 2
    BY <1>1, <1>5
  <2> QED
    BY <1>6, <1>7, <2>1
<1> QED
  BY <1>1, <1>4, <1>5, <1>6, <1>7, <1>8, <1>9 DEF n

\* A loop over the memory makes a turn for each cell.
LEMMA TurnsFacts ==
  ASSUME NEW m \in Memories
  PROVE  Turns(m) = CELLS /\ DOMAIN m = Cells
<1>1. DOMAIN m = 1 .. CELLS /\ DOMAIN m = Cells /\ CELLS \in Nat
  BY LibraryAssumption DEF Memories, Cells
<1>2. Cardinality(1 .. CELLS) = CELLS
  <2>1. 1 \in Int /\ CELLS \in Int
    BY <1>1
  <2>2. Cardinality(1 .. CELLS) = IF 1 > CELLS THEN 0 ELSE CELLS - 1 + 1
    BY <2>1, FS_Interval
  <2> QED
    BY <1>1, <2>2
<1> QED
  BY <1>1, <1>2 DEF Turns

\* The lesser of two numbers.
LEMMA MinOfTwo ==
  ASSUME NEW a \in Nat, NEW b \in Nat
  PROVE  Min({a, b}) = IF a <= b THEN a ELSE b
<1>1. {a, b} \in SUBSET Nat
  OBVIOUS
<1>2. CASE a <= b
  <2>1. a \in {a, b} /\ \A k \in {a, b} : a <= k
    BY <1>2
  <2> QED
    BY <1>1, <1>2, <2>1, MinIs
<1>3. CASE ~(a <= b)
  <2>1. b \in {a, b} /\ \A k \in {a, b} : b <= k
    BY <1>3
  <2> QED
    BY <1>1, <1>3, <2>1, MinIs
<1> QED
  BY <1>2, <1>3

\* strlen() and strnlen() (string.c:393-417).
LEMMA LengthFacts ==
  ASSUME mem \in Memories, NEW p \in Str
  PROVE  /\ strlen(mem, p) = Len(Text(p))
         /\ \A n \in Nat : strnlen(mem, p, n) = IF n <= Len(Text(p)) THEN n ELSE Len(Text(p))
<1> DEFINE z == p + Size(p) - 1
<1>1. /\ p \in Nat \ {0} /\ z \in p .. CELLS /\ CELLS \in Nat
      /\ Len(Text(p)) = z - p
      /\ z \in At(mem, {0})
      /\ \A i \in p .. z - 1 : i \notin At(mem, {0})
  <2>1. /\ p \in Nat \ {0} /\ Size(p) \in 1 .. CELLS /\ Room(p, Size(p)) /\ mem[z] = 0
        /\ \A i \in p .. p + Size(p) - 2 : mem[i] # 0
        /\ Len(Text(p)) = Size(p) - 1 /\ CELLS \in Nat
    BY TextFacts, LibraryAssumption
  <2>2. z \in p .. CELLS /\ z \in Cells
    BY <2>1 DEF Room, Cells
  <2>3. \A i \in p .. z - 1 : mem[i] # 0
    BY <2>1
  <2>4. DOMAIN mem = Cells
    BY TurnsFacts
  <2> QED
    BY <2>1, <2>2, <2>3, <2>4 DEF At
<1> HIDE DEF z
<1>2. strlen(mem, p) = z - p
  <2>1. Turns(mem) = CELLS
    BY TurnsFacts
  <2>2. z \in p .. p + CELLS
    BY <1>1
  <2>3. Up(CELLS, p, At(mem, {0})) = z
    BY <1>1, <2>2, UpIs
  <2> QED
    BY <2>1, <2>3 DEF strlen
<1>3. ASSUME NEW n \in Nat
      PROVE  strnlen(mem, p, n) = IF n <= z - p THEN n ELSE z - p
  <2>1. CASE n <= z - p
    <3>1. p + n \in p .. p + n /\ \A i \in p .. p + n - 1 : i \in p .. z - 1
      BY <1>1, <2>1
    <3>2. Up(n, p, At(mem, {0})) = p + n
      BY <1>1, <3>1, UpIs
    <3> QED
      BY <1>1, <2>1, <3>2 DEF strnlen
  <2>2. CASE ~(n <= z - p)
    <3>1. z \in p .. p + n
      BY <1>1, <2>2
    <3>2. Up(n, p, At(mem, {0})) = z
      BY <1>1, <3>1, UpIs
    <3> QED
      BY <2>2, <3>2 DEF strnlen
  <2> QED
    BY <2>1, <2>2
<1> QED
  BY <1>1, <1>2, <1>3

\* strchr() (string.c:308-317).
LEMMA FirstInString ==
  ASSUME mem \in Memories, NEW p \in Str, NEW c \in Char
  PROVE  strchr(mem, p, c) = Least(Holding(p, Size(p), c))
<1> DEFINE z == p + Size(p) - 1
           e == Up(CELLS, p, At(mem, {0, c}))
           H == Holding(p, Size(p), c)
<1>1. /\ p \in Nat \ {0} /\ Size(p) \in 1 .. CELLS /\ z \in p .. CELLS /\ CELLS \in Nat
      /\ mem[z] = 0 /\ \A i \in p .. z - 1 : mem[i] # 0
  <2>1. /\ p \in Nat \ {0} /\ Size(p) \in 1 .. CELLS /\ Room(p, Size(p)) /\ mem[z] = 0
        /\ \A i \in p .. p + Size(p) - 2 : mem[i] # 0
        /\ CELLS \in Nat
    BY TextFacts, LibraryAssumption
  <2>2. p + Size(p) - 2 = z - 1 /\ z \in p .. CELLS
    BY <2>1 DEF Room
  <2> QED
    BY <2>1, <2>2
<1>2. H = {a \in p .. z : mem[a] = c}
  BY DEF Holding
<1>3. /\ e \in p .. p + CELLS
      /\ \A i \in p .. e - 1 : i \notin At(mem, {0, c})
      /\ e = p + CELLS \/ e \in At(mem, {0, c})
  BY <1>1, UpFacts
<1>4. strchr(mem, p, c) = IF mem[e] = c THEN e ELSE NULL
  BY TurnsFacts DEF strchr
<1> HIDE DEF e, z, H
<1>5. \A a \in 1 .. CELLS : a \in At(mem, {0, c}) <=> mem[a] \in {0, c}
  BY TurnsFacts DEF At, Cells
<1>6. e \in p .. z
  <2>1. z \in At(mem, {0, c})
    BY <1>1, <1>5
  <2> QED
    BY <1>1, <1>3, <2>1
<1>7. mem[e] \in {0, c} /\ \A i \in p .. e - 1 : mem[i] # c /\ mem[i] # 0
  BY <1>1, <1>3, <1>5, <1>6
<1>8. H \in SUBSET Nat
  BY <1>1, <1>2
<1>9. CASE mem[e] = c
  <2>1. e \in H /\ \A a \in H : e <= a
    BY <1>1, <1>2, <1>6, <1>7, <1>9
  <2> QED
    BY <1>4, <1>8, <1>9, <2>1, MinIs DEF H
<1>10. CASE mem[e] # c
  <2>1. mem[e] = 0 /\ c # 0
    BY <1>7, <1>10
  <2>2. e = z
    BY <1>1, <1>6, <2>1
  <2>3. \A a \in p .. z : mem[a] # c
    BY <1>1, <1>7, <1>10, <2>2
  <2>4. H = {}
    BY <1>2, <2>3
  <2> QED
    BY <1>4, <1>10, <2>4 DEF H, Least
<1> QED
  BY <1>9, <1>10

\* strrchr(), which does not look at the '\0' (string.c:325-336).
LEMMA LastInString ==
  ASSUME mem \in Memories, NEW p \in Str, NEW c
  PROVE  strrchr(mem, p, c) = Greatest(Holding(p, Size(p) - 1, c))
<1> DEFINE n == Size(p) - 1
           turn(j, found) == IF mem[p + j - 1] = c THEN p + j - 1 ELSE found
           E(h) == h = [j \in 0 .. n |-> IF j = 0 THEN NULL ELSE turn(j, h[j - 1])]
           f == CHOOSE h : E(h)
           g == [j \in 0 .. n |-> Greatest(Holding(p, j, c))]
<1>1. strrchr(mem, p, c) = f[n] /\ n \in Nat /\ p \in Cells
  <2>1. strlen(mem, p) = n /\ n \in Nat /\ p \in Cells
    BY LengthFacts, TextFacts
  <2> HIDE DEF n
  <2> QED
    BY <2>1 DEF strrchr, After
<1> HIDE DEF n
<1>2. g[0] = NULL
  BY <1>1, NonePlace
<1>3. ASSUME NEW j \in 1 .. n
      PROVE  g[j] = turn(j, g[j - 1])
  <2>1. g[j] = Greatest(Holding(p, j, c)) /\ g[j - 1] = Greatest(Holding(p, j - 1, c)) /\ j \in Nat \ {0}
    BY <1>1
  <2> HIDE DEF g
  <2> QED
    BY <1>1, <2>1, GreatestStep
<1>4. E(g)
  <2>1. g = [j \in 0 .. n |-> g[j]]
    OBVIOUS
  <2> HIDE DEF turn, g
  <2>2. \A j \in 0 .. n : g[j] = IF j = 0 THEN NULL ELSE turn(j, g[j - 1])
    BY <1>1, <1>2, <1>3
  <2>3. g = [j \in 0 .. n |-> IF j = 0 THEN NULL ELSE turn(j, g[j - 1])]
    BY <2>1, <2>2
  <2> QED
    BY <2>3
<1>5. E(f)
  <2> HIDE DEF turn, g
  <2> QED
    BY <1>4
<1>6. f[0] = g[0] /\ \A j \in 1 .. n : f[j - 1] = g[j - 1] => f[j] = g[j]
  <2> HIDE DEF turn, g, f
  <2> QED
    BY <1>1, <1>4, <1>5
<1>7. g[n] = Greatest(Holding(p, n, c))
  BY <1>1
<1> HIDE DEF f, E, g
<1>8. f[n] = g[n]
  BY <1>1, <1>6, SameLoop
<1> QED
  BY <1>1, <1>7, <1>8 DEF n

\* The first n characters of a text.
LEMMA UptoFacts ==
  ASSUME NEW S, NEW t \in Seq(S), NEW n \in Nat
  PROVE  /\ Upto(t, n) \in Seq(S)
         /\ Len(Upto(t, n)) = IF n <= Len(t) THEN n ELSE Len(t)
         /\ \A i \in 1 .. Len(Upto(t, n)) : Upto(t, n)[i] = t[i]
<1> DEFINE l == IF n <= Len(t) THEN n ELSE Len(t)
<1>1. Len(t) \in Nat /\ \A i \in 1 .. Len(t) : t[i] \in S
  BY LenProperties
<1>2. Upto(t, n) = SubSeq(t, 1, l)
  BY <1>1, MinOfTwo DEF Upto
<1>3. l \in Nat /\ l <= Len(t)
  BY <1>1
<1>4. /\ SubSeq(t, 1, l) \in Seq(S)
      /\ Len(SubSeq(t, 1, l)) = IF 1 <= l THEN l - 1 + 1 ELSE 0
      /\ \A i \in 1 .. l - 1 + 1 : SubSeq(t, 1, l)[i] = t[1 + i - 1]
  <2> HIDE DEF l
  <2> QED
    BY <1>1, <1>3, SubSeqProperties
<1>5. Len(SubSeq(t, 1, l)) = l
  BY <1>3, <1>4
<1>6. \A i \in 1 .. l : SubSeq(t, 1, l)[i] = t[i]
  BY <1>3, <1>4
<1> HIDE DEF l
<1>7. /\ Upto(t, n) \in Seq(S)
      /\ Len(Upto(t, n)) = l
      /\ \A i \in 1 .. Len(Upto(t, n)) : Upto(t, n)[i] = t[i]
  BY <1>2, <1>4, <1>5, <1>6
<1> QED
  BY <1>7 DEF l

\* Where a comparison of the strings p and q stops: before either has ended.
IsStop(p, q, e) ==
  /\ e < Size(p) /\ e < Size(q)
  /\ \A k \in 0 .. e - 1 : mem[p + k] = mem[q + k] /\ mem[p + k] # 0
  /\ mem[p + e] # mem[q + e] \/ mem[p + e] = 0

\* The sequence s is the l cells from p on.
Holds(s, p, l) == DOMAIN s = 1 .. l /\ \A i \in 1 .. l : s[i] = mem[p + i - 1]

Shorter(n, l) == IF n <= l THEN n ELSE l

\* A comparison of two strings stops before either has ended.
LEMMA StopsInside ==
  ASSUME mem \in Memories, NEW p \in Str, NEW q \in Str
  PROVE  \E e \in Nat :
           /\ IsStop(p, q, e)
           /\ \A n \in Nat : Up(n, 0, ends_at(mem, p, q)) = Shorter(n, e)
<1> DEFINE D == ends_at(mem, p, q)
           a == Size(p)
           b == Size(q)
           low == IF a <= b THEN a - 1 ELSE b - 1
<1>1. /\ p \in Nat \ {0} /\ q \in Nat \ {0} /\ CELLS \in Nat
      /\ a \in 1 .. CELLS /\ b \in 1 .. CELLS /\ p + a - 1 <= CELLS /\ q + b - 1 <= CELLS
      /\ mem[p + a - 1] = 0 /\ \A i \in p .. p + a - 2 : mem[i] # 0
      /\ mem[q + b - 1] = 0 /\ \A i \in q .. q + b - 2 : mem[i] # 0
  BY TextFacts, LibraryAssumption DEF Room
<1> HIDE DEF a, b
<1>2. \A k \in 0 .. low : k \in D <=> mem[p + k] # mem[q + k] \/ mem[p + k] = 0
  <2>1. Turns(mem) = CELLS /\ DOMAIN mem = 1 .. CELLS
    BY TurnsFacts DEF Cells
  <2>2. \A k \in 0 .. low : k \in 0 .. CELLS /\ p + k \in 1 .. CELLS /\ q + k \in 1 .. CELLS
    BY <1>1
  <2> QED
    BY <2>1, <2>2 DEF ends_at
<1>3. low \in Nat /\ low \in D
  <2>1. low \in Nat
    BY <1>1
  <2>2. CASE a <= b
    <3>1. low = a - 1 /\ p + low = p + a - 1 /\ low \in 0 .. low
      BY <1>1, <2>2
    <3> HIDE DEF low, D
    <3> QED
      BY <1>1, <1>2, <2>1, <3>1
  <2>3. CASE ~(a <= b)
    <3>1. low = b - 1 /\ q + low = q + b - 1 /\ low \in 0 .. low /\ p + low \in p .. p + a - 2
      BY <1>1, <2>3
    <3>2. mem[q + low] = 0 /\ mem[p + low] # 0
      <4> HIDE DEF low
      <4> QED
        BY <1>1, <3>1
    <3> HIDE DEF low, D
    <3> QED
      BY <1>2, <2>1, <3>1, <3>2
  <2> QED
    BY <2>1, <2>2, <2>3
<1> DEFINE e == Up(low, 0, D)
<1>4. e \in 0 .. low /\ (\A k \in 0 .. e - 1 : k \notin D) /\ e \in D
  <2>1. /\ e \in 0 .. 0 + low /\ (\A k \in 0 .. e - 1 : k \notin D)
        /\ e = 0 + low \/ e \in D
    <3> HIDE DEF low, D
    <3> QED
      BY <1>3, UpFacts
  <2> HIDE DEF e, low, D
  <2>2. 0 + low = low
    BY <1>3
  <2> QED
    BY <1>3, <2>1, <2>2
<1>5. e < a /\ e < b
  <2> HIDE DEF e
  <2> QED
    BY <1>1, <1>4
<1> HIDE DEF e, low, D
<1>6. \A k \in 0 .. e - 1 : mem[p + k] = mem[q + k] /\ mem[p + k] # 0
  <2>1. \A k \in 0 .. e - 1 : k \in 0 .. low
    BY <1>3, <1>4
  <2> QED
    BY <1>2, <1>4, <2>1
<1>7. mem[p + e] # mem[q + e] \/ mem[p + e] = 0
  BY <1>2, <1>4
<1>8. ASSUME NEW n \in Nat
      PROVE  Up(n, 0, D) = Shorter(n, e)
  <2>1. CASE n <= e
    <3>1. n \in 0 .. 0 + n /\ n = 0 + n /\ \A k \in 0 .. n - 1 : k \notin D
      BY <1>3, <1>4, <2>1
    <3> QED
      BY <2>1, <3>1, UpIs DEF Shorter
  <2>2. CASE ~(n <= e)
    <3>1. e \in 0 .. 0 + n
      BY <1>3, <1>4, <2>2
    <3> QED
      BY <1>4, <2>2, <3>1, UpIs DEF Shorter
  <2> QED
    BY <2>1, <2>2
<1>9. IsStop(p, q, e) /\ e \in Nat
  BY <1>3, <1>4, <1>5, <1>6, <1>7 DEF a, b, IsStop
<1> QED
  BY <1>8, <1>9 DEF D

\* What a comparison says of two sequences that go as far as it is told.
LEMMA CompareFacts ==
  ASSUME mem \in Memories, NEW p \in Str, NEW q \in Str, NEW e \in Nat, IsStop(p, q, e),
         NEW n \in Nat, NEW s, Holds(s, p, Shorter(n, Size(p))),
         NEW t, Holds(t, q, Shorter(n, Size(q)))
  PROVE  Difference(s, t) = IF n <= e THEN 0 ELSE mem[p + e] - mem[q + e]
<1>1. /\ p \in Nat \ {0} /\ q \in Nat \ {0}
      /\ Size(p) \in Nat /\ Size(q) \in Nat
      /\ mem[p + Size(p) - 1] = 0 /\ \A i \in p .. p + Size(p) - 2 : mem[i] # 0
      /\ mem[q + Size(q) - 1] = 0 /\ \A i \in q .. q + Size(q) - 2 : mem[i] # 0
  <2>1. /\ p \in Nat \ {0} /\ Size(p) \in Nat
        /\ mem[p + Size(p) - 1] = 0 /\ \A i \in p .. p + Size(p) - 2 : mem[i] # 0
    BY TextFacts
  <2>2. /\ q \in Nat \ {0} /\ Size(q) \in Nat
        /\ mem[q + Size(q) - 1] = 0 /\ \A i \in q .. q + Size(q) - 2 : mem[i] # 0
    BY TextFacts
  <2> QED
    BY <2>1, <2>2
<1> DEFINE both == DOMAIN s \cap DOMAIN t
<1>2. /\ \A k \in both : k \in Nat \ {0} /\ k <= n /\ k <= Size(p) /\ k <= Size(q)
      /\ \A k \in Nat \ {0} : k <= n /\ k <= Size(p) /\ k <= Size(q) => k \in both
  <2>1. DOMAIN s = 1 .. Shorter(n, Size(p)) /\ DOMAIN t = 1 .. Shorter(n, Size(q))
    BY DEF Holds
  <2>2. \A k \in Nat \ {0} : k \in 1 .. Shorter(n, Size(p)) <=> k <= n /\ k <= Size(p)
    BY <1>1 DEF Shorter
  <2>3. \A k \in Nat \ {0} : k \in 1 .. Shorter(n, Size(q)) <=> k <= n /\ k <= Size(q)
    BY <1>1 DEF Shorter
  <2>4. \A k \in both : k \in Nat \ {0}
    <3>1. \A k \in 1 .. Shorter(n, Size(p)) : k \in Nat \ {0}
      BY <1>1 DEF Shorter
    <3> QED
      BY <2>1, <3>1
  <2> QED
    BY <2>1, <2>2, <2>3, <2>4
<1>3. \A k \in both : s[k] = mem[p + k - 1] /\ t[k] = mem[q + k - 1]
  BY DEF Holds
<1>4. /\ e < Size(p) /\ e < Size(q)
      /\ \A k \in 0 .. e - 1 : mem[p + k] = mem[q + k]
      /\ mem[p + e] # mem[q + e] \/ mem[p + e] = 0
  BY DEF IsStop
<1>5. both \in SUBSET Nat
  BY <1>2
<1> HIDE DEF both
<1>6. ASSUME NEW k \in both, k < e + 1
      PROVE  s[k] = t[k]
  <2>1. k - 1 \in 0 .. e - 1 /\ p + (k - 1) = p + k - 1 /\ q + (k - 1) = q + k - 1
    BY <1>1, <1>2, <1>6
  <2>2. mem[p + (k - 1)] = mem[q + (k - 1)]
    BY <1>4, <2>1
  <2> QED
    BY <1>3, <2>1, <2>2
<1>7. CASE n <= e
  <2>1. \A k \in both : k < e + 1
    BY <1>2, <1>7
  <2>2. \A k \in both : s[k] = t[k]
    BY <1>6, <2>1
  <2>3. Difference(s, t) = 0
    BY <2>2, NoDifference DEF both
  <2> QED
    BY <1>7, <2>3
<1>8. CASE ~(n <= e)
  <2>1. e + 1 \in both
    BY <1>1, <1>2, <1>4, <1>8
  <2>2. p + (e + 1) - 1 = p + e /\ q + (e + 1) - 1 = q + e
    BY <1>1
  <2>3. s[e + 1] = mem[p + e] /\ t[e + 1] = mem[q + e]
    BY <1>3, <2>1, <2>2
  <2>4. CASE mem[p + e] # mem[q + e]
    <3>1. s[e + 1] # t[e + 1] /\ \A k \in both : k < e + 1 => s[k] = t[k]
      BY <1>6, <2>3, <2>4
    <3>2. Difference(s, t) = s[e + 1] - t[e + 1]
      BY <1>5, <2>1, <3>1, DifferenceAt DEF both
    <3> QED
      BY <1>8, <2>3, <3>2
  <2>5. CASE mem[p + e] = mem[q + e]
    <3>1. mem[p + e] = 0 /\ mem[q + e] = 0
      BY <1>4, <2>5
    <3>2. Size(p) <= e + 1
      <4>1. ASSUME ~(Size(p) <= e + 1)
            PROVE  FALSE
        <5>1. p + e \in p .. p + Size(p) - 2
          BY <1>1, <4>1
        <5> QED
          BY <1>1, <3>1, <5>1
      <4> QED
        BY <4>1
    <3>3. \A k \in both : k = e + 1 \/ k < e + 1
      BY <1>1, <1>2, <3>2
    <3>4. \A k \in both : s[k] = t[k]
      BY <1>6, <2>3, <2>5, <3>3
    <3>5. Difference(s, t) = 0
      BY <3>4, NoDifference DEF both
    <3> QED
      BY <1>8, <3>1, <3>5
  <2> QED
    BY <2>4, <2>5
<1> QED
  BY <1>7, <1>8

\* A string, whole or in part, is what the memory holds.
LEMMA WholeHolds ==
  ASSUME mem \in Memories, NEW p \in Str
  PROVE  /\ Holds(Whole(p), p, Size(p))
         /\ \A n \in Nat : Holds(Upto(Whole(p), n), p, Shorter(n, Size(p)))
<1>1. /\ Size(p) \in Nat
      /\ Whole(p) \in Seq(Char) /\ Len(Whole(p)) = Size(p)
      /\ \A i \in 1 .. Size(p) : Whole(p)[i] = mem[p + i - 1]
  BY TextFacts
<1>2. Holds(Whole(p), p, Size(p))
  BY <1>1, LenProperties DEF Holds
<1>3. ASSUME NEW n \in Nat
      PROVE  Holds(Upto(Whole(p), n), p, Shorter(n, Size(p)))
  <2> DEFINE s == Upto(Whole(p), n)
  <2>1. /\ s \in Seq(Char) /\ Len(s) = Shorter(n, Size(p))
        /\ \A i \in 1 .. Len(s) : s[i] = Whole(p)[i]
    BY <1>1, UptoFacts DEF Shorter
  <2> HIDE DEF s
  <2>2. DOMAIN s = 1 .. Shorter(n, Size(p))
    BY <2>1, LenProperties
  <2>3. \A i \in 1 .. Shorter(n, Size(p)) : i \in 1 .. Size(p)
    BY <1>1 DEF Shorter
  <2> QED
    BY <1>1, <2>1, <2>2, <2>3 DEF Holds, s
<1> QED
  BY <1>2, <1>3

\* strcmp() and strncmp() (string.c:344-358, 475-489).
LEMMA ComparesStrings ==
  ASSUME mem \in Memories, NEW p \in Str, NEW q \in Str
  PROVE  /\ strcmp(mem, p, q) = Difference(Whole(p), Whole(q))
         /\ \A n \in Nat : strncmp(mem, p, q, n) = Difference(Upto(Whole(p), n), Upto(Whole(q), n))
<1>1. PICK e \in Nat :
           /\ IsStop(p, q, e)
           /\ \A n \in Nat : Up(n, 0, ends_at(mem, p, q)) = Shorter(n, e)
  BY StopsInside
<1>2. /\ Size(p) \in 1 .. CELLS /\ Size(q) \in 1 .. CELLS /\ CELLS \in Nat
      /\ p \in Nat /\ q \in Nat /\ e < Size(p)
  BY <1>1, TextFacts, LibraryAssumption DEF IsStop
<1>3. strcmp(mem, p, q) = Difference(Whole(p), Whole(q))
  <2>1. Turns(mem) = CELLS /\ ~(CELLS <= e)
    BY <1>2, TurnsFacts
  <2>2. Up(CELLS, 0, ends_at(mem, p, q)) = e
    BY <1>1, <1>2, <2>1 DEF Shorter
  <2>3. strcmp(mem, p, q) = mem[p + e] - mem[q + e]
    BY <2>1, <2>2 DEF strcmp
  <2>4. Shorter(CELLS, Size(p)) = Size(p) /\ Shorter(CELLS, Size(q)) = Size(q)
    BY <1>2 DEF Shorter
  <2>5. Holds(Whole(p), p, Shorter(CELLS, Size(p))) /\ Holds(Whole(q), q, Shorter(CELLS, Size(q)))
    BY <2>4, WholeHolds
  <2>6. Difference(Whole(p), Whole(q)) = IF CELLS <= e THEN 0 ELSE mem[p + e] - mem[q + e]
    BY <1>1, <1>2, <2>5, CompareFacts
  <2> QED
    BY <2>1, <2>3, <2>6
<1>4. ASSUME NEW n \in Nat
      PROVE  strncmp(mem, p, q, n) = Difference(Upto(Whole(p), n), Upto(Whole(q), n))
  <2>1. Up(n, 0, ends_at(mem, p, q)) = Shorter(n, e)
    BY <1>1
  <2>2. strncmp(mem, p, q, n) =
          IF Shorter(n, e) = n THEN 0 ELSE mem[p + Shorter(n, e)] - mem[q + Shorter(n, e)]
    BY <2>1 DEF strncmp
  <2>3. strncmp(mem, p, q, n) = IF n <= e THEN 0 ELSE mem[p + e] - mem[q + e]
    BY <2>2 DEF Shorter
  <2>4. /\ Holds(Upto(Whole(p), n), p, Shorter(n, Size(p)))
        /\ Holds(Upto(Whole(q), n), q, Shorter(n, Size(q)))
    BY WholeHolds
  <2>5. Difference(Upto(Whole(p), n), Upto(Whole(q), n)) = IF n <= e THEN 0 ELSE mem[p + e] - mem[q + e]
    BY <1>1, <2>4, CompareFacts
  <2> QED
    BY <2>3, <2>5
<1> QED
  BY <1>3, <1>4

\* The cells of the string at p that hold one of the characters S.
Of(p, S) == {p + i - 1 : i \in {j \in DOMAIN Text(p) : Text(p)[j] \in S}}

\* ... by their addresses.
LEMMA OfFacts ==
  ASSUME mem \in Memories, NEW p \in Str, NEW S
  PROVE  Of(p, S) = {a \in p .. p + Size(p) - 2 : mem[a] \in S}
<1>1. /\ p \in Nat \ {0} /\ Size(p) \in Nat \ {0}
      /\ Text(p) \in Seq(Char) /\ Len(Text(p)) = Size(p) - 1
      /\ \A i \in 1 .. Size(p) - 1 : Text(p)[i] = mem[p + i - 1]
  BY TextFacts
<1>2. DOMAIN Text(p) = 1 .. Size(p) - 1
  BY <1>1, LenProperties
<1>3. Of(p, S) = {p + i - 1 : i \in {j \in 1 .. Size(p) - 1 : mem[p + j - 1] \in S}}
  BY <1>1, <1>2 DEF Of
<1>4. ASSUME NEW a \in p .. p + Size(p) - 2, mem[a] \in S
      PROVE  a \in Of(p, S)
  <2>1. a - p + 1 \in 1 .. Size(p) - 1 /\ p + (a - p + 1) - 1 = a
    BY <1>1
  <2> QED
    BY <1>3, <1>4, <2>1
<1>5. ASSUME NEW a \in Of(p, S)
      PROVE  a \in p .. p + Size(p) - 2 /\ mem[a] \in S
  <2>1. PICK i \in 1 .. Size(p) - 1 : a = p + i - 1 /\ mem[p + i - 1] \in S
    BY <1>3
  <2> QED
    BY <1>1, <2>1
<1> QED
  BY <1>4, <1>5

\* The map of strxspn() has the characters of its string (string.c:201-207).
LEMMA MapFacts ==
  ASSUME mem \in Memories, NEW q \in Str
  PROVE  /\ matchmap(mem, q) = {Text(q)[i] : i \in DOMAIN Text(q)}
         /\ 0 \notin matchmap(mem, q)
<1>1. /\ q \in Nat \ {0} /\ Size(q) \in Nat \ {0}
      /\ Text(q) \in Seq(Char) /\ Len(Text(q)) = Size(q) - 1
      /\ \A i \in 1 .. Size(q) - 1 : Text(q)[i] = mem[q + i - 1]
      /\ \A i \in q .. q + Size(q) - 2 : mem[i] # 0
  BY TextFacts
<1>2. DOMAIN Text(q) = 1 .. Size(q) - 1
  BY <1>1, LenProperties
<1>3. matchmap(mem, q) = {mem[a] : a \in q .. q + Size(q) - 2}
  <2>1. strlen(mem, q) = Size(q) - 1
    BY <1>1, LengthFacts
  <2>2. q + (Size(q) - 1) - 1 = q + Size(q) - 2
    BY <1>1
  <2> QED
    BY <2>1, <2>2 DEF matchmap
<1>4. {Text(q)[i] : i \in DOMAIN Text(q)} = {mem[q + i - 1] : i \in 1 .. Size(q) - 1}
  BY <1>1, <1>2
<1>5. \A a \in q .. q + Size(q) - 2 : a - q + 1 \in 1 .. Size(q) - 1 /\ q + (a - q + 1) - 1 = a
  BY <1>1
<1>6. \A i \in 1 .. Size(q) - 1 : q + i - 1 \in q .. q + Size(q) - 2
  BY <1>1
<1>7. \A c : c \in {mem[a] : a \in q .. q + Size(q) - 2} => c \in {mem[q + i - 1] : i \in 1 .. Size(q) - 1}
  BY <1>5
<1>8. \A c : c \in {mem[q + i - 1] : i \in 1 .. Size(q) - 1} => c \in {mem[a] : a \in q .. q + Size(q) - 2}
  BY <1>6
<1> QED
  BY <1>1, <1>3, <1>4, <1>7, <1>8

\* The places in the string at p, before its '\0', where a pointer stops.
StopsOf(p, stops) == {a \in p .. p + Size(p) - 2 : a \in stops}

\* A pointer that goes up a string stops in it, or at its '\0'.
LEMMA StopsInString ==
  ASSUME mem \in Memories, NEW p \in Str, NEW stops, p + Size(p) - 1 \in stops
  PROVE  /\ StopsOf(p, stops) # {} => /\ Up(Turns(mem), p, stops) = Min(StopsOf(p, stops))
                                      /\ Min(StopsOf(p, stops)) \in StopsOf(p, stops)
         /\ StopsOf(p, stops) = {} => Up(Turns(mem), p, stops) = p + Size(p) - 1
<1> DEFINE O == StopsOf(p, stops)
           z == p + Size(p) - 1
           e == Up(CELLS, p, stops)
<1>1. p \in Nat \ {0} /\ Size(p) \in 1 .. CELLS /\ CELLS \in Nat /\ p + Size(p) - 2 = z - 1
  BY TextFacts, LibraryAssumption
<1>2. Turns(mem) = CELLS
  BY TurnsFacts
<1>3. /\ e \in p .. p + CELLS
      /\ \A i \in p .. e - 1 : i \notin stops
      /\ e = p + CELLS \/ e \in stops
  BY <1>1, UpFacts
<1>4. z \in p .. p + CELLS - 1 /\ z \in stops
  BY <1>1
<1>5. O = {a \in p .. z - 1 : a \in stops}
  BY <1>1 DEF StopsOf
<1> HIDE DEF e, z, O
<1>6. e \in p .. z /\ e \in stops
  BY <1>1, <1>3, <1>4
<1>7. O \in SUBSET Nat
  BY <1>1, <1>5
<1>8. CASE e = z
  <2>1. O = {}
    BY <1>3, <1>5, <1>8
  <2> QED
    BY <1>2, <1>8, <2>1 DEF e, z, O
<1>9. CASE e # z
  <2>1. e \in O /\ \A k \in O : e <= k
    BY <1>1, <1>3, <1>4, <1>5, <1>6, <1>9
  <2>2. Min(O) = e
    BY <1>7, <2>1, MinIs
  <2> QED
    BY <1>2, <2>1, <2>2 DEF e, O
<1> QED
  BY <1>8, <1>9

\* The characters of the string at p before the first that is in S.
Before(p, S) == IF Of(p, S) = {} THEN Len(Text(p)) ELSE Min(Of(p, S)) - p

\* strcspn(), strspn() and strpbrk() (string.c:383-386, 518-523, 549-552).
LEMMA SpanFacts ==
  ASSUME mem \in Memories, NEW p \in Str, NEW q \in Str
  PROVE  /\ strcspn(mem, p, q) = Before(p, matchmap(mem, q))
         /\ strspn(mem, p, q) = Before(p, Char \ matchmap(mem, q))
         /\ strpbrk(mem, p, q) = Least(Of(p, matchmap(mem, q)))
<1> DEFINE S == matchmap(mem, q)
           z == p + Size(p) - 1
           up == {a \in DOMAIN mem : (mem[a] \in S \cup {0}) = (1 = 1)}
           down == {a \in DOMAIN mem : (mem[a] \in S \cup {}) = (0 = 1)}
<1>1. /\ p \in Nat \ {0} /\ Size(p) \in 1 .. CELLS /\ Room(p, Size(p)) /\ CELLS \in Nat
      /\ mem[z] = 0 /\ Len(Text(p)) = Size(p) - 1
      /\ \A i \in p .. p + Size(p) - 2 : mem[i] # 0
  BY TextFacts, LibraryAssumption
<1>2. 0 \notin S
  BY MapFacts
<1>3. \A a \in p .. p + Size(p) - 2 : a \in DOMAIN mem /\ mem[a] \in Char
  <2>1. \A a \in p .. p + Size(p) - 2 : a \in Cells
    BY <1>1 DEF Room, Cells
  <2>2. mem \in [Cells -> Char]
    BY DEF Memories, Cells
  <2> QED
    BY <2>1, <2>2
<1>4. z \in DOMAIN mem
  <2>1. z \in Cells
    BY <1>1 DEF Room, Cells
  <2> QED
    BY <2>1, TurnsFacts
<1> HIDE DEF S
<1>5. \A a \in DOMAIN mem : a \in up <=> mem[a] \in S \/ mem[a] = 0
  OBVIOUS
<1>6. \A a \in DOMAIN mem : a \in down <=> mem[a] \notin S
  OBVIOUS
<1>7. strcspn(mem, p, q) = Up(Turns(mem), p, up) - p
  BY DEF strcspn, strxspn, span, S
<1>8. strspn(mem, p, q) = Up(Turns(mem), p, down) - p
  BY DEF strspn, strxspn, span, S
<1>9. strpbrk(mem, p, q) =
        LET ss == p + (Up(Turns(mem), p, up) - p) IN IF mem[ss] # 0 THEN ss ELSE NULL
  BY DEF strpbrk, strxspn, span, S
<1>10. Of(p, S) = {a \in p .. p + Size(p) - 2 : mem[a] \in S}
  BY OfFacts
<1>11. Of(p, Char \ S) = {a \in p .. p + Size(p) - 2 : mem[a] \in Char \ S}
  BY OfFacts
<1>12. z \in up /\ z \in down
  BY <1>1, <1>2, <1>4, <1>5, <1>6
<1> HIDE DEF up, down, z
<1>13. Of(p, S) = StopsOf(p, up)
  BY <1>1, <1>3, <1>5, <1>10 DEF StopsOf
<1>14. Of(p, Char \ S) = StopsOf(p, down)
  BY <1>1, <1>3, <1>6, <1>11 DEF StopsOf
<1>15. /\ Of(p, S) # {} => Up(Turns(mem), p, up) = Min(Of(p, S)) /\ Min(Of(p, S)) \in Of(p, S)
       /\ Of(p, S) = {} => Up(Turns(mem), p, up) = z
  BY <1>12, <1>13, StopsInString DEF z
<1>16. /\ Of(p, Char \ S) # {} => Up(Turns(mem), p, down) = Min(Of(p, Char \ S))
       /\ Of(p, Char \ S) = {} => Up(Turns(mem), p, down) = z
  BY <1>12, <1>14, StopsInString DEF z
<1>17. z - p = Len(Text(p))
  BY <1>1 DEF z
<1>18. strcspn(mem, p, q) = Before(p, S)
  BY <1>7, <1>15, <1>17 DEF Before
<1>19. strspn(mem, p, q) = Before(p, Char \ S)
  BY <1>8, <1>16, <1>17 DEF Before
<1>20. strpbrk(mem, p, q) = Least(Of(p, S))
  <2>1. CASE Of(p, S) = {}
    <3>1. p + (z - p) = z
      BY <1>1 DEF z
    <3> QED
      BY <1>1, <1>9, <1>15, <2>1, <3>1 DEF Least
  <2>2. CASE Of(p, S) # {}
    <3> DEFINE e == Min(Of(p, S))
    <3>1. e \in p .. p + Size(p) - 2 /\ Up(Turns(mem), p, up) = e
      BY <1>10, <1>15, <2>2
    <3> HIDE DEF e
    <3>2. p + (e - p) = e /\ mem[e] # 0
      BY <1>1, <3>1
    <3>3. strpbrk(mem, p, q) = e
      BY <1>9, <3>1, <3>2
    <3> QED
      BY <2>2, <3>3 DEF Least, e
  <2> QED
    BY <2>1, <2>2
<1> QED
  BY <1>18, <1>19, <1>20 DEF S

\* strstr() (string.c:559-563).
LEMMA StrstrFinds ==
  ASSUME mem \in Memories, NEW p \in Str, NEW q \in Str, Text(q) # <<>>
  PROVE  strstr(mem, p, q) = Least(Places(p, Len(Text(p)), Text(q)))
<1> DEFINE n == Len(Text(p))
           l == Len(Text(q))
<1>1. /\ p \in Cells /\ Size(p) \in 1 .. CELLS /\ Room(p, Size(p)) /\ n = Size(p) - 1 /\ p \in Nat \ {0}
      /\ q \in Cells /\ Size(q) \in 1 .. CELLS /\ Room(q, Size(q)) /\ l = Size(q) - 1 /\ q \in Nat \ {0}
      /\ Text(q) \in Seq(Char) /\ CELLS \in Nat
  BY TextFacts, LibraryAssumption
<1>2. l # 0
  BY <1>1, EmptySeq
<1>3. strstr(mem, p, q) = memmem(mem, p, n, q, l)
  BY LengthFacts DEF strstr
<1>4. Text(q) = Bytes(q, l)
  BY <1>1 DEF Text
<1> HIDE DEF n, l
<1>5. n \in 0 .. CELLS /\ l \in 1 .. CELLS /\ Room(p, n) /\ Room(q, l)
  <2>1. n \in 0 .. CELLS /\ l \in 1 .. CELLS
    BY <1>1, <1>2
  <2>2. p + Size(p) - 1 <= CELLS /\ q + Size(q) - 1 <= CELLS
    BY <1>1 DEF Room
  <2>3. p + n - 1 <= CELLS /\ q + l - 1 <= CELLS
    BY <1>1, <2>2, SMTT(20)
  <2> QED
    BY <2>1, <2>3 DEF Room
<1>6. memmem(mem, p, n, q, l) = Least(Places(p, n, Bytes(q, l)))
  BY <1>1, <1>5, MemmemFinds
<1> QED
  BY <1>3, <1>4, <1>6 DEF n

\* In every memory, every search finds what it should.
LEMMA SearchesAreExact == mem \in Memories => SearchesExact
<1> SUFFICES ASSUME mem \in Memories
             PROVE  SearchesExact
  OBVIOUS
<1>1. ASSUME NEW p \in Cells, NEW n \in 0 .. CELLS, NEW c \in Char, Room(p, n)
      PROVE  /\ memchr(mem, p, c, n) = Least(Holding(p, n, c))
             /\ memrchr(mem, p, c, n) = Greatest(Holding(p, n, c))
  BY <1>1, FirstPlace, LastPlace
<1>2. ASSUME NEW p \in Cells, NEW q \in Cells, NEW n \in 1 .. CELLS, NEW l \in 1 .. CELLS,
             Room(p, n), Room(q, l)
      PROVE  /\ memmem(mem, p, n, q, l) = Least(Places(p, n, Bytes(q, l)))
             /\ n = l => memcmp(mem, p, q, n) = Difference(Bytes(p, n), Bytes(q, n))
  <2>1. p \in Nat \ {0} /\ q \in Nat \ {0} /\ n \in Nat /\ n \in 0 .. CELLS
    BY LibraryAssumption DEF Cells
  <2>2. memmem(mem, p, n, q, l) = Least(Places(p, n, Bytes(q, l)))
    BY <1>2, <2>1, MemmemFinds
  <2>3. n = l => memcmp(mem, p, q, n) = Difference(Bytes(p, n), Bytes(q, n))
    BY <1>2, <2>1, MemcmpFacts
  <2> QED
    BY <2>2, <2>3
<1>3. ASSUME NEW p \in Str
      PROVE  /\ strlen(mem, p) = Len(Text(p))
             /\ \A n \in 0 .. CELLS : strnlen(mem, p, n) = Min({n, Len(Text(p))})
             /\ \A c \in Char : /\ strchr(mem, p, c) = Least(Holding(p, Size(p), c))
                                /\ strrchr(mem, p, c) = Greatest(Holding(p, Size(p) - 1, c))
  <2>1. Len(Text(p)) \in Nat
    BY TextFacts
  <2>2. \A n \in 0 .. CELLS : strnlen(mem, p, n) = Min({n, Len(Text(p))})
    <3>1. \A n \in 0 .. CELLS : n \in Nat
      OBVIOUS
    <3> QED
      BY <2>1, <3>1, LengthFacts, MinOfTwo
  <2> QED
    BY <2>2, LengthFacts, FirstInString, LastInString
<1>4. ASSUME NEW p \in Str, NEW q \in Str
      PROVE
       LET of(S) == {p + i - 1 : i \in {j \in DOMAIN Text(p) : Text(p)[j] \in S}}
           set   == {Text(q)[i] : i \in DOMAIN Text(q)}
           after(S) == IF of(S) = {} THEN Len(Text(p)) ELSE Min(of(S)) - p
       IN  /\ strcmp(mem, p, q) = Difference(Whole(p), Whole(q))
           /\ \A n \in 0 .. CELLS :
                strncmp(mem, p, q, n) = Difference(Upto(Whole(p), n), Upto(Whole(q), n))
           /\ strcspn(mem, p, q) = after(set)
           /\ strspn(mem, p, q) = after(Char \ set)
           /\ strpbrk(mem, p, q) = Least(of(set))
           /\ Text(q) # <<>> => strstr(mem, p, q) = Least(Places(p, Len(Text(p)), Text(q)))
  <2> DEFINE of(S) == {p + i - 1 : i \in {j \in DOMAIN Text(p) : Text(p)[j] \in S}}
             set   == {Text(q)[i] : i \in DOMAIN Text(q)}
             after(S) == IF of(S) = {} THEN Len(Text(p)) ELSE Min(of(S)) - p
  <2>1. /\ strcmp(mem, p, q) = Difference(Whole(p), Whole(q))
        /\ \A n \in Nat : strncmp(mem, p, q, n) = Difference(Upto(Whole(p), n), Upto(Whole(q), n))
    BY ComparesStrings
  <2>2. \A n \in 0 .. CELLS :
          strncmp(mem, p, q, n) = Difference(Upto(Whole(p), n), Upto(Whole(q), n))
    <3>1. \A n \in 0 .. CELLS : n \in Nat
      OBVIOUS
    <3> QED
      BY <2>1, <3>1
  <2>3. set = matchmap(mem, q)
    BY MapFacts
  <2>4. of(set) = Of(p, set) /\ of(Char \ set) = Of(p, Char \ set)
    BY DEF Of
  <2>5. Text(q) # <<>> => strstr(mem, p, q) = Least(Places(p, Len(Text(p)), Text(q)))
    BY StrstrFinds
  <2>6. /\ strcspn(mem, p, q) = Before(p, set)
        /\ strspn(mem, p, q) = Before(p, Char \ set)
        /\ strpbrk(mem, p, q) = Least(Of(p, set))
    BY <2>3, SpanFacts
  <2> HIDE DEF set, of
  <2>7. Before(p, set) = after(set) /\ Before(p, Char \ set) = after(Char \ set)
    BY <2>4 DEF Before
  <2> HIDE DEF after
  <2>8. /\ strcmp(mem, p, q) = Difference(Whole(p), Whole(q))
        /\ \A n \in 0 .. CELLS :
                strncmp(mem, p, q, n) = Difference(Upto(Whole(p), n), Upto(Whole(q), n))
        /\ strcspn(mem, p, q) = after(set)
        /\ strspn(mem, p, q) = after(Char \ set)
        /\ strpbrk(mem, p, q) = Least(of(set))
        /\ Text(q) # <<>> => strstr(mem, p, q) = Least(Places(p, Len(Text(p)), Text(q)))
    BY <2>1, <2>2, <2>4, <2>5, <2>6, <2>7
  <2> QED
    BY <2>8 DEF set, of, after
<1> HIDE DEF Str
<1> QED
  BY <1>1, <1>2, <1>3, <1>4 DEF SearchesExact

\* What is looked for is found at its first place, or its last, and only where it is: the
\* searches, comparisons and lengths of blocks and strings, "Not So Naive" with its two skips
\* among them, in memories of any size (string.c:46-95, 196-266, 308-358, 383-417, 475-566).
THEOREM SearchesProved == Spec => []SearchesExact
<1>1. Types => SearchesExact
  BY SearchesAreExact DEF Types
<1> QED
  BY <1>1, TypesInductive, PTL

\* The cells of the string at p, and what is before it, as numbers.
LEMMA StringFacts ==
  ASSUME mem \in Memories, NEW p \in Str
  PROVE  /\ p \in Nat \ {0} /\ CELLS \in Nat /\ Size(p) \in Nat \ {0} /\ p + Size(p) - 1 <= CELLS
         /\ Size(p) <= CELLS
         /\ mem[p + Size(p) - 1] = 0
         /\ \A i \in p .. p + Size(p) - 2 : mem[i] # 0
         /\ Text(p) \in Seq(Char) /\ Len(Text(p)) = Size(p) - 1
         /\ DOMAIN Text(p) = 1 .. Size(p) - 1
         /\ \A i \in 1 .. Size(p) - 1 : Text(p)[i] = mem[p + i - 1]
<1>1. /\ p \in Nat \ {0} /\ CELLS \in Nat /\ Size(p) \in 1 .. CELLS /\ p + Size(p) - 1 <= CELLS
      /\ mem[p + Size(p) - 1] = 0
      /\ \A i \in p .. p + Size(p) - 2 : mem[i] # 0
      /\ Text(p) \in Seq(Char) /\ Len(Text(p)) = Size(p) - 1
      /\ \A i \in 1 .. Size(p) - 1 : Text(p)[i] = mem[p + i - 1]
  BY TextFacts, LibraryAssumption DEF Room
<1>2. DOMAIN Text(p) = 1 .. Size(p) - 1
  BY <1>1, LenProperties
<1> QED
  BY <1>1, <1>2

\* What memccpy() of a string is, when it may write n cells.
LEMMA StringCopied ==
  ASSUME mem \in Memories, NEW p \in Str, NEW q \in Nat \ {0}, NEW n \in Nat,
         Room(q, Shorter(n, Size(p))), Apart(p, Shorter(n, Size(p)), q, Shorter(n, Size(p)))
  PROVE  memccpy(mem, q, p, 0, n) =
           [mem |-> Copied(mem, q, p, Shorter(n, Size(p))),
            ret |-> IF Size(p) <= n THEN q + Size(p) ELSE NULL]
<1> DEFINE k == Shorter(n, Size(p))
<1>1. /\ p \in Nat \ {0} /\ CELLS \in Nat /\ Size(p) \in Nat \ {0} /\ p + Size(p) - 1 <= CELLS
      /\ mem[p + Size(p) - 1] = 0
      /\ \A i \in p .. p + Size(p) - 2 : mem[i] # 0
  BY StringFacts
<1>2. k \in Nat /\ k <= n /\ k <= Size(p) /\ (k = n \/ k = Size(p))
  BY <1>1 DEF Shorter
<1>3. Size(p) <= n => k = Size(p)
  BY <1>1 DEF Shorter
<1>4. Room(q, k) /\ Apart(p, k, q, k)
  OBVIOUS
<1> HIDE DEF k
<1>5. Room(p, k)
  BY <1>1, <1>2 DEF Room
<1>6. \A i \in 1 .. Size(p) - 1 : mem[p + i - 1] # 0
  <2>1. \A i \in 1 .. Size(p) - 1 : p + i - 1 \in p .. p + Size(p) - 2
    BY <1>1
  <2> QED
    BY <1>1, <2>1
<1>7. UpTo(mem, p, 0, n, k)
  <2>1. \A i \in 1 .. k - 1 : i \in 1 .. Size(p) - 1
    BY <1>1, <1>2
  <2>2. k = n \/ (k >= 1 /\ mem[p + k - 1] = 0)
    BY <1>1, <1>2
  <2> QED
    BY <1>2, <1>6, <2>1, <2>2 DEF UpTo
<1>8. memccpy(mem, q, p, 0, n) = CopiedAnswer(mem, q, p, 0, k)
  BY <1>1, <1>2, <1>4, <1>5, <1>7, MemccpyCopies
<1>9. CASE Size(p) <= n
  <2>1. k >= 1 /\ mem[p + k - 1] = 0 /\ q + k = q + Size(p)
    BY <1>1, <1>3, <1>9
  <2> QED
    BY <1>8, <1>9, <2>1 DEF CopiedAnswer, k
<1>10. CASE ~(Size(p) <= n)
  <2>1. ~(k >= 1 /\ mem[p + k - 1] = 0)
    BY <1>1, <1>2, <1>6, <1>10
  <2> QED
    BY <1>8, <1>10, <2>1 DEF CopiedAnswer, k
<1> QED
  BY <1>9, <1>10

\* strcpy(), behind a string too...
LEMMA StrcpyCopies ==
  ASSUME mem \in Memories, NEW p \in Str, NEW q \in Nat \ {0},
         Room(q, Size(p)), Apart(p, Size(p), q, Size(p))
  PROVE  strcpy(mem, q, p) = Copied(mem, q, p, Size(p))
<1>1. Turns(mem) = CELLS /\ CELLS \in Nat /\ Shorter(CELLS, Size(p)) = Size(p)
  BY StringFacts, TurnsFacts DEF Shorter
<1>2. memccpy(mem, q, p, 0, CELLS).mem = Copied(mem, q, p, Size(p))
  BY <1>1, StringCopied
<1> QED
  BY <1>1, <1>2 DEF strcpy

\* ... puts the string and its '\0' (string.c:367-378).
LEMMA StrcpyPuts ==
  ASSUME mem \in Memories, NEW p \in Str, NEW q \in Cells,
         Room(q, Size(p)), Apart(p, Size(p), q, Size(p))
  PROVE  strcpy(mem, q, p) = Put(mem, q, Whole(p))
<1>1. p \in Nat \ {0} /\ q \in Nat \ {0} /\ Size(p) \in Nat /\ Room(p, Size(p))
  BY StringFacts DEF Cells, Room
<1>2. Put(mem, q, Whole(p)) = Copied(mem, q, p, Size(p))
  <2>1. Whole(p) = SubSeq(mem, p, p + Size(p) - 1)
    BY DEF Whole, Bytes
  <2>2. Put(mem, q, SubSeq(mem, p, p + Size(p) - 1)) =
          [a \in Cells |-> IF a \in q .. q + Size(p) - 1 THEN mem[p + (a - q)] ELSE mem[a]]
    <3> DEFINE l == Size(p)
    <3>1. l \in Nat /\ Room(p, l)
      BY <1>1
    <3> HIDE DEF l
    <3>2. Put(mem, q, SubSeq(mem, p, p + l - 1)) =
          [a \in Cells |-> IF a \in q .. q + l - 1 THEN mem[p + (a - q)] ELSE mem[a]]
      BY <1>1, <3>1, PutFacts
    <3> QED
      BY <3>2 DEF l
  <2> QED
    BY <2>1, <2>2 DEF Copied
<1> QED
  BY <1>1, <1>2, StrcpyCopies

\* strncpy() fills what is left of its n cells with '\0' (string.c:496-513).
LEMMA StrncpyPuts ==
  ASSUME mem \in Memories, NEW p \in Str, NEW q \in Cells, NEW n \in Nat,
         Room(q, n), Apart(p, Size(p), q, n)
  PROVE  strncpy(mem, df, q, p, n) = Put(mem, q, [i \in 1 .. n |-> IF i < Size(p) THEN Text(p)[i] ELSE 0])
<1> DEFINE k == Size(p)
           t == [i \in 1 .. n |-> IF i < k THEN Text(p)[i] ELSE 0]
<1>1. /\ p \in Nat \ {0} /\ CELLS \in Nat /\ k \in Nat \ {0} /\ p + k - 1 <= CELLS
      /\ mem[p + k - 1] = 0
      /\ \A i \in 1 .. k - 1 : Text(p)[i] = mem[p + i - 1]
      /\ q \in Nat \ {0} /\ 0 \in Char
  BY StringFacts, LibraryAssumption DEF Cells
<1>2. strncpy(mem, df, q, p, n) =
        LET r == memccpy(mem, q, p, 0, n)
        IN  IF r.ret = NULL THEN r.mem ELSE memset(r.mem, df, r.ret, 0, n - (r.ret - q))
  BY DEF strncpy
<1>3. /\ Len(t) = n
      /\ \A i \in 1 .. n : t[i] = IF i < k THEN mem[p + i - 1] ELSE 0
  BY <1>1
<1> HIDE DEF k, t
<1>4. Put(mem, q, t) = [a \in Cells |-> IF a \in q .. q + n - 1
                                          THEN (IF a - q + 1 < k THEN mem[p + (a - q)] ELSE 0) ELSE mem[a]]
  <2>1. ASSUME NEW a \in q .. q + n - 1
        PROVE  t[a - q + 1] = IF a - q + 1 < k THEN mem[p + (a - q)] ELSE 0
    <3>1. a - q + 1 \in 1 .. n /\ p + (a - q + 1) - 1 = p + (a - q)
      BY <1>1
    <3> QED
      BY <1>3, <3>1
  <2> QED
    BY <1>3, <2>1 DEF Put
<1>5. CASE k <= n
  <2>1. Room(q, k) /\ Apart(p, k, q, k) /\ Shorter(n, k) = k /\ Room(p, k)
    BY <1>1, <1>5 DEF Room, Apart, Shorter, k
  <2>2. memccpy(mem, q, p, 0, n) = [mem |-> Copied(mem, q, p, k), ret |-> q + k]
    <3>1. /\ Room(q, Shorter(n, Size(p))) /\ Apart(p, Shorter(n, Size(p)), q, Shorter(n, Size(p)))
          /\ Shorter(n, Size(p)) = k /\ Size(p) = k
      BY <2>1 DEF k
    <3>2. memccpy(mem, q, p, 0, n) =
            [mem |-> Copied(mem, q, p, k), ret |-> IF k <= n THEN q + k ELSE NULL]
      BY <1>1, <3>1, StringCopied
    <3> QED
      BY <1>5, <3>2
  <2>3. q + k # NULL /\ q + k \in Nat \ {0} /\ n - (q + k - q) = n - k /\ n - k \in Nat
    BY <1>1, <1>5 DEF NULL
  <2> DEFINE w == Copied(mem, q, p, k)
  <2>4. strncpy(mem, df, q, p, n) = memset(w, df, q + k, 0, n - k)
    <3> DEFINE r == memccpy(mem, q, p, 0, n)
    <3>1. r.mem = w /\ r.ret = q + k
      BY <2>2
    <3> HIDE DEF w
    <3>2. strncpy(mem, df, q, p, n) = IF r.ret = NULL THEN r.mem ELSE memset(r.mem, df, r.ret, 0, n - (r.ret - q))
      BY <1>2
    <3> HIDE DEF r
    <3>3. r.ret # NULL /\ n - (r.ret - q) = n - k
      <4>1. r.ret = q + k
        BY <3>1
      <4> DEFINE x == r.ret
      <4> HIDE DEF x
      <4>2. x = q + k
        BY <4>1 DEF x
      <4>3. x # NULL /\ n - (x - q) = n - k
        <5>1. x \in Nat /\ q \in Nat /\ k \in Nat /\ n \in Nat
          BY <1>1, <2>3, <4>2
        <5>2. x - q = k
          BY <4>2, <5>1
        <5> QED
          BY <5>1, <5>2 DEF NULL
      <4> QED
        BY <4>3 DEF x
    <3>4. strncpy(mem, df, q, p, n) = memset(r.mem, df, r.ret, 0, n - (r.ret - q))
      BY <3>2, <3>3
    <3> QED
      BY <3>1, <3>3, <3>4, Zenon
  <2>5. w \in Memories
    BY <1>1, <2>1, CopiedType
  <2>6. \A a \in Cells : w[a] = IF a \in q .. q + k - 1 THEN mem[p + (a - q)] ELSE mem[a]
    BY DEF Copied
  <2> HIDE DEF w
  <2>7. strncpy(mem, df, q, p, n) = Filled(w, q + k, 0, n - k)
    BY <1>1, <2>3, <2>4, <2>5, MemsetFills
  <2>8. ASSUME NEW a \in Cells
        PROVE  (IF a \in q + k .. q + k + (n - k) - 1 THEN 0 ELSE w[a]) =
               IF a \in q .. q + n - 1 THEN (IF a - q + 1 < k THEN mem[p + (a - q)] ELSE 0) ELSE mem[a]
    <3>1. a \in Nat
      BY DEF Cells
    <3>2. CASE a \in q + k .. q + n - 1
      BY <1>1, <1>5, <3>1, <3>2
    <3>3. CASE a = q + k - 1
      <4>1. p + (a - q) = p + k - 1
        BY <1>1, <3>3
      <4> QED
        BY <1>1, <1>5, <2>6, <3>1, <3>3, <4>1
    <3>4. CASE a \in q .. q + k - 2
      BY <1>1, <1>5, <2>6, <3>1, <3>4
    <3>5. CASE a \notin q .. q + n - 1
      BY <1>1, <1>5, <2>6, <3>1, <3>5
    <3> QED
      BY <1>1, <1>5, <3>1, <3>2, <3>3, <3>4, <3>5
  <2> QED
    BY <1>4, <2>7, <2>8 DEF Filled, t, k
<1>6. CASE ~(k <= n)
  <2>1. Apart(p, n, q, n) /\ Shorter(n, k) = n
    BY <1>1, <1>6 DEF Apart, Shorter, k
  <2>2. memccpy(mem, q, p, 0, n) = [mem |-> Copied(mem, q, p, n), ret |-> NULL]
    <3>1. /\ Room(q, Shorter(n, Size(p))) /\ Apart(p, Shorter(n, Size(p)), q, Shorter(n, Size(p)))
          /\ Shorter(n, Size(p)) = n /\ Size(p) = k
      BY <2>1 DEF k
    <3>2. memccpy(mem, q, p, 0, n) =
            [mem |-> Copied(mem, q, p, n), ret |-> IF k <= n THEN q + k ELSE NULL]
      BY <1>1, <3>1, StringCopied
    <3> QED
      BY <1>6, <3>2
  <2>3. strncpy(mem, df, q, p, n) = Copied(mem, q, p, n)
    BY <1>2, <2>2
  <2>4. ASSUME NEW a \in Cells, a \in q .. q + n - 1
        PROVE  a - q + 1 < k
    BY <1>1, <1>6, <2>4
  <2> QED
    BY <1>4, <2>3, <2>4 DEF Copied, t, k
<1> QED
  BY <1>5, <1>6

\* The memory with c characters of the string at p, and a '\0', at z.
Ended(z, p, c) ==
  [a \in Cells |-> IF a \in z .. z + c - 1 THEN mem[p + (a - z)] ELSE IF a = z + c THEN 0 ELSE mem[a]]

\* Two texts put one behind the other.
LEMMA JoinPuts ==
  ASSUME mem \in Memories, NEW q \in Str, NEW p \in Str, NEW c \in Nat, c <= Len(Text(p))
  PROVE  /\ Put(mem, q, Append(Text(q) \o Upto(Text(p), c), 0)) = Ended(q + Size(q) - 1, p, c)
         /\ Len(Text(q) \o Upto(Text(p), c)) = Size(q) - 1 + c
<1> DEFINE s == Text(q)
           t == Upto(Text(p), c)
           b == Size(q) - 1
           st == s \o t
           u == Append(st, 0)
<1>1. /\ q \in Nat \ {0} /\ b \in Nat /\ s \in Seq(Char) /\ Len(s) = b
      /\ \A i \in 1 .. b : s[i] = mem[q + i - 1]
      /\ q + Size(q) - 1 = q + b
  BY StringFacts
<1>2. /\ p \in Nat \ {0} /\ Text(p) \in Seq(Char) /\ Len(Text(p)) = Size(p) - 1
      /\ Size(p) \in Nat \ {0}
      /\ \A i \in 1 .. Size(p) - 1 : Text(p)[i] = mem[p + i - 1]
  BY StringFacts
<1>3. t \in Seq(Char) /\ Len(t) = c /\ \A i \in 1 .. c : t[i] = mem[p + i - 1]
  <2>1. t \in Seq(Char) /\ Len(t) = c /\ \A i \in 1 .. Len(t) : t[i] = Text(p)[i]
    BY <1>2, UptoFacts
  <2>2. \A i \in 1 .. c : i \in 1 .. Size(p) - 1
    BY <1>2
  <2> HIDE DEF t
  <2> QED
    BY <1>2, <2>1, <2>2
<1> HIDE DEF s, t, b
<1>4. /\ st \in Seq(Char) /\ Len(st) = b + c
      /\ \A i \in 1 .. b + c : st[i] = IF i <= b THEN s[i] ELSE t[i - b]
  <2>1. /\ st \in Seq(Char) /\ Len(st) = Len(s) + Len(t)
        /\ \A i \in 1 .. Len(s) + Len(t) : st[i] = IF i <= Len(s) THEN s[i] ELSE t[i - Len(s)]
    <3>1. s \in Seq(Char) /\ t \in Seq(Char)
      BY <1>1, <1>3
    <3> QED
      BY <3>1, ConcatProperties
  <2> HIDE DEF st
  <2> QED
    BY <1>1, <1>3, <2>1
<1> HIDE DEF st
<1>5. /\ Len(u) = b + c + 1
      /\ \A i \in 1 .. b + c : u[i] = st[i]
      /\ u[b + c + 1] = 0
  <2>1. 0 \in Char
    BY LibraryAssumption
  <2> QED
    BY <1>1, <1>4, <2>1, AppendProperties
<1> HIDE DEF u
<1>6. Put(mem, q, u) = Ended(q + b, p, c)
  <2>1. ASSUME NEW a \in Cells
        PROVE  (IF a \in q .. q + (b + c + 1) - 1 THEN u[a - q + 1] ELSE mem[a]) =
               IF a \in q + b .. q + b + c - 1 THEN mem[p + (a - (q + b))]
                 ELSE IF a = q + b + c THEN 0 ELSE mem[a]
    <3>1. a \in Nat
      BY DEF Cells
    <3>2. CASE a \in q .. q + b - 1
      <4>1. a - q + 1 \in 1 .. b + c /\ a - q + 1 <= b /\ a - q + 1 \in 1 .. b /\ q + (a - q + 1) - 1 = a
        BY <1>1, <3>1, <3>2
      <4>2. u[a - q + 1] = mem[a]
        BY <1>1, <1>4, <1>5, <4>1
      <4> QED
        BY <1>1, <3>1, <3>2, <4>2
    <3>3. CASE a \in q + b .. q + b + c - 1
      <4> DEFINE x == a - q + 1
      <4>1. /\ x \in 1 .. b + c /\ ~(x <= b) /\ x - b \in 1 .. c
            /\ p + (x - b) - 1 = p + (a - (q + b))
        BY <1>1, <1>2, <3>1, <3>3
      <4> HIDE DEF x
      <4>2. u[x] = t[x - b]
        BY <1>4, <1>5, <4>1
      <4>3. t[x - b] = mem[p + (a - (q + b))]
        BY <1>3, <4>1
      <4>4. u[a - q + 1] = mem[p + (a - (q + b))]
        BY <4>2, <4>3 DEF x
      <4> QED
        BY <1>1, <3>1, <3>3, <4>4
    <3>4. CASE a = q + b + c
      <4>1. a - q + 1 = b + c + 1
        BY <1>1, <3>4
      <4> QED
        BY <1>1, <1>5, <3>4, <4>1
    <3>5. CASE a \notin q .. q + b + c
      BY <1>1, <3>1, <3>5
    <3> QED
      BY <1>1, <3>1, <3>2, <3>3, <3>4, <3>5
  <2> QED
    BY <1>5, <2>1 DEF Put, Ended
<1> QED
  BY <1>1, <1>4, <1>6 DEF u, st, s, t, b

\* A whole string, its '\0' with it.
LEMMA WholeEnded ==
  ASSUME mem \in Memories, NEW p \in Str, NEW z \in Nat
  PROVE  Copied(mem, z, p, Size(p)) = Ended(z, p, Size(p) - 1)
<1> DEFINE k == Size(p)
<1>1. p \in Nat \ {0} /\ k \in Nat \ {0} /\ mem[p + k - 1] = 0
  BY StringFacts
<1> HIDE DEF k
<1>2. ASSUME NEW a \in Cells
      PROVE  (IF a \in z .. z + k - 1 THEN mem[p + (a - z)] ELSE mem[a]) =
             IF a \in z .. z + (k - 1) - 1 THEN mem[p + (a - z)] ELSE IF a = z + (k - 1) THEN 0 ELSE mem[a]
  <2>1. a \in Nat
    BY DEF Cells
  <2>2. CASE a = z + (k - 1)
    <3>1. p + (a - z) = p + k - 1
      BY <1>1, <2>2
    <3> QED
      BY <1>1, <2>2, <3>1
  <2>3. CASE a # z + (k - 1)
    BY <1>1, <2>1, <2>3
  <2> QED
    BY <2>2, <2>3
<1> QED
  BY <1>2 DEF Copied, Ended, k

\* Where strcat() and strncat() start to write.
LEMMA EndFound ==
  ASSUME mem \in Memories, NEW q \in Str
  PROVE  strchr(mem, q, 0) = q + Size(q) - 1
<1> DEFINE z == q + Size(q) - 1
           H == Holding(q, Size(q), 0)
<1>1. /\ q \in Nat \ {0} /\ Size(q) \in Nat \ {0} /\ mem[z] = 0 /\ q + Size(q) - 2 = z - 1
      /\ \A i \in q .. q + Size(q) - 2 : mem[i] # 0
  BY StringFacts
<1>2. z \in q .. z /\ z \in Nat
  BY <1>1
<1>3. H = {a \in q .. z : mem[a] = 0}
  BY DEF Holding
<1>4. strchr(mem, q, 0) = Least(H)
  BY FirstInString, LibraryAssumption
<1> HIDE DEF z, H
<1>5. H \in SUBSET Nat /\ z \in H /\ \A a \in H : z <= a
  BY <1>1, <1>2, <1>3
<1>6. Least(H) = z
  BY <1>5, MinIs
<1> QED
  BY <1>4, <1>6 DEF z

\* A string that lies apart from all that is at q and behind it ends before q.
LEMMA ApartFacts ==
  ASSUME mem \in Memories, NEW q \in Str, NEW p \in Str, Apart(p, Size(p), q, CELLS),
         NEW k \in Nat, k <= Size(p), NEW c \in Nat,
         q + Size(q) - 1 + c - 1 <= CELLS
  PROVE  /\ p + Size(p) - 1 < q
         /\ Apart(p, k, q + Size(q) - 1, c)
<1>1. /\ p \in Nat \ {0} /\ CELLS \in Nat /\ Size(p) \in Nat \ {0} /\ p + Size(p) - 1 <= CELLS
      /\ q \in Nat \ {0} /\ Size(q) \in Nat \ {0}
  BY StringFacts
<1>2. p + Size(p) - 1 < q
  <2>1. p + Size(p) - 1 \notin q .. q + CELLS - 1
    BY <1>1 DEF Apart
  <2> QED
    BY <1>1, <2>1
<1>3. Apart(p, k, q + Size(q) - 1, c)
  BY <1>1, <1>2 DEF Apart
<1> QED
  BY <1>2, <1>3

\* strcat() (string.c:297-301).
LEMMA StrcatPuts ==
  ASSUME mem \in Memories, NEW q \in Str, NEW p \in Str, Apart(p, Size(p), q, CELLS),
         Room(q, Len(Text(q) \o Text(p)) + 1)
  PROVE  strcat(mem, q, p) = Put(mem, q, Append(Text(q) \o Text(p), 0))
<1> DEFINE z == q + Size(q) - 1
           l == Len(Text(p))
<1>1. /\ p \in Nat \ {0} /\ CELLS \in Nat /\ Size(p) \in Nat \ {0}
      /\ q \in Nat \ {0} /\ Size(q) \in Nat \ {0} /\ l = Size(p) - 1 /\ l \in Nat
      /\ Text(p) \in Seq(Char)
  BY StringFacts
<1>2. Upto(Text(p), l) = Text(p)
  <2>1. /\ Upto(Text(p), l) \in Seq(Char) /\ Len(Upto(Text(p), l)) = l
        /\ \A i \in 1 .. Len(Upto(Text(p), l)) : Upto(Text(p), l)[i] = Text(p)[i]
    BY <1>1, UptoFacts
  <2> QED
    BY <1>1, <2>1, SeqEqual
<1>3. /\ Put(mem, q, Append(Text(q) \o Text(p), 0)) = Ended(z, p, l)
      /\ Len(Text(q) \o Text(p)) = Size(q) - 1 + l
  <2>1. l <= Len(Text(p)) /\ l \in Nat
    BY <1>1
  <2> HIDE DEF l
  <2>2. /\ Put(mem, q, Append(Text(q) \o Upto(Text(p), l), 0)) = Ended(q + Size(q) - 1, p, l)
        /\ Len(Text(q) \o Upto(Text(p), l)) = Size(q) - 1 + l
    BY <2>1, JoinPuts
  <2> QED
    BY <1>2, <2>2
<1> HIDE DEF l
<1>4. z \in Nat \ {0} /\ z + Size(p) - 1 <= CELLS
  <2>1. q + (Size(q) - 1 + l + 1) - 1 <= CELLS
    <3> DEFINE n == Len(Text(q) \o Text(p))
    <3>1. q + (n + 1) - 1 <= CELLS /\ n = Size(q) - 1 + l
      BY <1>3 DEF Room
    <3> HIDE DEF n
    <3> QED
      BY <3>1
  <2> DEFINE sp == Size(p)
             sq == Size(q)
  <2>2. sp \in Nat \ {0} /\ sq \in Nat \ {0} /\ l = sp - 1 /\ q \in Nat \ {0} /\ CELLS \in Nat
        /\ q + (sq - 1 + l + 1) - 1 <= CELLS
    BY <1>1, <2>1
  <2> HIDE DEF sp, sq
  <2>3. q + sq - 1 \in Nat \ {0} /\ (q + sq - 1) + sp - 1 <= CELLS
    BY <2>2
  <2> QED
    BY <2>3 DEF sp, sq
<1>5. Room(z, Size(p)) /\ Apart(p, Size(p), z, Size(p))
  <2>1. Size(p) <= Size(p) /\ Size(p) \in Nat
    BY <1>1
  <2> QED
    BY <1>4, <2>1, ApartFacts DEF Room
<1>6. strcat(mem, q, p) = strcpy(mem, z, p)
  BY EndFound DEF strcat
<1>7. strcpy(mem, z, p) = Copied(mem, z, p, Size(p))
  <2> HIDE DEF z
  <2> QED
    BY <1>4, <1>5, StrcpyCopies
<1>8. Copied(mem, z, p, Size(p)) = Ended(z, p, Size(p) - 1)
  <2> HIDE DEF z
  <2> QED
    BY <1>4, WholeEnded
<1> QED
  BY <1>1, <1>3, <1>6, <1>7, <1>8

\* One more cell copied, and one more cell set.
LEMMA CopyStep ==
  ASSUME mem \in Memories, NEW z \in Nat, NEW p \in Nat, NEW x \in Nat
  PROVE  /\ [Copied(mem, z, p, x) EXCEPT ![z + x] = mem[p + x]] = Copied(mem, z, p, x + 1)
         /\ [Copied(mem, z, p, x) EXCEPT ![z + x] = 0] = Ended(z, p, x)
<1> DEFINE w == Copied(mem, z, p, x)
<1>1. \A a \in Cells : w[a] = IF a \in z .. z + x - 1 THEN mem[p + (a - z)] ELSE mem[a]
  BY DEF Copied
<1>2. w = [a \in Cells |-> w[a]]
  BY DEF Copied
<1> HIDE DEF w
<1>3. ASSUME NEW v
      PROVE  [w EXCEPT ![z + x] = v] = [a \in Cells |-> IF a = z + x THEN v ELSE w[a]]
  BY <1>2
<1>4. ASSUME NEW a \in Cells
      PROVE  (IF a = z + x THEN mem[p + x] ELSE w[a]) =
             IF a \in z .. z + (x + 1) - 1 THEN mem[p + (a - z)] ELSE mem[a]
  <2>1. a \in Nat
    BY DEF Cells
  <2>2. CASE a = z + x
    <3>1. p + (a - z) = p + x
      BY <2>2
    <3> QED
      BY <2>2, <3>1
  <2>3. CASE a # z + x
    BY <1>1, <2>1, <2>3
  <2> QED
    BY <2>2, <2>3
<1>5. ASSUME NEW a \in Cells
      PROVE  (IF a = z + x THEN 0 ELSE w[a]) =
             IF a \in z .. z + x - 1 THEN mem[p + (a - z)] ELSE IF a = z + x THEN 0 ELSE mem[a]
  BY <1>1 DEF Cells
<1>6. [w EXCEPT ![z + x] = mem[p + x]] = Copied(mem, z, p, x + 1)
  BY <1>3, <1>4 DEF Copied
<1>7. [w EXCEPT ![z + x] = 0] = Ended(z, p, x)
  BY <1>3, <1>5 DEF Ended
<1> QED
  BY <1>6, <1>7 DEF w

\* The lesser of two numbers, again.
LEMMA ShorterFacts ==
  ASSUME NEW n \in Nat, NEW l \in Nat
  PROVE  /\ Shorter(n, l) \in Nat /\ Shorter(n, l) <= n /\ Shorter(n, l) <= l
         /\ n <= l => Shorter(n, l) = n
         /\ l <= n => Shorter(n, l) = l
BY DEF Shorter

\* The first n characters are no more than there are.
LEMMA UptoShorter ==
  ASSUME NEW S, NEW t \in Seq(S), NEW n \in Nat
  PROVE  Upto(t, n) = Upto(t, Shorter(n, Len(t))) /\ Upto(t, Len(t)) = t
<1> DEFINE l == Len(t)
<1>1. l \in Nat
  BY LenProperties
<1> HIDE DEF l
<1>2. ASSUME NEW m \in Nat
      PROVE  Upto(t, m) = SubSeq(t, 1, Shorter(m, l))
  BY <1>1, MinOfTwo DEF Upto, Shorter, l
<1>3. Shorter(n, l) \in Nat /\ Shorter(Shorter(n, l), l) = Shorter(n, l)
  BY <1>1 DEF Shorter
<1>4. Upto(t, n) = Upto(t, Shorter(n, l))
  BY <1>2, <1>3
<1>5. /\ Upto(t, l) \in Seq(S) /\ Len(Upto(t, l)) = l
      /\ \A i \in 1 .. Len(Upto(t, l)) : Upto(t, l)[i] = t[i]
  BY <1>1, UptoFacts DEF l
<1>6. Upto(t, l) = t
  BY <1>5, SeqEqual DEF l
<1> QED
  BY <1>4, <1>6 DEF l

\* What is kept of two sequences, one behind the other, when all of the first is.
LEMMA UptoConcat ==
  ASSUME NEW S, NEW s \in Seq(S), NEW t \in Seq(S), NEW n \in Nat
  PROVE  Upto(s \o t, Len(s) + n) = s \o Upto(t, n)
<1> DEFINE a == Len(s)
           b == Len(t)
           k == Shorter(n, b)
           st == s \o t
           u == Upto(st, a + n)
           v == Upto(t, n)
           w == s \o v
<1>1. a \in Nat /\ b \in Nat /\ k \in Nat /\ k <= b /\ k <= n /\ (k = n \/ k = b)
  BY LenProperties DEF Shorter
<1>2. v \in Seq(S) /\ Len(v) = k /\ \A i \in 1 .. k : v[i] = t[i]
  BY UptoFacts DEF Shorter
<1>3. st \in Seq(S) /\ Len(st) = a + b /\ \A i \in 1 .. a + b : st[i] = IF i <= a THEN s[i] ELSE t[i - a]
  BY ConcatProperties
<1> HIDE DEF a, b, k, st, v
<1>4. /\ u \in Seq(S) /\ Len(u) = (IF a + n <= a + b THEN a + n ELSE a + b)
      /\ \A i \in 1 .. Len(u) : u[i] = st[i]
  <2>1. a + n \in Nat
    BY <1>1
  <2> QED
    BY <1>3, <2>1, UptoFacts
<1>5. Len(u) = a + k
  BY <1>1, <1>4 DEF k, Shorter
<1>6. w \in Seq(S) /\ Len(w) = a + k /\ \A i \in 1 .. a + k : w[i] = IF i <= a THEN s[i] ELSE v[i - a]
  <2>1. w \in Seq(S) /\ Len(w) = Len(s) + Len(v)
        /\ \A i \in 1 .. Len(s) + Len(v) : w[i] = IF i <= Len(s) THEN s[i] ELSE v[i - Len(s)]
    BY <1>2, ConcatProperties
  <2> HIDE DEF w
  <2> QED
    BY <1>2, <2>1 DEF a
<1> HIDE DEF u, w
<1>7. ASSUME NEW i \in 1 .. a + k
      PROVE  u[i] = w[i]
  <2>1. u[i] = IF i <= a THEN s[i] ELSE t[i - a]
    <3>1. i \in 1 .. Len(u) /\ i \in 1 .. a + b
      BY <1>1, <1>5
    <3> QED
      BY <1>3, <1>4, <3>1
  <2>2. ~(i <= a) => v[i - a] = t[i - a]
    <3>1. ~(i <= a) => i - a \in 1 .. k
      BY <1>1
    <3> QED
      BY <1>2, <3>1
  <2> QED
    BY <1>6, <2>1, <2>2
<1>8. u = w
  BY <1>4, <1>5, <1>6, <1>7, SeqEqual
<1> QED
  BY <1>8 DEF u, w, v, st, a

\* strncat() (string.c:424-438).
LEMMA StrncatPuts ==
  ASSUME mem \in Memories, NEW q \in Str, NEW p \in Str, Apart(p, Size(p), q, CELLS), NEW n \in Nat,
         Room(q, Len(Text(q) \o Upto(Text(p), n)) + 1)
  PROVE  strncat(mem, q, p, n) = Put(mem, q, Append(Text(q) \o Upto(Text(p), n), 0))
<1> DEFINE sp == Size(p)
           sq == Size(q)
           z == q + sq - 1
           c == Shorter(n, sp - 1)
           k == Shorter(n, sp)
<1>1. /\ p \in Nat \ {0} /\ CELLS \in Nat /\ sp \in Nat \ {0}
      /\ q \in Nat \ {0} /\ sq \in Nat \ {0} /\ Len(Text(p)) = sp - 1
      /\ Text(p) \in Seq(Char)
  BY StringFacts
<1>2. /\ Put(mem, q, Append(Text(q) \o Upto(Text(p), n), 0)) = Ended(z, p, c)
      /\ Len(Text(q) \o Upto(Text(p), n)) = sq - 1 + c
  <2>1. Upto(Text(p), n) = Upto(Text(p), c)
    BY <1>1, UptoShorter
  <2>2. c \in Nat /\ c <= Len(Text(p))
    BY <1>1, ShorterFacts
  <2> HIDE DEF c
  <2>3. /\ Put(mem, q, Append(Text(q) \o Upto(Text(p), c), 0)) = Ended(q + Size(q) - 1, p, c)
        /\ Len(Text(q) \o Upto(Text(p), c)) = Size(q) - 1 + c
    BY <2>2, JoinPuts
  <2> QED
    BY <2>1, <2>3
<1>3. q + (sq - 1 + c + 1) - 1 <= CELLS
  <2> DEFINE m == Len(Text(q) \o Upto(Text(p), n))
  <2>1. q + (m + 1) - 1 <= CELLS /\ m = sq - 1 + c
    BY <1>2 DEF Room
  <2> HIDE DEF m, c, sq
  <2> QED
    BY <2>1
<1>4. strncat(mem, q, p, n) = strncat_at(mem, z, p, n)
  BY EndFound DEF strncat
<1>5. /\ c \in Nat /\ k \in Nat /\ k <= sp
      /\ IF sp <= n THEN c = sp - 1 /\ k = sp ELSE c = n /\ k = n
  BY <1>1 DEF Shorter
<1> HIDE DEF c, k
<1>6. Apart(p, k, z, k) /\ Room(z, k) /\ z \in Nat \ {0}
  <2>1. z + k - 1 <= CELLS /\ z \in Nat \ {0}
    <3> HIDE DEF sp, sq
    <3> QED
      BY <1>1, <1>3, <1>5
  <2>2. Size(q) = sq /\ q + Size(q) - 1 + k - 1 <= CELLS /\ k <= Size(p)
    BY <1>5, <2>1
  <2> QED
    BY <1>5, <2>1, <2>2, ApartFacts DEF Room
<1> HIDE DEF z
<1>7. memccpy(mem, z, p, 0, n) = [mem |-> Copied(mem, z, p, k), ret |-> IF sp <= n THEN z + sp ELSE NULL]
  BY <1>6, StringCopied DEF k
<1>8. strncat_at(mem, z, p, n) =
        LET r == memccpy(mem, z, p, 0, n)
        IN  IF r.ret = NULL THEN [r.mem EXCEPT ![z + n] = 0] ELSE r.mem
  BY DEF strncat_at
<1>9. CASE sp <= n
  <2>1. z + sp # NULL
    <3> HIDE DEF sp
    <3> QED
      BY <1>1, <1>6 DEF NULL
  <2>2. strncat_at(mem, z, p, n) = Copied(mem, z, p, k)
    BY <1>7, <1>8, <1>9, <2>1
  <2>3. Copied(mem, z, p, k) = Ended(z, p, c)
    BY <1>5, <1>6, <1>9, WholeEnded
  <2> QED
    BY <1>2, <1>4, <2>2, <2>3
<1>10. CASE ~(sp <= n)
  <2>1. strncat_at(mem, z, p, n) = [Copied(mem, z, p, k) EXCEPT ![z + n] = 0]
    BY <1>7, <1>8, <1>10
  <2>2. k = n /\ c = n
    BY <1>5, <1>10
  <2>3. [Copied(mem, z, p, n) EXCEPT ![z + n] = 0] = Ended(z, p, n)
    BY <1>1, <1>6, CopyStep
  <2> QED
    BY <1>2, <1>4, <2>1, <2>2, <2>3
<1> QED
  BY <1>9, <1>10

\* strlcat_at() when it has read i characters and written c.
Catenating(z, p, b, i, c) == [mem |-> Copied(mem, z, p, c), q |-> z + c, p |-> p + i, bytes |-> b + i]

\* One turn of it: r characters fit.
CatTurn(w, size) ==
  IF w.mem[w.p] = 0 THEN w
  ELSE IF strlcat_fits(w.bytes, size)
         THEN [mem |-> [w.mem EXCEPT ![w.q] = w.mem[w.p]],
               q |-> w.q + 1, p |-> w.p + 1, bytes |-> w.bytes + 1]
         ELSE [w EXCEPT !.p = @ + 1, !.bytes = @ + 1]

\* Each turn reads one character, and writes it while it fits.
LEMMA CatStep ==
  ASSUME mem \in Memories, NEW p \in Str, NEW z \in Nat, p + Size(p) - 1 < z, z <= CELLS,
         NEW b \in Nat, NEW r \in Nat, NEW i \in Nat, i < Size(p)
  PROVE  CatTurn(Catenating(z, p, b, i, Shorter(i, r)), b + r + 1) =
           IF i < Size(p) - 1 THEN Catenating(z, p, b, i + 1, Shorter(i + 1, r))
                              ELSE Catenating(z, p, b, i, Shorter(i, r))
<1> DEFINE c == Shorter(i, r)
           w == Catenating(z, p, b, i, c)
           sp == Size(p)
<1>1. /\ p \in Nat \ {0} /\ CELLS \in Nat /\ sp \in Nat \ {0} /\ p + sp - 1 <= CELLS
      /\ mem[p + sp - 1] = 0 /\ \A a \in p .. p + sp - 2 : mem[a] # 0
  BY StringFacts
<1>2. c \in Nat /\ c <= i /\ c <= r /\ (IF i <= r THEN c = i ELSE c = r)
  BY DEF Shorter
<1>3. w.mem = Copied(mem, z, p, c) /\ w.q = z + c /\ w.p = p + i /\ w.bytes = b + i
  BY DEF Catenating
<1> HIDE DEF c, sp
<1>4. Copied(mem, z, p, c)[p + i] = mem[p + i]
  <2>1. p + i \in Cells /\ p + i \notin z .. z + c - 1
    BY <1>1, <1>2 DEF Cells, sp
  <2> QED
    BY <2>1 DEF Copied
<1>5. CASE i < sp - 1
  <2>1. mem[p + i] # 0
    <3>1. p + i \in p .. p + sp - 2
      BY <1>1, <1>5
    <3> QED
      BY <1>1, <3>1
  <2>2. CASE i < r
    <3>1. strlcat_fits(w.bytes, b + r + 1)
      <4>1. b + i + 1 < b + r + 1
        BY <2>2
      <4> QED
        BY <1>3, <4>1 DEF strlcat_fits
    <3>2. c = i /\ Shorter(i + 1, r) = i + 1
      BY <1>2, <2>2 DEF Shorter
    <3>3. [Copied(mem, z, p, c) EXCEPT ![z + c] = mem[p + i]] = Copied(mem, z, p, i + 1)
      BY <1>1, <3>2, CopyStep
    <3> HIDE DEF w
    <3>4. CatTurn(w, b + r + 1) = [mem |-> [w.mem EXCEPT ![w.q] = w.mem[w.p]],
                                   q |-> w.q + 1, p |-> w.p + 1, bytes |-> w.bytes + 1]
      BY <1>3, <1>4, <2>1, <3>1 DEF CatTurn
    <3>5. CatTurn(w, b + r + 1) = [mem |-> Copied(mem, z, p, i + 1), q |-> z + c + 1, p |-> p + i + 1,
                                   bytes |-> b + i + 1]
      BY <1>3, <1>4, <3>3, <3>4
    <3>6. z + c + 1 = z + (i + 1) /\ p + i + 1 = p + (i + 1) /\ b + i + 1 = b + (i + 1)
      BY <1>1, <3>2
    <3>7. CatTurn(w, b + r + 1) = Catenating(z, p, b, i + 1, i + 1)
      BY <3>5, <3>6 DEF Catenating
    <3> QED
      BY <1>5, <3>2, <3>7 DEF w, c, sp
  <2>3. CASE ~(i < r)
    <3>1. ~strlcat_fits(w.bytes, b + r + 1)
      <4>1. ~(b + i + 1 < b + r + 1)
        BY <2>3
      <4> QED
        BY <1>3, <4>1 DEF strlcat_fits
    <3>2. c = r /\ Shorter(i + 1, r) = r
      BY <1>2, <2>3 DEF Shorter
    <3>3. w = [mem |-> Copied(mem, z, p, c), q |-> z + c, p |-> p + i, bytes |-> b + i]
      BY DEF Catenating
    <3> HIDE DEF w
    <3>4. CatTurn(w, b + r + 1) = [w EXCEPT !.p = @ + 1, !.bytes = @ + 1]
      BY <1>3, <1>4, <2>1, <3>1 DEF CatTurn
    <3>5. CatTurn(w, b + r + 1) = [mem |-> Copied(mem, z, p, c), q |-> z + c, p |-> p + i + 1,
                                   bytes |-> b + i + 1]
      BY <3>3, <3>4
    <3>6. p + i + 1 = p + (i + 1) /\ b + i + 1 = b + (i + 1)
      BY <1>1
    <3>7. CatTurn(w, b + r + 1) = Catenating(z, p, b, i + 1, r)
      BY <3>2, <3>5, <3>6 DEF Catenating
    <3> QED
      BY <1>5, <3>2, <3>7 DEF w, c, sp
  <2> QED
    BY <2>2, <2>3
<1>6. CASE ~(i < sp - 1)
  <2>1. p + i = p + sp - 1
    BY <1>1, <1>6 DEF sp
  <2>2. w.mem[w.p] = 0
    BY <1>1, <1>3, <1>4, <2>1
  <2> HIDE DEF w
  <2>3. CatTurn(w, b + r + 1) = w
    BY <2>2 DEF CatTurn
  <2> QED
    BY <1>6, <2>3 DEF w, c, sp
<1> QED
  BY <1>5, <1>6

\* strlcat() behind the destination's text.
LEMMA StrlcatAt ==
  ASSUME mem \in Memories, NEW p \in Str, NEW z \in Nat, p + Size(p) - 1 < z, z <= CELLS,
         NEW b \in Nat, NEW r \in Nat
  PROVE  strlcat_at(mem, z, p, b, b + r + 1) =
           [mem |-> Ended(z, p, Shorter(Size(p) - 1, r)), ret |-> b + (Size(p) - 1)]
<1> DEFINE l == Size(p) - 1
           n == CELLS
           start == [mem |-> mem, q |-> z, p |-> p, bytes |-> b]
           turn(j, w) == CatTurn(w, b + r + 1)
           E(h) == h = [j \in 0 .. n |-> IF j = 0 THEN start ELSE turn(j, h[j - 1])]
           f == CHOOSE h : E(h)
           state(i) == Catenating(z, p, b, i, Shorter(i, r))
           g == [j \in 0 .. n |-> state(Shorter(j, l))]
<1>0. /\ p \in Nat \ {0} /\ n \in Nat /\ Size(p) \in Nat \ {0} /\ p + Size(p) - 1 <= n /\ l \in Nat /\ l < Size(p)
      /\ l <= n
  BY StringFacts
<1>1. strlcat_at(mem, z, p, b, b + r + 1) = [mem |-> [f[n].mem EXCEPT ![f[n].q] = 0], ret |-> f[n].bytes]
  <2>1. Turns(mem) = n
    BY TurnsFacts
  <2> QED
    BY <2>1 DEF strlcat_at, After, CatTurn
<1> HIDE DEF l, n
<1>2. g[0] = start
  <2>1. Copied(mem, z, p, 0) = mem
    BY DEF Copied, Memories
  <2>2. Shorter(0, l) = 0 /\ Shorter(0, r) = 0 /\ z + 0 = z /\ p + 0 = p /\ b + 0 = b
    BY <1>0 DEF Shorter
  <2>3. g[0] = state(Shorter(0, l))
    BY <1>0
  <2> HIDE DEF g
  <2> QED
    BY <2>1, <2>2, <2>3 DEF Catenating
<1>3. ASSUME NEW j \in 1 .. n
      PROVE  g[j] = turn(j, g[j - 1])
  <2> DEFINE i == Shorter(j - 1, l)
  <2>1. g[j] = state(Shorter(j, l)) /\ g[j - 1] = state(i)
    BY <1>0
  <2>2. i \in Nat /\ i <= l /\ Shorter(j, l) = IF i < l THEN i + 1 ELSE i
    BY <1>0 DEF Shorter
  <2> HIDE DEF g, i
  <2>3. turn(j, state(i)) = IF i < l THEN state(i + 1) ELSE state(i)
    <3>1. i < Size(p)
      BY <1>0, <2>2
    <3> QED
      BY <2>2, <3>1, CatStep DEF l
  <2> HIDE DEF state, turn
  <2> QED
    BY <2>1, <2>2, <2>3
<1>4. E(g)
  <2>1. g = [j \in 0 .. n |-> g[j]]
    OBVIOUS
  <2> HIDE DEF turn, start, g
  <2>2. \A j \in 0 .. n : g[j] = IF j = 0 THEN start ELSE turn(j, g[j - 1])
    BY <1>0, <1>2, <1>3
  <2>3. g = [j \in 0 .. n |-> IF j = 0 THEN start ELSE turn(j, g[j - 1])]
    BY <2>1, <2>2
  <2> QED
    BY <2>3
<1>5. E(f)
  <2> HIDE DEF turn, start, g
  <2> QED
    BY <1>4
<1>6. f[0] = g[0] /\ \A j \in 1 .. n : f[j - 1] = g[j - 1] => f[j] = g[j]
  <2> HIDE DEF turn, start, g, f
  <2> QED
    BY <1>0, <1>4, <1>5
<1>7. g[n] = state(l)
  <2>1. Shorter(n, l) = l /\ n \in 0 .. n
    BY <1>0 DEF Shorter
  <2> HIDE DEF state
  <2> QED
    BY <2>1
<1> HIDE DEF f, E, g
<1>8. f[n] = g[n]
  BY <1>0, <1>6, SameLoop
<1> DEFINE c == Shorter(l, r)
<1>9. f[n].mem = Copied(mem, z, p, c) /\ f[n].q = z + c /\ f[n].bytes = b + l
  BY <1>7, <1>8 DEF Catenating
<1>10. c \in Nat
  BY <1>0, ShorterFacts
<1> HIDE DEF c
<1>11. [Copied(mem, z, p, c) EXCEPT ![z + c] = 0] = Ended(z, p, c)
  BY <1>0, <1>10, CopyStep
<1> QED
  BY <1>1, <1>9, <1>11 DEF c, l

\* strlcat() (string.c:445-468).
LEMMA StrlcatPuts ==
  ASSUME mem \in Memories, NEW q \in Str, NEW p \in Str, Apart(p, Size(p), q, CELLS), NEW n \in Nat,
         Room(q, n)
  PROVE  strlcat(mem, q, p, n) =
           LET both == Text(q) \o Text(p)
           IN  IF Size(q) > n
                 THEN [mem |-> mem, ret |-> n + Len(Text(p))]
                 ELSE [mem |-> Put(mem, q, Append(Upto(both, n - 1), 0)), ret |-> Len(both)]
<1> DEFINE sp == Size(p)
           sq == Size(q)
           both == Text(q) \o Text(p)
<1>1. /\ p \in Nat \ {0} /\ CELLS \in Nat /\ sp \in Nat \ {0}
      /\ q \in Nat \ {0} /\ sq \in Nat \ {0} /\ Len(Text(p)) = sp - 1 /\ Len(Text(q)) = sq - 1
      /\ Text(p) \in Seq(Char) /\ Text(q) \in Seq(Char) /\ q + sq - 1 <= CELLS
  BY StringFacts
<1>2. strlen(mem, p) = sp - 1 /\ strnlen(mem, q, n) = IF n <= sq - 1 THEN n ELSE sq - 1
  BY <1>1, LengthFacts
<1> HIDE DEF sp, sq
<1>3. CASE sq > n
  <2>1. n <= sq - 1
    BY <1>1, <1>3
  <2>2. strlcat(mem, q, p, n) = [mem |-> mem, ret |-> n + (sp - 1)]
    BY <1>2, <2>1 DEF strlcat
  <2> QED
    BY <1>1, <1>3, <2>2 DEF sq
<1>4. CASE ~(sq > n)
  <2> DEFINE b == sq - 1
             r == n - 1 - b
             z == q + b
             c == Shorter(sp - 1, r)
  <2>1. /\ b \in Nat /\ r \in Nat /\ n = b + r + 1 /\ ~(n <= b) /\ b # n /\ z \in Nat /\ z <= CELLS
        /\ n - 1 = b + r /\ z = q + sq - 1
    BY <1>1, <1>4
  <2>2. strnlen(mem, q, n) = b
    BY <1>2, <2>1
  <2> HIDE DEF b, r
  <2>3. strlcat(mem, q, p, n) = strlcat_at(mem, z, p, b, n)
    BY <2>1, <2>2 DEF strlcat
  <2>4. p + Size(p) - 1 < z
    <3>1. p + sp - 1 < q
      <4>1. 0 <= Size(p) /\ 0 \in Nat /\ q + Size(q) - 1 + 0 - 1 <= CELLS
        BY <1>1 DEF sp, sq
      <4>2. p + Size(p) - 1 < q
        BY <4>1, ApartFacts
      <4> QED
        BY <4>2 DEF sp
    <3>2. p + sp - 1 < z
      BY <1>1, <2>1, <3>1
    <3> QED
      BY <3>2 DEF sp
  <2> HIDE DEF z
  <2>5. strlcat_at(mem, z, p, b, b + r + 1) =
           [mem |-> Ended(z, p, Shorter(Size(p) - 1, r)), ret |-> b + (Size(p) - 1)]
    BY <2>1, <2>4, StrlcatAt
  <2>6. strlcat(mem, q, p, n) = [mem |-> Ended(z, p, c), ret |-> b + (sp - 1)]
    BY <2>1, <2>3, <2>5 DEF sp
  <2>7. Upto(both, n - 1) = Text(q) \o Upto(Text(p), r)
    <3>1. Upto(Text(q) \o Text(p), Len(Text(q)) + r) = Text(q) \o Upto(Text(p), r)
      BY <1>1, <2>1, UptoConcat
    <3>2. Len(Text(q)) + r = n - 1
      BY <1>1, <2>1 DEF b
    <3> QED
      BY <3>1, <3>2
  <2>8. Upto(Text(p), r) = Upto(Text(p), c)
    <3>1. Upto(Text(p), r) = Upto(Text(p), Shorter(r, sp - 1))
      BY <1>1, <2>1, UptoShorter
    <3>2. Shorter(r, sp - 1) = c
      BY <1>1, <2>1 DEF Shorter
    <3> QED
      BY <3>1, <3>2
  <2>9. c \in Nat /\ c <= Len(Text(p))
    <3>1. sp - 1 \in Nat /\ r \in Nat
      BY <1>1, <2>1
    <3>2. c \in Nat /\ c <= sp - 1
      BY <3>1, ShorterFacts
    <3> HIDE DEF c
    <3> QED
      BY <1>1, <3>2
  <2> HIDE DEF c
  <2>10. Put(mem, q, Append(Text(q) \o Upto(Text(p), c), 0)) = Ended(z, p, c)
    <3>1. Put(mem, q, Append(Text(q) \o Upto(Text(p), c), 0)) = Ended(q + Size(q) - 1, p, c)
      BY <2>9, JoinPuts
    <3> QED
      BY <2>1, <3>1 DEF sq
  <2>11. Len(both) = b + (sp - 1)
    <3>1. Len(both) = Len(Text(q)) + Len(Text(p))
      BY <1>1, ConcatProperties
    <3> QED
      BY <1>1, <3>1 DEF b
  <2> HIDE DEF both
  <2>12. strlcat(mem, q, p, n) = [mem |-> Put(mem, q, Append(Upto(both, n - 1), 0)), ret |-> Len(both)]
    <3>1. Upto(both, n - 1) = Text(q) \o Upto(Text(p), c)
      BY <2>7, <2>8
    <3>2. Put(mem, q, Append(Upto(both, n - 1), 0)) = Ended(z, p, c)
      BY <2>10, <3>1
    <3> QED
      BY <2>6, <2>11, <3>2
  <2> QED
    BY <1>4, <2>12 DEF both, sq
<1> QED
  BY <1>3, <1>4

\* Stops before the start do not matter.
LEMMA UpSame ==
  ASSUME NEW n \in Nat, NEW a \in Nat, NEW stops1, NEW stops2,
         \A x \in Nat : x >= a => (x \in stops1 <=> x \in stops2)
  PROVE  Up(n, a, stops1) = Up(n, a, stops2)
<1> DEFINE e == Up(n, a, stops1)
<1>1. /\ e \in a .. a + n
      /\ \A i \in a .. e - 1 : i \notin stops1
      /\ e = a + n \/ e \in stops1
  BY UpFacts
<1> HIDE DEF e
<1>2. e \in Nat /\ e >= a
  BY <1>1
<1>3. \A i \in a .. e - 1 : i \notin stops2
  <2>1. \A i \in a .. e - 1 : i \in Nat /\ i >= a
    BY <1>2
  <2> QED
    BY <1>1, <2>1
<1>4. e = a + n \/ e \in stops2
  BY <1>1, <1>2
<1>5. Up(n, a, stops2) = e
  BY <1>1, <1>3, <1>4, UpIs
<1> QED
  BY <1>5 DEF e

\* The memory m is mem from the cell a on.
From(m, a) == m \in Memories /\ \A x \in Cells : x >= a => m[x] = mem[x]

\* A search from there on finds the same.
LEMMA FromFacts ==
  ASSUME mem \in Memories, NEW m, NEW a \in Nat, From(m, a), NEW C
  PROVE  /\ Turns(m) = CELLS /\ Turns(mem) = CELLS /\ DOMAIN m = Cells /\ DOMAIN mem = Cells
         /\ \A x \in Nat : x >= a => (x \in At(m, C) <=> x \in At(mem, C))
<1>1. m \in Memories /\ \A x \in Cells : x >= a => m[x] = mem[x]
  BY DEF From
<1>2. Turns(m) = CELLS /\ Turns(mem) = CELLS /\ DOMAIN m = Cells /\ DOMAIN mem = Cells
  BY <1>1, TurnsFacts
<1> QED
  BY <1>1, <1>2 DEF At

\* The delimiters are not changed.
LEMMA SameMap ==
  ASSUME mem \in Memories, NEW delim \in Str, NEW m, From(m, delim)
  PROVE  matchmap(m, delim) = matchmap(mem, delim)
<1>1. delim \in Nat \ {0} /\ CELLS \in Nat /\ Size(delim) \in Nat \ {0} /\ delim + Size(delim) - 1 <= CELLS
      /\ Len(Text(delim)) = Size(delim) - 1
  BY StringFacts
<1>2. Turns(m) = CELLS /\ Turns(mem) = CELLS
      /\ \A x \in Nat : x >= delim => (x \in At(m, {0}) <=> x \in At(mem, {0}))
  BY <1>1, FromFacts
<1>3. strlen(m, delim) = strlen(mem, delim)
  <2>1. Up(CELLS, delim, At(m, {0})) = Up(CELLS, delim, At(mem, {0}))
    BY <1>1, <1>2, UpSame
  <2> QED
    BY <1>2, <2>1 DEF strlen
<1>4. strlen(mem, delim) = Size(delim) - 1
  BY <1>1, LengthFacts
<1>5. \A a \in delim .. delim + (Size(delim) - 1) - 1 : m[a] = mem[a]
  <2>1. \A a \in delim .. delim + (Size(delim) - 1) - 1 : a \in Cells /\ a >= delim
    BY <1>1 DEF Cells
  <2> QED
    BY <2>1 DEF From
<1> QED
  BY <1>3, <1>4, <1>5 DEF matchmap

\* strsep() has cut off what is before s; what it looks for is as it was.
LEMMA StillFound ==
  ASSUME mem \in Memories, NEW s \in Str, NEW delim \in Str, s <= delim, NEW m, From(m, s)
  PROVE  strpbrk(m, s, delim) = Least(Of(s, matchmap(mem, delim)))
<1> DEFINE S == matchmap(mem, delim)
           z == s + Size(s) - 1
           up(w) == {a \in DOMAIN w : (w[a] \in S \cup {0}) = (1 = 1)}
           e == Up(CELLS, s, up(mem))
<1>1. s \in Nat \ {0} /\ delim \in Nat \ {0} /\ z \in Cells /\ z >= s /\ CELLS \in Nat /\ mem[z] = 0
      /\ z <= CELLS /\ z \in Nat
  <2>1. /\ s \in Nat \ {0} /\ CELLS \in Nat /\ Size(s) \in Nat \ {0}
        /\ z <= CELLS /\ mem[z] = 0
    BY StringFacts
  <2>2. delim \in Nat \ {0}
    BY StringFacts
  <2>3. z \in Nat /\ z >= s /\ z >= 1
    BY <2>1
  <2> QED
    BY <2>1, <2>2, <2>3 DEF Cells
<1>2. matchmap(m, delim) = S
  <2>1. From(m, delim)
    BY <1>1 DEF From, Cells
  <2> QED
    BY <2>1, SameMap
<1>3. Turns(m) = CELLS /\ Turns(mem) = CELLS /\ DOMAIN m = Cells /\ DOMAIN mem = Cells
  BY <1>1, FromFacts
<1>4. strpbrk(m, s, delim) =
        LET ss == s + (Up(CELLS, s, up(m)) - s) IN IF m[ss] # 0 THEN ss ELSE NULL
  BY <1>2, <1>3 DEF strpbrk, strxspn, span
<1>5. strpbrk(mem, s, delim) = LET ss == s + (e - s) IN IF mem[ss] # 0 THEN ss ELSE NULL
  BY <1>3 DEF strpbrk, strxspn, span
<1>6. strpbrk(mem, s, delim) = Least(Of(s, S))
  BY SpanFacts
<1> HIDE DEF S, z
<1>7. \A x \in Nat : x >= s => (x \in up(m) <=> x \in up(mem))
  BY <1>3 DEF From
<1>8. z \in up(mem)
  BY <1>1, <1>3
<1> HIDE DEF up
<1>9. Up(CELLS, s, up(m)) = e
  BY <1>1, <1>7, UpSame
<1>10. e \in s .. s + CELLS /\ (\A i \in s .. e - 1 : i \notin up(mem))
  BY <1>1, UpFacts
<1> HIDE DEF e
<1>11. e <= z
  BY <1>1, <1>8, <1>10
<1>12. e \in Cells /\ e >= s /\ s + (e - s) = e
  BY <1>1, <1>10, <1>11 DEF Cells
<1>13. m[e] = mem[e]
  BY <1>12 DEF From
<1> QED
  <2>1. strpbrk(m, s, delim) = IF m[e] # 0 THEN e ELSE NULL
    BY <1>4, <1>9, <1>12
  <2>2. strpbrk(mem, s, delim) = IF mem[e] # 0 THEN e ELSE NULL
    BY <1>5, <1>12
  <2> QED
    BY <1>6, <1>13, <2>1, <2>2 DEF S

\* What is left of a string is a string.
LEMMA TailString ==
  ASSUME mem \in Memories, NEW p \in Str, NEW i \in 0 .. Size(p) - 1
  PROVE  p + i \in Str /\ Size(p + i) = Size(p) - i
<1> DEFINE x == p + i
           z == p + Size(p) - 1
           Z == {a \in x .. CELLS : mem[a] = 0}
<1>1. /\ p \in Nat \ {0} /\ CELLS \in Nat /\ Size(p) \in Nat \ {0} /\ z <= CELLS
      /\ mem[z] = 0 /\ \A a \in p .. p + Size(p) - 2 : mem[a] # 0
  BY StringFacts
<1>2. x \in Nat \ {0} /\ z \in x .. CELLS /\ z - x + 1 = Size(p) - i /\ z \in Nat
      /\ \A a \in Nat : a >= x /\ a < z => a \in p .. p + Size(p) - 2
  BY <1>1
<1> HIDE DEF x, z
<1>3. Z \in SUBSET Nat /\ z \in Z /\ \A a \in Z : z <= a
  BY <1>1, <1>2
<1>4. Min(Z) = z
  <2> HIDE DEF Z
  <2> QED
    BY <1>3, MinIs
<1>5. x \in Cells
  BY <1>1, <1>2 DEF Cells
<1>6. x \in Str
  BY <1>3, <1>5 DEF Str
<1>7. Size(x) = z - x + 1
  BY <1>4 DEF Size
<1> QED
  BY <1>2, <1>6, <1>7 DEF x

\* A list of tokens, of which the last goes on.
LEMMA GrowLast ==
  ASSUME NEW ts \in Seq(Seq(Char)), NEW u \in Seq(Char), NEW c \in Char
  PROVE  [Append(ts, u) EXCEPT ![Len(Append(ts, u))] = Append(@, c)] = Append(ts, Append(u, c))
<1> DEFINE x == Append(ts, u)
           v == Append(u, c)
           y == Append(ts, v)
           l == Len(ts)
<1>1. v \in Seq(Char) /\ l \in Nat
  BY AppendProperties, LenProperties
<1>2. /\ x \in Seq(Seq(Char)) /\ Len(x) = l + 1
      /\ \A i \in 1 .. l : x[i] = ts[i]
      /\ x[l + 1] = u
  BY AppendProperties
<1> HIDE DEF v
<1>3. /\ y \in Seq(Seq(Char)) /\ Len(y) = l + 1
      /\ \A i \in 1 .. l : y[i] = ts[i]
      /\ y[l + 1] = v
  BY <1>1, AppendProperties
<1> HIDE DEF x, y, l
<1>4. [x EXCEPT ![Len(x)] = Append(@, c)] = [x EXCEPT ![l + 1] = v]
  BY <1>2 DEF v
<1> DEFINE e == [x EXCEPT ![l + 1] = v]
<1>5. /\ e \in Seq(Seq(Char)) /\ Len(e) = Len(x)
      /\ \A j \in 1 .. Len(x) : e[j] = IF j = l + 1 THEN v ELSE x[j]
  <2>1. l + 1 \in 1 .. Len(x)
    BY <1>1, <1>2
  <2> QED
    BY <1>1, <1>2, <2>1, ExceptSeq
<1> HIDE DEF e
<1>6. \A j \in 1 .. l + 1 : e[j] = y[j]
  <2>1. \A j \in 1 .. l + 1 : j = l + 1 \/ j \in 1 .. l
    BY <1>1
  <2> QED
    BY <1>2, <1>3, <1>5, <2>1
<1>7. e = y
  BY <1>2, <1>3, <1>5, <1>6, SeqEqual
<1> QED
  BY <1>4, <1>7 DEF e, x, y, v

\* One more character of a text.
LEMMA SliceGrows ==
  ASSUME NEW t \in Seq(Char), NEW a \in 1 .. Len(t), NEW b \in a .. Len(t)
  PROVE  SubSeq(t, a, b) = Append(SubSeq(t, a, b - 1), t[b]) /\ SubSeq(t, a, b - 1) \in Seq(Char)
<1>1. Len(t) \in Nat /\ t[b] \in Char
  BY LenProperties
<1>2. SubSeq(t, a, b) = SubSeq(t, a, b - 1) \o <<t[b]>>
  BY SubSeqRecursiveSecond
<1>3. SubSeq(t, a, b - 1) \in Seq(Char)
  <2>1. \A i \in a .. b - 1 : t[i] \in Char
    BY <1>1, LenProperties
  <2>2. a \in Int /\ b - 1 \in Int
    BY <1>1
  <2> QED
    BY <2>1, <2>2, SubSeqProperties
<1> DEFINE s == SubSeq(t, a, b - 1)
<1> HIDE DEF s
<1>4. Append(s, t[b]) = s \o <<t[b]>>
  BY <1>1, <1>3, AppendIsConcat DEF s
<1> QED
  BY <1>2, <1>3, <1>4 DEF s

\* One turn of Tokens().
TokenTurn(c, delimiters, tokens) ==
  IF c \in delimiters THEN Append(tokens, <<>>) ELSE [tokens EXCEPT ![Len(tokens)] = Append(@, c)]

\* h gives the tokens of the first characters of t, however many.
IsTokens(h, t, delimiters) ==
  /\ h[0] = << <<>> >>
  /\ \A i \in 1 .. Len(t) : h[i] = TokenTurn(t[i], delimiters, h[i - 1])

\* The loop that Tokens() is has a value at every turn.
LEMMA TokensLoop ==
  ASSUME NEW t \in Seq(Char), NEW delimiters
  PROVE  \E h : IsTokens(h, t, delimiters) /\ Tokens(t, delimiters) = h[Len(t)]
<1> DEFINE n == Len(t)
           start == << <<>> >>
           turn(i, tokens) == TokenTurn(t[i], delimiters, tokens)
           E(h) == h = [i \in 0 .. n |-> IF i = 0 THEN start ELSE turn(i, h[i - 1])]
           f == CHOOSE h : E(h)
           Good(m, g) == g = [i \in 0 .. m |-> IF i = 0 THEN start ELSE turn(i, g[i - 1])]
           T == {m \in 0 .. n : \E g : Good(m, g)}
<1>1. Tokens(t, delimiters) = f[n]
  BY DEF Tokens, After, TokenTurn
<1>2. n \in Nat
  BY LenProperties
<1> HIDE DEF n, start, turn
<1>3. 0 \in T
  <2> DEFINE g == [i \in 0 .. 0 |-> start]
  <2>1. Good(0, g)
    OBVIOUS
  <2> HIDE DEF g, Good
  <2> QED
    BY <1>2, <2>1
<1>4. ASSUME NEW m \in 0 .. n - 1, m \in T
      PROVE  m + 1 \in T
  <2>1. PICK g : Good(m, g)
    BY <1>4
  <2> DEFINE k == [i \in 0 .. m + 1 |-> IF i = m + 1 THEN turn(m + 1, g[m]) ELSE g[i]]
  <2>2. ASSUME NEW i \in 0 .. m + 1
        PROVE  k[i] = IF i = 0 THEN start ELSE turn(i, k[i - 1])
    <3>1. CASE i = m + 1
      <4>1. k[i] = turn(m + 1, g[m]) /\ k[m] = g[m] /\ i - 1 = m /\ i # 0
        BY <1>2, <3>1
      <4> HIDE DEF k
      <4> QED
        BY <3>1, <4>1
    <3>2. CASE i # m + 1
      <4>1. i \in 0 .. m /\ k[i] = g[i]
        BY <1>2, <3>2
      <4>2. i # 0 => k[i - 1] = g[i - 1]
        BY <1>2, <3>2
      <4>3. g[i] = IF i = 0 THEN start ELSE turn(i, g[i - 1])
        BY <2>1, <4>1
      <4> HIDE DEF k
      <4> QED
        BY <4>1, <4>2, <4>3
    <3> QED
      BY <3>1, <3>2
  <2>3. k = [i \in 0 .. m + 1 |-> k[i]]
    OBVIOUS
  <2> HIDE DEF k
  <2>4. Good(m + 1, k)
    BY <2>2, <2>3
  <2>5. m + 1 \in 0 .. n
    BY <1>2
  <2> HIDE DEF Good
  <2> QED
    BY <2>4, <2>5
<1>5. n \in T
  <2> HIDE DEF T
  <2>1. \A j \in 0 .. n : j \in T
    BY <1>2, <1>3, <1>4, TurnInduction
  <2> QED
    BY <1>2, <2>1
<1>6. PICK g : E(g)
  BY <1>5
<1>7. E(f)
  BY <1>6
<1> HIDE DEF f
<1>8. f[0] = start /\ \A i \in 1 .. n : f[i] = turn(i, f[i - 1])
  BY <1>2, <1>7
<1>9. IsTokens(f, t, delimiters)
  BY <1>8 DEF IsTokens, start, turn, n
<1> QED
  BY <1>1, <1>9 DEF n

NoneOf(t, i, k, delimiters) == \A x \in i + 1 .. k : t[x] \notin delimiters

\* Characters that delimit nothing make the last token longer.
LEMMA TokensGrow ==
  ASSUME NEW t \in Seq(Char), NEW delimiters, NEW h, IsTokens(h, t, delimiters),
         NEW ts \in Seq(Seq(Char)), NEW i \in 0 .. Len(t), NEW k \in i .. Len(t),
         h[i] = Append(ts, <<>>), NoneOf(t, i, k, delimiters)
  PROVE  h[k] = Append(ts, SubSeq(t, i + 1, k))
<1>0. Len(t) \in Nat /\ i \in Nat /\ k \in Nat /\ k - i \in Nat
  BY LenProperties
<1> DEFINE T == {d \in 0 .. k - i : h[i + d] = Append(ts, SubSeq(t, i + 1, i + d))}
<1>1. 0 \in T
  <2>1. SubSeq(t, i + 1, i + 0) = <<>>
    <3>1. i + 1 \in Int /\ i + 0 \in Int /\ i + 0 < i + 1
      BY <1>0
    <3> QED
      BY <3>1, SubSeqEmpty
  <2>2. i + 0 = i /\ 0 \in 0 .. k - i
    BY <1>0
  <2> QED
    BY <2>1, <2>2
<1>2. ASSUME NEW d \in 0 .. k - i - 1, d \in T
      PROVE  d + 1 \in T
  <2> DEFINE b == i + d + 1
             u == SubSeq(t, i + 1, i + d)
  <2>1. /\ b \in i + 1 .. Len(t) /\ i + 1 \in 1 .. Len(t) /\ b \in 1 .. Len(t) /\ b - 1 = i + d
        /\ b \in i + 1 .. k /\ i + (d + 1) = b /\ d + 1 \in 0 .. k - i
    BY <1>0
  <2>2. h[i + d] = Append(ts, u)
    BY <1>2
  <2> HIDE DEF b
  <2>3. SubSeq(t, i + 1, b) = Append(u, t[b]) /\ u \in Seq(Char)
    BY <2>1, SliceGrows
  <2>4. h[b] = TokenTurn(t[b], delimiters, Append(ts, u))
    BY <2>1, <2>2 DEF IsTokens
  <2>5. t[b] \notin delimiters /\ t[b] \in Char
    BY <2>1, LenProperties DEF NoneOf
  <2> HIDE DEF u
  <2>6. h[b] = Append(ts, Append(u, t[b]))
    <3> DEFINE x == Append(ts, u)
    <3>1. [x EXCEPT ![Len(x)] = Append(@, t[b])] = Append(ts, Append(u, t[b]))
      BY <2>3, <2>5, GrowLast
    <3>2. TokenTurn(t[b], delimiters, x) = [x EXCEPT ![Len(x)] = Append(@, t[b])]
      <4> HIDE DEF x
      <4> QED
        BY <2>5 DEF TokenTurn
    <3> HIDE DEF x
    <3> QED
      BY <2>4, <3>1, <3>2 DEF x
  <2>7. h[i + (d + 1)] = Append(ts, SubSeq(t, i + 1, i + (d + 1)))
    BY <2>1, <2>3, <2>6
  <2> QED
    BY <2>1, <2>7
<1> HIDE DEF T
<1>3. \A d \in 0 .. k - i : d \in T
  BY <1>0, <1>1, <1>2, TurnInduction
<1>4. k - i \in T /\ i + (k - i) = k
  BY <1>0, <1>3
<1> QED
  BY <1>4 DEF T

\* The memory m holds at p, from character i to character k, what the strings' memory holds there.
SameHere(m, p, i, k) == \A x \in p + i .. p + k - 1 : m[x] = mem[x]

\* The token that a memory holds is the one that the text has.
LEMMA SameToken ==
  ASSUME mem \in Memories, NEW p \in Str, NEW m \in Memories, NEW i \in Nat, NEW k \in Nat,
         i <= k, k <= Size(p) - 1, SameHere(m, p, i, k)
  PROVE  SubSeq(m, p + i, p + i + (k - i) - 1) = SubSeq(Text(p), i + 1, k)
<1> DEFINE s == SubSeq(m, p + i, p + i + (k - i) - 1)
           t == SubSeq(Text(p), i + 1, k)
           n == k - i
           a == p + i
<1>1. /\ p \in Nat \ {0} /\ CELLS \in Nat /\ Size(p) \in Nat \ {0} /\ p + Size(p) - 1 <= CELLS
      /\ Text(p) \in Seq(Char) /\ Len(Text(p)) = Size(p) - 1
      /\ DOMAIN Text(p) = 1 .. Size(p) - 1
      /\ \A x \in 1 .. Size(p) - 1 : Text(p)[x] = mem[p + x - 1]
  BY StringFacts
<1>2. n \in Nat /\ a \in Nat \ {0} /\ Room(a, n)
  BY <1>1 DEF Room
<1>3. s \in Seq(Char) /\ Len(s) = n /\ \A x \in 1 .. n : s[x] = m[a + x - 1]
  <2> HIDE DEF n, a
  <2>1. /\ SubSeq(m, a, a + n - 1) \in Seq(Char) /\ Len(SubSeq(m, a, a + n - 1)) = n
        /\ \A x \in 1 .. n : SubSeq(m, a, a + n - 1)[x] = m[a + x - 1]
    BY <1>2, SliceFacts
  <2> QED
    BY <2>1 DEF n, a
<1>4. t \in Seq(Char) /\ Len(t) = n /\ \A x \in 1 .. n : t[x] = Text(p)[i + x]
  <2>1. \A x \in i + 1 .. k : Text(p)[x] \in Char
    <3>1. \A x \in i + 1 .. k : x \in 1 .. Len(Text(p))
      BY <1>1
    <3> QED
      BY <1>1, <3>1, LenProperties
  <2>2. i + 1 \in Int /\ k \in Int
    OBVIOUS
  <2>3. /\ t \in Seq(Char) /\ Len(t) = (IF i + 1 <= k THEN k - (i + 1) + 1 ELSE 0)
        /\ \A x \in 1 .. k - (i + 1) + 1 : t[x] = Text(p)[i + 1 + x - 1]
    BY <2>1, <2>2, SubSeqProperties
  <2> HIDE DEF t
  <2>4. k - (i + 1) + 1 = n /\ (~(i + 1 <= k) => n = 0)
    OBVIOUS
  <2>5. \A x \in 1 .. n : i + 1 + x - 1 = i + x
    OBVIOUS
  <2> QED
    BY <2>3, <2>4, <2>5
<1> HIDE DEF s, t
<1>5. ASSUME NEW x \in 1 .. n
      PROVE  s[x] = t[x]
  <2>1. i + x \in 1 .. Size(p) - 1 /\ p + (i + x) - 1 = a + x - 1 /\ a + x - 1 \in p + i .. p + k - 1
    BY <1>1, SMTT(20)
  <2>2. m[a + x - 1] = mem[a + x - 1]
    <3> HIDE DEF a
    <3> QED
      BY <2>1 DEF SameHere
  <2> HIDE DEF n, a
  <2> QED
    BY <1>1, <1>3, <1>4, <2>1, <2>2
<1>6. s = t
  <2> HIDE DEF n
  <2> QED
    BY <1>3, <1>4, <1>5, SeqEqual
<1> QED
  BY <1>6 DEF s, t

\* Where the loop of Separated() is after j turns, h being the tokens of the first
\* characters: behind character i, with a token that starts there; or it is done.
Tokenised(w, p, h, j) ==
  \/ w.next = NULL /\ w.tokens = h[Size(p) - 1]
  \/ \E i \in 0 .. Size(p) - 1 :
       /\ i >= j /\ w.next = p + i /\ From(w.mem, p + i)
       /\ w.tokens \in Seq(Seq(Char)) /\ h[i] = Append(w.tokens, <<>>)

\* One turn of Separated().
SepTurn(delim, w) ==
  LET r == strsep(w.mem, w.next, delim)
  IN  IF w.next = NULL THEN w
      ELSE [mem |-> r.mem, next |-> r.next,
            tokens |-> Append(w.tokens, SubSeq(r.mem, w.next, w.next + strlen(r.mem, w.next) - 1))]

\* The tokens of the whole text.
LEMMA TokensAt ==
  ASSUME NEW t, NEW D, NEW h, IsTokens(h, t, D), NEW x \in 1 .. Len(t)
  PROVE  h[x] = TokenTurn(t[x], D, h[x - 1])
BY DEF IsTokens

\* Each call of strsep() that finds a delimiter cuts the text behind the token.
LEMMA SepStep ==
  ASSUME mem \in Memories, NEW p \in Str, NEW delim \in Str, delim > p + Size(p) - 1,
         NEW h, IsTokens(h, Text(p), matchmap(mem, delim)),
         NEW w, NEW j \in Nat, Tokenised(w, p, h, j)
  PROVE  Tokenised(SepTurn(delim, w), p, h, j + 1)
<1> DEFINE S == matchmap(mem, delim)
           L == Size(p) - 1
           v == SepTurn(delim, w)
<1>1. /\ p \in Nat \ {0} /\ CELLS \in Nat /\ L \in Nat /\ p + L <= CELLS
      /\ mem[p + L] = 0 /\ \A x \in p .. p + L - 1 : mem[x] # 0
      /\ Text(p) \in Seq(Char) /\ Len(Text(p)) = L
      /\ \A x \in 1 .. L : Text(p)[x] = mem[p + x - 1]
      /\ delim \in Nat /\ delim > p + L /\ Size(p) = L + 1
  <2>1. /\ p \in Nat \ {0} /\ CELLS \in Nat /\ Size(p) \in Nat \ {0} /\ p + Size(p) - 1 <= CELLS
        /\ mem[p + Size(p) - 1] = 0 /\ \A x \in p .. p + Size(p) - 2 : mem[x] # 0
        /\ Text(p) \in Seq(Char) /\ Len(Text(p)) = Size(p) - 1
        /\ \A x \in 1 .. Size(p) - 1 : Text(p)[x] = mem[p + x - 1]
        /\ delim \in Nat
    BY StringFacts
  <2>2. p + Size(p) - 1 = p + L /\ p + Size(p) - 2 = p + L - 1 /\ L \in Nat /\ Size(p) = L + 1
    BY <2>1
  <2> QED
    BY <2>1, <2>2
<1>4. IsTokens(h, Text(p), S)
  OBVIOUS
<1>2. CASE w.next = NULL /\ w.tokens = h[L]
  <2>1. v = w
    BY <1>2 DEF SepTurn
  <2> QED
    BY <1>2, <2>1 DEF Tokenised
<1>3. ASSUME NEW i \in 0 .. L, i >= j, w.next = p + i, From(w.mem, p + i),
             w.tokens \in Seq(Seq(Char)), h[i] = Append(w.tokens, <<>>)
      PROVE  Tokenised(v, p, h, j + 1)
  <2> DEFINE s == p + i
             m == w.mem
             O == Of(s, S)
  <2>1. s \in Str /\ Size(s) = Size(p) - i /\ s \in Nat \ {0} /\ s # NULL /\ s <= delim /\ i \in Nat
    <3>1. s \in Nat \ {0} /\ s <= delim /\ i \in Nat
      BY <1>1
    <3> QED
      BY <3>1, TailString DEF NULL
  <2>2. strpbrk(m, s, delim) = Least(O)
    BY <1>3, <2>1, StillFound
  <2>3. O = {a \in s .. s + Size(s) - 2 : mem[a] \in S}
    BY <2>1, OfFacts
  <2>4. s + Size(s) - 2 = p + L - 1
    <3> HIDE DEF L
    <3>1. Size(s) = L + 1 - i
      BY <1>1, <2>1
    <3> QED
      BY <1>1, <2>1, <3>1
  <2>5. m \in Memories /\ DOMAIN m = Cells /\ Turns(m) = CELLS /\ \A x \in Cells : x >= s => m[x] = mem[x]
    BY <1>3, TurnsFacts DEF From
  <2>8. v = LET r == strsep(m, s, delim)
            IN  [mem |-> r.mem, next |-> r.next,
                 tokens |-> Append(w.tokens, SubSeq(r.mem, s, s + strlen(r.mem, s) - 1))]
    BY <1>3, <2>1 DEF SepTurn
  <2>9. s = p + i
    OBVIOUS
  <2> HIDE DEF O, S, L, m, v, s
  <2>6. CASE O = {}
    <3>1. strsep(m, s, delim) = [mem |-> m, ret |-> s, next |-> NULL]
      BY <2>1, <2>9, <2>2, <2>6 DEF strsep, Least
    <3>2. strlen(m, s) = L - i
      <4>1. p + L \in s .. s + CELLS
        BY <1>1, <2>1, <2>9
      <4>2. p + L \in At(m, {0})
        BY <1>1, <2>1, <2>9, <2>5 DEF At, Cells
      <4>3. \A x \in s .. p + L - 1 : x \notin At(m, {0})
        BY <1>1, <2>1, <2>9, <2>5 DEF At
      <4>4. Up(CELLS, s, At(m, {0})) = p + L
        BY <1>1, <2>1, <2>9, <4>1, <4>2, <4>3, UpIs
      <4>5. (p + L) - s = L - i
        BY <1>1, <2>1, <2>9
      <4> QED
        BY <2>5, <4>4, <4>5 DEF strlen
    <3>3. v.next = NULL /\ v.tokens = Append(w.tokens, SubSeq(m, s, s + (L - i) - 1))
      <4> DEFINE r == strsep(m, s, delim)
      <4>1. r.mem = m /\ r.next = NULL
        BY <3>1
      <4> HIDE DEF r
      <4>2. v = [mem |-> r.mem, next |-> r.next,
                 tokens |-> Append(w.tokens, SubSeq(r.mem, s, s + strlen(r.mem, s) - 1))]
        BY <2>8 DEF r
      <4> QED
        BY <3>2, <4>1, <4>2
    <3>4. SubSeq(m, s, s + (L - i) - 1) = SubSeq(Text(p), i + 1, L)
      <4>1. ASSUME NEW x \in p + i .. p + L - 1
            PROVE  m[x] = mem[x]
        <5>1. x \in Cells
          BY <1>1, <2>1, <2>9, <2>5 DEF Cells
        <5>2. x >= s
          BY <1>1, <2>1, <2>9, <2>5
        <5> QED
          BY <2>9, <2>5, <5>1, <5>2
      <4>2. i <= L /\ L <= Size(p) - 1
        BY <1>1 DEF L
      <4>3. /\ mem \in Memories /\ p \in Str /\ m \in Memories /\ i \in Nat /\ L \in Nat
            /\ i <= L /\ L <= Size(p) - 1 /\ s = p + i
        BY <1>1, <2>1, <2>9, <2>5, <4>2
      <4>4. SameHere(m, p, i, L)
        BY <4>1 DEF SameHere
      <4> HIDE DEF L
      <4>5. SubSeq(m, p + i, p + i + (L - i) - 1) = SubSeq(Text(p), i + 1, L)
        BY <4>3, <4>4, SameToken
      <4> QED
        BY <4>3, <4>5
    <3>5. h[L] = Append(w.tokens, SubSeq(Text(p), i + 1, L))
      <4>1. ASSUME NEW x \in i + 1 .. L
            PROVE  Text(p)[x] \notin S
        <5>1. p + x - 1 \in s .. p + L - 1 /\ x \in 1 .. L
          BY <1>1, <2>1, <2>9
        <5>2. mem[p + x - 1] \notin S
          BY <2>3, <2>4, <2>6, <5>1
        <5> QED
          BY <1>1, <5>1, <5>2
      <4>2. i \in 0 .. Len(Text(p)) /\ L \in i .. Len(Text(p))
        BY <1>1, <2>1, <2>9
      <4> QED
        <5> DEFINE t == Text(p)
                   ts == w.tokens
        <5>1. NoneOf(t, i, L, S)
          BY <4>1 DEF NoneOf
        <5>2. /\ t \in Seq(Char) /\ ts \in Seq(Seq(Char)) /\ IsTokens(h, t, S)
              /\ i \in 0 .. Len(t) /\ L \in i .. Len(t) /\ h[i] = Append(ts, <<>>)
          BY <1>1, <1>3, <1>4, <4>2
        <5> HIDE DEF t, ts
        <5>3. h[L] = Append(ts, SubSeq(t, i + 1, L))
          BY <5>1, <5>2, TokensGrow
        <5> QED
          BY <5>3 DEF t, ts
    <3> QED
      BY <3>3, <3>4, <3>5 DEF Tokenised, L
  <2>7. CASE O # {}
    <3> DEFINE e == Min(O)
               k == e - p
               m2 == [m EXCEPT ![e] = 0]
               token == SubSeq(Text(p), i + 1, k)
    <3>1. /\ e \in s .. p + L - 1 /\ mem[e] \in S
          /\ \A a \in s .. p + L - 1 : a < e => mem[a] \notin S
      <4>1. O \in SUBSET Nat
        BY <1>1, <2>1, <2>9, <2>3, <2>4
      <4>2. e \in O /\ \A a \in O : e <= a
        BY <2>7, <4>1, MinFacts
      <4> HIDE DEF e
      <4> QED
        BY <1>1, <2>1, <2>9, <2>3, <2>4, <4>2
    <3>2. strpbrk(m, s, delim) = e
      BY <2>2, <2>7 DEF Least
    <3> HIDE DEF e
    <3>3. e \in Nat /\ e # NULL /\ e \in Cells /\ e + 1 = p + (k + 1)
          /\ k \in Nat /\ i <= k /\ k < L /\ e = p + k
      BY <1>1, <2>1, <2>9, <3>1 DEF NULL, Cells
    <3> HIDE DEF k
    <3>4. strsep(m, s, delim) = [mem |-> m2, ret |-> s, next |-> e + 1]
      BY <2>1, <2>9, <3>2, <3>3 DEF strsep
    <3>5. m2 \in Memories /\ DOMAIN m2 = Cells /\ Turns(m2) = CELLS
      <4>1. m2 \in Memories
        BY <2>5, <3>3, LibraryAssumption DEF Memories
      <4> HIDE DEF m2
      <4> QED
        BY <4>1, TurnsFacts
    <3>6. /\ m2[e] = 0 /\ \A x \in Cells : x # e => m2[x] = m[x]
      BY <2>5, <3>3
    <3> HIDE DEF m2
    <3>7. \A x \in s .. e - 1 : x \in Cells /\ m2[x] = mem[x] /\ mem[x] # 0
      BY <1>1, <2>1, <2>9, <2>5, <3>1, <3>3, <3>6 DEF Cells
    <3>8. strlen(m2, s) = k - i
      <4>1. e \in s .. s + CELLS
        BY <1>1, <2>1, <2>9, <3>1, <3>3
      <4>2. e \in At(m2, {0})
        BY <3>3, <3>5, <3>6 DEF At
      <4>3. \A x \in s .. e - 1 : x \notin At(m2, {0})
        BY <3>7 DEF At
      <4>4. Up(CELLS, s, At(m2, {0})) = e
        BY <1>1, <2>1, <2>9, <4>1, <4>2, <4>3, UpIs
      <4>5. e - s = k - i
        BY <1>1, <2>1, <2>9, <3>3
      <4> QED
        BY <3>5, <4>4, <4>5 DEF strlen
    <3>9. v = [mem |-> m2, next |-> e + 1, tokens |-> Append(w.tokens, SubSeq(m2, s, s + (k - i) - 1))]
      <4> DEFINE r == strsep(m, s, delim)
      <4>1. r.mem = m2 /\ r.next = e + 1
        BY <3>4
      <4> HIDE DEF r
      <4>2. v = [mem |-> r.mem, next |-> r.next,
                 tokens |-> Append(w.tokens, SubSeq(r.mem, s, s + strlen(r.mem, s) - 1))]
        BY <2>8 DEF r
      <4> QED
        BY <3>8, <4>1, <4>2
    <3>10. SubSeq(m2, s, s + (k - i) - 1) = token
      <4>1. \A x \in p + i .. p + k - 1 : m2[x] = mem[x]
        BY <1>1, <2>1, <2>9, <3>3, <3>7
      <4>2. k <= Size(p) - 1
        BY <1>1, <3>3 DEF L
      <4>3. /\ mem \in Memories /\ p \in Str /\ m2 \in Memories /\ i \in Nat /\ k \in Nat
            /\ i <= k /\ k <= Size(p) - 1 /\ s = p + i
        BY <1>1, <2>1, <2>9, <3>3, <3>5, <4>2
      <4>4. SameHere(m2, p, i, k)
        BY <4>1 DEF SameHere
      <4>5. SubSeq(m2, p + i, p + i + (k - i) - 1) = token
        BY <4>3, <4>4, SameToken
      <4> QED
        BY <4>3, <4>5
    <3>11. h[k] = Append(w.tokens, token)
      <4>1. ASSUME NEW x \in i + 1 .. k
            PROVE  Text(p)[x] \notin S
        <5>1. p + x - 1 \in s .. p + L - 1 /\ x \in 1 .. L /\ p + x - 1 < e
          BY <1>1, <2>1, <2>9, <3>3
        <5>2. mem[p + x - 1] \notin S
          BY <3>1, <5>1
        <5> QED
          BY <1>1, <5>1, <5>2
      <4>2. i \in 0 .. Len(Text(p)) /\ k \in i .. Len(Text(p))
        BY <1>1, <2>1, <2>9, <3>3
      <4> QED
        <5> DEFINE t == Text(p)
                   ts == w.tokens
        <5>1. NoneOf(t, i, k, S)
          BY <4>1 DEF NoneOf
        <5>2. /\ t \in Seq(Char) /\ ts \in Seq(Seq(Char)) /\ IsTokens(h, t, S)
              /\ i \in 0 .. Len(t) /\ k \in i .. Len(t) /\ h[i] = Append(ts, <<>>)
          BY <1>1, <1>3, <1>4, <4>2
        <5> HIDE DEF t, ts
        <5>3. h[k] = Append(ts, SubSeq(t, i + 1, k))
          BY <5>1, <5>2, TokensGrow
        <5> QED
          BY <5>3 DEF t, ts
    <3>12. h[k + 1] = Append(Append(w.tokens, token), <<>>)
      <4>1. k + 1 \in 1 .. L /\ k + 1 - 1 = k /\ p + (k + 1) - 1 = e
        BY <1>1, <3>3
      <4>2. Text(p)[k + 1] \in S
        BY <1>1, <3>1, <4>1
      <4>3. h[k + 1] = TokenTurn(Text(p)[k + 1], S, h[k])
        <5>1. k + 1 \in 1 .. Len(Text(p))
          BY <1>1, <4>1
        <5> DEFINE t == Text(p)
                   x == k + 1
        <5>2. x \in 1 .. Len(t) /\ IsTokens(h, t, S) /\ x - 1 = k
          <6>1. x \in 1 .. Len(t)
            BY <5>1
          <6>2. IsTokens(h, t, S)
            BY <1>4
          <6>3. x - 1 = k
            BY <3>3
          <6> QED
            BY <6>1, <6>2, <6>3
        <5> HIDE DEF t, x
        <5>3. h[x] = TokenTurn(t[x], S, h[x - 1])
          BY <5>2, TokensAt
        <5>4. h[x] = TokenTurn(t[x], S, h[k])
          BY <5>2, <5>3
        <5> QED
          BY <5>4 DEF t, x
      <4> QED
        BY <3>11, <4>2, <4>3 DEF TokenTurn
    <3>13. token \in Seq(Char)
      <4>1. \A x \in i + 1 .. k : Text(p)[x] \in Char
        <5>1. \A x \in i + 1 .. k : x \in 1 .. Len(Text(p))
          BY <1>1, <2>1, <2>9, <3>3
        <5> QED
          BY <1>1, <5>1, LenProperties
      <4>2. i + 1 \in Int /\ k \in Int
        BY <2>1, <2>9, <3>3
      <4> QED
        BY <4>1, <4>2, SubSeqProperties
    <3>14. From(m2, p + (k + 1))
      BY <1>1, <2>1, <2>9, <2>5, <3>3, <3>5, <3>6 DEF From, Cells
    <3> HIDE DEF token
    <3>15. v.tokens \in Seq(Seq(Char)) /\ v.tokens = Append(w.tokens, token)
           /\ v.mem = m2 /\ v.next = p + (k + 1)
      BY <1>3, <3>3, <3>9, <3>10, <3>13, AppendProperties
    <3>16. k + 1 \in 0 .. L /\ k + 1 >= j + 1
      BY <1>1, <1>3, <2>1, <2>9, <3>3
    <3> QED
      BY <3>12, <3>14, <3>15, <3>16 DEF Tokenised, L
  <2> QED
    BY <2>6, <2>7
<1> QED
  BY <1>2, <1>3 DEF Tokenised

\* strsep(), called until it says that there is no more (string.c:530-544).
LEMMA SeparatedTokens ==
  ASSUME mem \in Memories, NEW p \in Str, NEW delim \in Str, delim > p + Size(p) - 1
  PROVE  Separated(mem, p, delim) = Tokens(Text(p), {Text(delim)[i] : i \in DOMAIN Text(delim)})
<1> DEFINE n == CELLS
           S == matchmap(mem, delim)
           start == [mem |-> mem, next |-> p, tokens |-> <<>>]
           turn(j, w) == SepTurn(delim, w)
           E(h) == h = [j \in 0 .. n |-> IF j = 0 THEN start ELSE turn(j, h[j - 1])]
           f == CHOOSE h : E(h)
           Good(m, g) == g = [j \in 0 .. m |-> IF j = 0 THEN start ELSE turn(j, g[j - 1])]
           T == {m \in 0 .. n : \E g : Good(m, g)}
<1>0. /\ p \in Nat \ {0} /\ n \in Nat /\ Size(p) \in Nat \ {0} /\ Size(p) <= n
      /\ Text(p) \in Seq(Char) /\ Len(Text(p)) = Size(p) - 1
  BY StringFacts
<1>1. Separated(mem, p, delim) = f[n].tokens
  BY DEF Separated, After, SepTurn
<1>2. S = {Text(delim)[i] : i \in DOMAIN Text(delim)}
  BY MapFacts
<1> HIDE DEF n, start, turn, S
<1>3. 0 \in T
  <2> DEFINE g == [i \in 0 .. 0 |-> start]
  <2>1. Good(0, g)
    OBVIOUS
  <2> HIDE DEF g, Good
  <2> QED
    BY <1>0, <2>1
<1>4. ASSUME NEW m \in 0 .. n - 1, m \in T
      PROVE  m + 1 \in T
  <2>1. PICK g : Good(m, g)
    BY <1>4
  <2> DEFINE k == [i \in 0 .. m + 1 |-> IF i = m + 1 THEN turn(m + 1, g[m]) ELSE g[i]]
  <2>2. ASSUME NEW i \in 0 .. m + 1
        PROVE  k[i] = IF i = 0 THEN start ELSE turn(i, k[i - 1])
    <3>1. CASE i = m + 1
      <4>1. k[i] = turn(m + 1, g[m]) /\ k[m] = g[m] /\ i - 1 = m /\ i # 0
        BY <1>0, <3>1
      <4> HIDE DEF k
      <4> QED
        BY <3>1, <4>1
    <3>2. CASE i # m + 1
      <4>1. i \in 0 .. m /\ k[i] = g[i]
        BY <1>0, <3>2
      <4>2. i # 0 => k[i - 1] = g[i - 1]
        BY <1>0, <3>2
      <4>3. g[i] = IF i = 0 THEN start ELSE turn(i, g[i - 1])
        BY <2>1, <4>1
      <4> HIDE DEF k
      <4> QED
        BY <4>1, <4>2, <4>3
    <3> QED
      BY <3>1, <3>2
  <2>3. k = [i \in 0 .. m + 1 |-> k[i]]
    OBVIOUS
  <2> HIDE DEF k
  <2>4. Good(m + 1, k)
    BY <2>2, <2>3
  <2>5. m + 1 \in 0 .. n
    BY <1>0
  <2> HIDE DEF Good
  <2> QED
    BY <2>4, <2>5
<1>5. n \in T
  <2> HIDE DEF T
  <2>1. \A j \in 0 .. n : j \in T
    BY <1>0, <1>3, <1>4, TurnInduction
  <2> QED
    BY <1>0, <2>1
<1>6. E(f)
  <2>1. PICK g : E(g)
    BY <1>5
  <2> QED
    BY <2>1
<1> HIDE DEF f, T
<1>7. f[0] = start /\ \A j \in 1 .. n : f[j] = turn(j, f[j - 1])
  BY <1>0, <1>6
<1>8. PICK h : IsTokens(h, Text(p), S) /\ Tokens(Text(p), S) = h[Size(p) - 1]
  BY <1>0, TokensLoop
<1> DEFINE I == {j \in 0 .. n : Tokenised(f[j], p, h, j)}
<1>9. 0 \in I
  <2> DEFINE w == f[0]
  <2>1. w.mem = mem /\ w.next = p /\ w.tokens = <<>>
    BY <1>7 DEF start
  <2> HIDE DEF w
  <2>2. From(w.mem, p + 0) /\ p + 0 = p
    BY <1>0, <2>1 DEF From
  <2>3. h[0] = Append(<<>>, <<>>)
    <3>1. << <<>> >> = Append(<<>>, <<>>)
      OBVIOUS
    <3> QED
      BY <1>8, <3>1 DEF IsTokens
  <2>4. <<>> \in Seq(Seq(Char)) /\ 0 \in 0 .. Size(p) - 1 /\ 0 \in 0 .. n
    BY <1>0, EmptySeq
  <2>5. Tokenised(w, p, h, 0)
    BY <2>1, <2>2, <2>3, <2>4 DEF Tokenised
  <2> QED
    BY <2>4, <2>5 DEF w
<1>10. ASSUME NEW j \in 0 .. n - 1, j \in I
       PROVE  j + 1 \in I
  <2>1. j \in Nat /\ j + 1 \in 1 .. n /\ j + 1 \in 0 .. n /\ j + 1 - 1 = j
    BY <1>0
  <2> DEFINE w == f[j]
  <2>2. Tokenised(w, p, h, j)
    BY <1>10
  <2>3. f[j + 1] = SepTurn(delim, w)
    BY <1>7, <2>1 DEF turn
  <2> HIDE DEF w
  <2>4. IsTokens(h, Text(p), matchmap(mem, delim))
    BY <1>8 DEF S
  <2>5. Tokenised(SepTurn(delim, w), p, h, j + 1)
    BY <2>1, <2>2, <2>4, SepStep
  <2> QED
    BY <2>1, <2>3, <2>5
<1> HIDE DEF I
<1>11. n \in I
  <2>1. \A j \in 0 .. n : j \in I
    BY <1>0, <1>9, <1>10, TurnInduction
  <2> QED
    BY <1>0, <2>1
<1>12. f[n].tokens = h[Size(p) - 1]
  <2>1. Tokenised(f[n], p, h, n)
    BY <1>11 DEF I
  <2>2. \A i \in 0 .. Size(p) - 1 : ~(i >= n)
    BY <1>0
  <2> QED
    BY <2>1, <2>2 DEF Tokenised
<1> QED
  BY <1>1, <1>2, <1>8, <1>12

\* In every memory, every call that writes a string writes what it should.
LEMMA StringsAreExact == mem \in Memories => StringsExact
<1> SUFFICES ASSUME mem \in Memories
             PROVE  StringsExact
  OBVIOUS
<1>1. ASSUME NEW p \in Str, NEW delim \in Str, delim > p + Size(p) - 1
      PROVE  Separated(mem, p, delim) = Tokens(Text(p), {Text(delim)[i] : i \in DOMAIN Text(delim)})
  BY <1>1, SeparatedTokens
<1>2. ASSUME NEW q \in Cells, NEW p \in Str, Room(q, Size(p)), Apart(p, Size(p), q, Size(p))
      PROVE  strcpy(mem, q, p) = Put(mem, q, Whole(p))
  BY <1>2, StrcpyPuts
<1>3. ASSUME NEW q \in Cells, NEW p \in Str, NEW n \in 0 .. CELLS, Room(q, n), Apart(p, Size(p), q, n)
      PROVE  strncpy(mem, df, q, p, n) =
               Put(mem, q, [i \in 1 .. n |-> IF i < Size(p) THEN Text(p)[i] ELSE 0])
  BY <1>3, StrncpyPuts
<1>4. ASSUME NEW q \in Str, NEW p \in Str, Apart(p, Size(p), q, CELLS), NEW n \in 0 .. CELLS
      PROVE  LET both == Text(q) \o Text(p)
                 some == Text(q) \o Upto(Text(p), n)
             IN  /\ Room(q, Len(both) + 1) => strcat(mem, q, p) = Put(mem, q, Append(both, 0))
                 /\ Room(q, Len(some) + 1) => strncat(mem, q, p, n) = Put(mem, q, Append(some, 0))
                 /\ Room(q, n) =>
                      strlcat(mem, q, p, n) =
                        IF Size(q) > n
                          THEN [mem |-> mem, ret |-> n + Len(Text(p))]
                          ELSE [mem |-> Put(mem, q, Append(Upto(both, n - 1), 0)), ret |-> Len(both)]
  <2>0. n \in Nat
    OBVIOUS
  <2>1. Room(q, Len(Text(q) \o Text(p)) + 1) =>
          strcat(mem, q, p) = Put(mem, q, Append(Text(q) \o Text(p), 0))
    BY <1>4, StrcatPuts
  <2>2. Room(q, Len(Text(q) \o Upto(Text(p), n)) + 1) =>
          strncat(mem, q, p, n) = Put(mem, q, Append(Text(q) \o Upto(Text(p), n), 0))
    BY <1>4, <2>0, StrncatPuts
  <2>3. Room(q, n) =>
          strlcat(mem, q, p, n) =
            LET both == Text(q) \o Text(p)
            IN  IF Size(q) > n
                  THEN [mem |-> mem, ret |-> n + Len(Text(p))]
                  ELSE [mem |-> Put(mem, q, Append(Upto(both, n - 1), 0)), ret |-> Len(both)]
    BY <1>4, <2>0, StrlcatPuts
  <2> QED
    BY <2>1, <2>2, <2>3
<1> HIDE DEF Str
<1> QED
  BY <1>1, <1>2, <1>3, <1>4 DEF StringsExact

\* The functions that write strings write the string they should, '\0' included, and nothing
\* behind it or behind the size they are given, in memories of any size; strsep() gives the
\* tokens of the text, the empty ones too, of any text and any delimiters (string.c:297-545).
THEOREM StringsProved == Spec => []StringsExact
<1>1. Types => StringsExact
  BY StringsAreExact DEF Types
<1> QED
  BY <1>1, TypesInductive, PTL

----------------------------------------------------------------------------
(* Lists of texts.                                                         *)

\* The texts of ss, one behind the other.
FlatTurn(ss, i, t) == t \o ss[i]
\* g goes through the texts that are joined.
Flattens(g, ss, S) ==
  /\ ss \in Seq(Seq(S)) /\ g \in [0 .. Len(ss) -> Seq(S)] /\ g[0] = <<>>
  /\ \A i \in 1 .. Len(ss) : g[i] = FlatTurn(ss, i, g[i - 1])

\* FlattenSeq() is this loop...
LEMMA FlattenLoop ==
  ASSUME NEW S, NEW ss, NEW g, Flattens(g, ss, S)
  PROVE  FlattenSeq(ss) = g[Len(ss)]
<1> DEFINE n == Len(ss)
<1>0. /\ ss \in Seq(Seq(S)) /\ n \in Nat /\ g[0] = <<>>
      /\ \A i \in 1 .. n : ss[i] \in Seq(S)
      /\ \A i \in 1 .. n : g[i] = FlatTurn(ss, i, g[i - 1])
  <2>1. ss \in Seq(Seq(S)) /\ g[0] = <<>> /\ \A i \in 1 .. n : g[i] = FlatTurn(ss, i, g[i - 1])
    BY DEF Flattens
  <2>2. n \in Nat /\ ss \in [1 .. n -> Seq(S)]
    BY <2>1, LenProperties
  <2> QED
    BY <2>1, <2>2
<1>1. CASE n = 0
  <2>1. ss = <<>>
    BY <1>0, <1>1, EmptySeq
  <2>2. FlattenSeq(ss) = ss
    BY <1>0, <1>1 DEF FlattenSeq
  <2> QED
    BY <1>0, <1>1, <2>1, <2>2
<1>2. CASE n # 0
  <2> DEFINE E(h) == h = [i \in 1 .. Len(ss) |-> IF i = 1 THEN ss[i] ELSE h[i - 1] \o ss[i]]
             f == CHOOSE h : E(h)
             r == [i \in 1 .. n |-> g[i]]
  <2>1. FlattenSeq(ss) = f[n]
    BY <1>0, <1>2 DEF FlattenSeq
  <2>2. \A h : E(h) <=> h = [i \in 1 .. n |-> IF i = 1 THEN ss[i] ELSE FlatTurn(ss, i, h[i - 1])]
    BY DEF FlatTurn
  <2> HIDE DEF E
  <2>3. g[1] = ss[1]
    <3>1. 1 \in 1 .. n /\ 1 - 1 = 0
      BY <1>0, <1>2
    <3>2. g[1] = FlatTurn(ss, 1, <<>>) /\ ss[1] \in Seq(S)
      BY <1>0, <3>1
    <3> QED
      BY <3>2, ConcatEmptySeq DEF FlatTurn
  <2>4. E(r)
    <3>1. ASSUME NEW i \in 1 .. n, i # 1
          PROVE  r[i] = FlatTurn(ss, i, r[i - 1])
      <4>1. i - 1 \in 1 .. n
        BY <1>0, <3>1
      <4>2. r[i] = g[i] /\ r[i - 1] = g[i - 1]
        BY <4>1
      <4> HIDE DEF r
      <4> QED
        BY <1>0, <4>2
    <3>2. \A i \in 1 .. n : r[i] = IF i = 1 THEN ss[i] ELSE FlatTurn(ss, i, r[i - 1])
      <4>1. 1 \in 1 .. n => r[1] = g[1]
        OBVIOUS
      <4> HIDE DEF r
      <4> QED
        BY <2>3, <3>1, <4>1
    <3>3. r = [i \in 1 .. n |-> r[i]]
      OBVIOUS
    <3> HIDE DEF r
    <3>4. r = [i \in 1 .. n |-> IF i = 1 THEN ss[i] ELSE FlatTurn(ss, i, r[i - 1])]
      BY <3>2, <3>3
    <3> QED
      BY <2>2, <3>4
  <2>5. E(f)
    <3> HIDE DEF r
    <3> QED
      BY <2>4
  <2> HIDE DEF f, n
  <2>6. \A i \in 1 .. n : f[i] = IF i = 1 THEN ss[i] ELSE FlatTurn(ss, i, f[i - 1])
    BY <2>2, <2>5
  <2> DEFINE T == {j \in 0 .. n : j = 0 \/ f[j] = g[j]}
  <2>7. 0 \in T
    BY <1>0
  <2>8. ASSUME NEW j \in 0 .. n - 1, j \in T
        PROVE  j + 1 \in T
    <3>1. j + 1 \in 1 .. n /\ j + 1 - 1 = j /\ (j = 0 \/ f[j] = g[j])
      BY <1>0, <2>8
    <3>2. g[j + 1] = FlatTurn(ss, j + 1, g[j])
      BY <1>0, <3>1
    <3>3. f[j + 1] = IF j + 1 = 1 THEN ss[j + 1] ELSE FlatTurn(ss, j + 1, f[j])
      BY <2>6, <3>1
    <3>4. f[j + 1] = g[j + 1]
      <4>1. CASE j = 0
        <5>1. j + 1 = 1
          BY <4>1
        <5> QED
          BY <2>3, <3>3, <5>1
      <4>2. CASE j # 0
        <5>1. j + 1 # 1
          BY <4>2
        <5> QED
          BY <3>1, <3>2, <3>3, <4>2, <5>1
      <4> QED
        BY <4>1, <4>2
    <3> QED
      BY <3>1, <3>4
  <2>9. n \in T
    <3> HIDE DEF T
    <3>1. \A j \in 0 .. n : j \in T
      BY <1>0, <2>7, <2>8, TurnInduction
    <3> QED
      BY <1>0, <3>1
  <2> QED
    BY <1>2, <2>1, <2>9 DEF n
<1> QED
  BY <1>1, <1>2

\* ... which has a value at every turn.
LEMMA FlattenRuns ==
  ASSUME NEW S, NEW ss \in Seq(Seq(S))
  PROVE  \E g : Flattens(g, ss, S)
<1> DEFINE n == Len(ss)
           Q == Seq(S)
           F == [j \in 1 .. n |-> [t \in Q |-> FlatTurn(ss, j, t)]]
           e == <<>>
<1>1. n \in Nat /\ ss \in [1 .. n -> Q]
  BY LenProperties
<1>2. F \in [1 .. n -> [Q -> Q]]
  <2>1. ASSUME NEW j \in 1 .. n, NEW t \in Q
        PROVE  FlatTurn(ss, j, t) \in Q
    BY <1>1, ConcatProperties DEF FlatTurn
  <2> QED
    BY <2>1
<1>3. e \in Q
  BY EmptySeq
<1>4. \A j \in 1 .. n, t \in Q : F[j][t] = FlatTurn(ss, j, t)
  OBVIOUS
<1> HIDE DEF n, F, Q, e
<1>5. PICK g : IsRun(g, n, Q, e, F)
  BY <1>1, <1>2, <1>3, LoopExists
<1>6. g \in [0 .. n -> Q] /\ g[0] = e /\ \A j \in 1 .. n : g[j] = F[j][g[j - 1]]
  BY <1>5 DEF IsRun
<1>7. \A j \in 1 .. n : g[j] = FlatTurn(ss, j, g[j - 1])
  <2>1. ASSUME NEW j \in 1 .. n
        PROVE  g[j - 1] \in Q
    BY <1>1, <1>6
  <2> QED
    BY <1>4, <1>6, <2>1
<1> QED
  BY <1>6, <1>7 DEF n, Q, e, Flattens

\* The texts joined are a text.
LEMMA FlattenFacts ==
  ASSUME NEW S
  PROVE  /\ FlattenSeq(<<>>) = <<>>
         /\ \A ss \in Seq(Seq(S)) : FlattenSeq(ss) \in Seq(S)
<1>1. FlattenSeq(<<>>) = <<>>
  BY EmptySeq DEF FlattenSeq
<1>2. ASSUME NEW ss \in Seq(Seq(S))
      PROVE  FlattenSeq(ss) \in Seq(S)
  <2>1. PICK g : Flattens(g, ss, S)
    BY FlattenRuns
  <2>2. g \in [0 .. Len(ss) -> Seq(S)] /\ Len(ss) \in Nat
    BY <2>1, LenProperties DEF Flattens
  <2> QED
    BY <2>1, <2>2, FlattenLoop
<1> QED
  BY <1>1, <1>2

\* One more text is joined behind the others.
LEMMA FlattenAppend ==
  ASSUME NEW S, NEW ss \in Seq(Seq(S)), NEW t \in Seq(S)
  PROVE  FlattenSeq(Append(ss, t)) = FlattenSeq(ss) \o t
<1> DEFINE n == Len(ss)
           x == Append(ss, t)
<1>1. n \in Nat
  BY LenProperties
<1>2. /\ x \in Seq(Seq(S)) /\ Len(x) = n + 1 /\ x[n + 1] = t
      /\ \A i \in 1 .. n : x[i] = ss[i]
  BY AppendProperties
<1> HIDE DEF x
<1>3. PICK g : Flattens(g, ss, S)
  BY FlattenRuns
<1>4. FlattenSeq(ss) = g[n]
  BY <1>3, FlattenLoop
<1>5. /\ g \in [0 .. n -> Seq(S)] /\ g[0] = <<>>
      /\ \A i \in 1 .. n : g[i] = FlatTurn(ss, i, g[i - 1])
  BY <1>3 DEF Flattens
<1> HIDE DEF n
<1> DEFINE u == FlatTurn(x, n + 1, g[n])
           h == [i \in 0 .. n + 1 |-> IF i <= n THEN g[i] ELSE u]
<1>6. u \in Seq(S)
  BY <1>1, <1>2, <1>5, ConcatProperties DEF FlatTurn
<1>7. /\ h \in [0 .. n + 1 -> Seq(S)]
      /\ \A i \in 0 .. n : h[i] = g[i]
      /\ h[n + 1] = u
  <2> HIDE DEF u
  <2> QED
    BY <1>1, <1>5, <1>6
<1> HIDE DEF h
<1>8. \A i \in 1 .. n + 1 : h[i] = FlatTurn(x, i, h[i - 1])
  <2>1. ASSUME NEW i \in 1 .. n
        PROVE  h[i] = FlatTurn(x, i, h[i - 1])
    <3>1. i \in 0 .. n /\ i - 1 \in 0 .. n
      BY <1>1
    <3>2. FlatTurn(x, i, g[i - 1]) = FlatTurn(ss, i, g[i - 1])
      BY <1>2 DEF FlatTurn
    <3> QED
      BY <1>5, <1>7, <3>1, <3>2
  <2>2. h[n + 1] = FlatTurn(x, n + 1, h[n + 1 - 1])
    <3>1. n \in 0 .. n /\ n + 1 - 1 = n
      BY <1>1
    <3>2. h[n] = g[n] /\ h[n + 1] = u
      BY <1>7, <3>1
    <3>3. h[n + 1 - 1] = g[n]
      BY <3>1, <3>2
    <3> HIDE DEF u
    <3>4. u = FlatTurn(x, n + 1, h[n + 1 - 1])
      BY <3>3 DEF u
    <3> QED
      BY <3>2, <3>4
  <2>3. \A i \in 1 .. n + 1 : i \in 1 .. n \/ i = n + 1
    BY <1>1
  <2> QED
    BY <1>1, <2>1, <2>2, <2>3
<1>9. h[0] = <<>>
  BY <1>1, <1>5, <1>7
<1>10. Flattens(h, x, S)
  BY <1>2, <1>7, <1>8, <1>9 DEF Flattens
<1>11. FlattenSeq(x) = h[n + 1]
  BY <1>2, <1>10, FlattenLoop
<1> QED
  BY <1>2, <1>4, <1>7, <1>11 DEF x, FlatTurn

----------------------------------------------------------------------------
(* printf().                                                               *)

\* What PrintedWhole prints.
Letters == {NUL, NEWLINE, "a"}
Texts   == Seq(Letters)
Prints  == [buf : Texts, writes : Seq(Texts)]

\* h is what printf_char() goes through with the characters of out.
PrintStart == [buf |-> <<>>, writes |-> <<>>]
\* h is what printf_char() makes of PrintStart, a character at a time.
IsPrinting(h, out) ==
  h[0] = PrintStart /\ \A j \in 1 .. Len(out) : h[j] = printf_char(h[j - 1], out[j])

\* The fold over the sets of places, of which 1 .. j are the first j.
FoldTurn(out, s, g) ==
  IF s = {} THEN PrintStart ELSE printf_char(g[s \ {Max(s)}], out[Max(s)])

\* The fold is this loop.
LEMMA PrintingIs ==
  ASSUME NEW out \in Texts
  PROVE  \E h : /\ IsPrinting(h, out)
                /\ FoldLeft(printf_char, PrintStart, out) = h[Len(out)]
<1> DEFINE n == Len(out)
           E(g) == g = [s \in SUBSET DOMAIN out |-> FoldTurn(out, s, g)]
           f == CHOOSE g : E(g)
           Good(m, g) == g = [s \in SUBSET (1 .. m) |-> FoldTurn(out, s, g)]
           T == {m \in 0 .. n : \E g : Good(m, g)}
<1>1. n \in Nat /\ DOMAIN out = 1 .. n
  BY LenProperties DEF Texts
<1>2. FoldLeft(printf_char, PrintStart, out) = f[DOMAIN out]
  BY DEF FoldLeft, MapThenFoldSet, FoldTurn
<1> HIDE DEF n
<1>3. 0 \in T
  <2> DEFINE g == [s \in SUBSET (1 .. 0) |-> PrintStart]
  <2>1. \A s \in SUBSET (1 .. 0) : FoldTurn(out, s, g) = PrintStart
    BY DEF FoldTurn
  <2>2. g = [s \in SUBSET (1 .. 0) |-> FoldTurn(out, s, g)]
    BY <2>1
  <2> HIDE DEF g
  <2> QED
    BY <1>1, <2>2
<1>4. ASSUME NEW m \in 0 .. n - 1, m \in T
      PROVE  m + 1 \in T
  <2>1. PICK g : Good(m, g)
    BY <1>4
  <2>2. \A s \in SUBSET (1 .. m) : g[s] = FoldTurn(out, s, g)
    BY <2>1
  <2> DEFINE z == m + 1
             h == [s \in SUBSET (1 .. z) |-> IF z \notin s THEN g[s] ELSE printf_char(g[s \ {z}], out[z])]
  <2>3. z \in Nat /\ z \in 1 .. z /\ z \in 0 .. n /\ z \notin 1 .. m
    BY <1>1
  <2>4. \A s \in SUBSET (1 .. m) : s \in SUBSET (1 .. z) /\ z \notin s
    BY <2>3
  <2>5. \A s \in SUBSET (1 .. m) : h[s] = g[s]
    BY <2>4
  <2>6. ASSUME NEW s \in SUBSET (1 .. z)
        PROVE  h[s] = FoldTurn(out, s, h)
    <3>1. CASE z \notin s
      <4>1. s \in SUBSET (1 .. m)
        BY <3>1
      <4>2. s \ {Max(s)} \in SUBSET (1 .. m)
        BY <4>1
      <4> HIDE DEF h
      <4> QED
        BY <2>2, <2>5, <4>1, <4>2 DEF FoldTurn
    <3>2. CASE z \in s
      <4>1. s \in SUBSET Nat /\ \A k \in s : k <= z
        OBVIOUS
      <4>2. Max(s) = z
        BY <3>2, <4>1, MaxIs
      <4>3. s \ {z} \in SUBSET (1 .. m)
        <5>1. \A k \in 1 .. z : k # z => k \in 1 .. m
          BY <1>1
        <5> QED
          BY <5>1
      <4>4. h[s] = printf_char(g[s \ {z}], out[z])
        BY <3>2
      <4>5. h[s \ {z}] = g[s \ {z}]
        BY <2>5, <4>3
      <4> HIDE DEF h
      <4> QED
        BY <3>2, <4>2, <4>4, <4>5 DEF FoldTurn
    <3> QED
      BY <3>1, <3>2
  <2>7. h = [s \in SUBSET (1 .. z) |-> h[s]]
    OBVIOUS
  <2> HIDE DEF h
  <2>8. h = [s \in SUBSET (1 .. z) |-> FoldTurn(out, s, h)]
    BY <2>6, <2>7
  <2>9. \E w : Good(z, w)
    BY <2>8
  <2> HIDE DEF Good
  <2> QED
    BY <2>3, <2>9
<1>5. n \in T
  <2> HIDE DEF T
  <2>1. \A m \in 0 .. n : m \in T
    BY <1>1, <1>3, <1>4, TurnInduction
  <2> QED
    BY <1>1, <2>1
<1>6. PICK g : Good(n, g)
  BY <1>5
<1>7. E(g)
  BY <1>1, <1>6
<1>8. E(f)
  <2> HIDE DEF E
  <2> QED
    BY <1>7
<1> HIDE DEF f
<1>9. \A s \in SUBSET (1 .. n) : f[s] = FoldTurn(out, s, f)
  BY <1>1, <1>8
<1> DEFINE h == [j \in 0 .. n |-> f[1 .. j]]
<1>10. h[0] = PrintStart
  <2>1. 1 .. 0 = {} /\ {} \in SUBSET (1 .. n) /\ 0 \in 0 .. n
    BY <1>1
  <2>2. h[0] = f[{}]
    BY <2>1
  <2> HIDE DEF h
  <2> QED
    BY <1>9, <2>1, <2>2 DEF FoldTurn
<1>11. ASSUME NEW j \in 1 .. n
       PROVE  h[j] = printf_char(h[j - 1], out[j])
  <2>1. (1 .. j) \in SUBSET (1 .. n) /\ j \in 1 .. j /\ (1 .. j) \in SUBSET Nat
        /\ j \in 0 .. n /\ j - 1 \in 0 .. n /\ \A k \in 1 .. j : k <= j
    BY <1>1
  <2>2. Max(1 .. j) = j
    BY <2>1, MaxIs
  <2>3. (1 .. j) \ {j} = 1 .. j - 1
    BY <1>1
  <2>4. h[j] = f[1 .. j] /\ h[j - 1] = f[1 .. j - 1]
    BY <2>1
  <2> HIDE DEF h
  <2>5. f[1 .. j] = FoldTurn(out, 1 .. j, f) /\ 1 .. j # {}
    BY <1>9, <2>1
  <2> QED
    BY <2>2, <2>3, <2>4, <2>5 DEF FoldTurn
<1>12. h[n] = f[1 .. n]
  BY <1>1
<1> HIDE DEF h
<1>13. IsPrinting(h, out)
  BY <1>10, <1>11 DEF IsPrinting, n
<1> QED
  BY <1>1, <1>2, <1>12, <1>13 DEF n

\* A write() that is no longer than the buffer, with nothing but a newline if it has one.
Fits(w) == Len(w) <= PRINTF_BUFMAX /\ (Contains(w, NEWLINE) => Len(w) = 1)

\* st after the first j characters of out.
Printing(st, out, j) ==
  /\ st \in Prints
  /\ FlattenSeq(st.writes) \o st.buf = SubSeq(out, 1, j)
  /\ Len(st.buf) <= PRINTF_BUFMAX /\ ~Contains(st.buf, NEWLINE)
  /\ \A i \in DOMAIN st.writes : Fits(st.writes[i])

\* Two more writes.
LEMMA TwoMore ==
  ASSUME NEW ws \in Seq(Texts), NEW a \in Texts, NEW b \in Texts, Fits(a), Fits(b),
         \A i \in DOMAIN ws : Fits(ws[i])
  PROVE  /\ ws \o <<a, b>> \in Seq(Texts)
         /\ FlattenSeq(ws \o <<a, b>>) = (FlattenSeq(ws) \o a) \o b
         /\ \A i \in DOMAIN (ws \o <<a, b>>) : Fits((ws \o <<a, b>>)[i])
<1> DEFINE x == Append(ws, a)
           y == Append(x, b)
           n == Len(ws)
<1>1. n \in Nat /\ DOMAIN ws = 1 .. n
  BY LenProperties
<1>2. /\ x \in Seq(Texts) /\ Len(x) = n + 1 /\ x[n + 1] = a
      /\ \A i \in 1 .. n : x[i] = ws[i]
  BY AppendProperties
<1>3. FlattenSeq(x) = FlattenSeq(ws) \o a
  BY FlattenAppend DEF Texts
<1> HIDE DEF x
<1>4. /\ y \in Seq(Texts) /\ Len(y) = n + 2 /\ y[n + 2] = b
      /\ \A i \in 1 .. n + 1 : y[i] = x[i]
  <2>1. /\ y \in Seq(Texts) /\ Len(y) = Len(x) + 1 /\ y[Len(x) + 1] = b
        /\ \A i \in 1 .. Len(x) : y[i] = x[i]
    BY <1>2, AppendProperties
  <2>2. n + 1 + 1 = n + 2
    BY <1>1
  <2> QED
    BY <1>2, <2>1, <2>2
<1>5. FlattenSeq(y) = (FlattenSeq(ws) \o a) \o b
  BY <1>2, <1>3, FlattenAppend DEF Texts
<1> HIDE DEF y
<1>6. ws \o <<a, b>> = y
  <2> DEFINE t == <<a, b>>
  <2>1. t \in Seq(Texts) /\ Len(t) = 2 /\ t[1] = a /\ t[2] = b
    OBVIOUS
  <2> HIDE DEF t
  <2>2. /\ ws \o t \in Seq(Texts) /\ Len(ws \o t) = n + 2
        /\ \A i \in 1 .. n + 2 : (ws \o t)[i] = IF i <= n THEN ws[i] ELSE t[i - n]
    <3>1. /\ ws \o t \in Seq(Texts) /\ Len(ws \o t) = Len(ws) + Len(t)
          /\ \A i \in 1 .. Len(ws) + Len(t) : (ws \o t)[i] = IF i <= Len(ws) THEN ws[i] ELSE t[i - Len(ws)]
      BY <2>1, ConcatProperties
    <3> QED
      BY <2>1, <3>1
  <2>3. ASSUME NEW i \in 1 .. n + 2
        PROVE  (ws \o t)[i] = y[i]
    <3>1. CASE i \in 1 .. n
      BY <1>1, <1>2, <1>4, <2>2, <3>1
    <3>2. CASE i = n + 1
      <4>1. i - n = 1 /\ ~(i <= n) /\ i \in 1 .. n + 1
        BY <1>1, <3>2
      <4> QED
        BY <1>2, <1>4, <2>1, <2>2, <3>2, <4>1
    <3>3. CASE i = n + 2
      <4>1. i - n = 2 /\ ~(i <= n)
        BY <1>1, <3>3
      <4> QED
        BY <1>4, <2>1, <2>2, <3>3, <4>1
    <3>4. i \in 1 .. n \/ i = n + 1 \/ i = n + 2
      BY <1>1
    <3> QED
      BY <3>1, <3>2, <3>3, <3>4
  <2>4. ws \o t = y
    BY <1>4, <2>2, <2>3, SeqEqual
  <2> QED
    BY <2>4 DEF t
<1>7. \A i \in DOMAIN y : Fits(y[i])
  <2>1. DOMAIN y = 1 .. n + 2
    BY <1>4, LenProperties
  <2>2. ASSUME NEW i \in 1 .. n + 2
        PROVE  Fits(y[i])
    <3>1. i \in 1 .. n \/ i = n + 1 \/ i = n + 2
      BY <1>1
    <3>2. n + 1 \in 1 .. n + 1 /\ \A k \in 1 .. n : k \in 1 .. n + 1
      BY <1>1
    <3> QED
      BY <1>1, <1>2, <1>4, <3>1, <3>2
  <2> QED
    BY <2>1, <2>2
<1> QED
  BY <1>4, <1>5, <1>6, <1>7

\* One more character.
LEMMA PrintingTurn ==
  ASSUME NEW out \in Texts, NEW j \in 1 .. Len(out), NEW st, Printing(st, out, j - 1)
  PROVE  Printing(printf_char(st, out[j]), out, j)
<1> DEFINE c == out[j]
           b == st.buf
           ws == st.writes
           flat == FlattenSeq(ws)
           whole == SubSeq(out, 1, j)
<1>1. /\ out \in Seq(Letters) /\ Len(out) \in Nat /\ c \in Letters
      /\ b \in Texts /\ ws \in Seq(Texts) /\ st = [buf |-> b, writes |-> ws]
      /\ Len(b) \in Nat /\ Len(b) <= PRINTF_BUFMAX /\ ~Contains(b, NEWLINE)
      /\ \A i \in DOMAIN ws : Fits(ws[i])
  <2>1. out \in Seq(Letters) /\ Len(out) \in Nat /\ c \in Letters
    BY LenProperties, ElementOfSeq DEF Texts
  <2>2. b \in Texts /\ ws \in Seq(Texts) /\ st = [buf |-> b, writes |-> ws]
    BY DEF Printing, Prints
  <2>3. Len(b) \in Nat
    BY <2>2, LenProperties DEF Texts
  <2> QED
    BY <2>1, <2>2, <2>3 DEF Printing
<1>2. flat \in Texts /\ flat \o b = SubSeq(out, 1, j - 1)
  BY <1>1, FlattenFacts DEF Printing, Texts
<1>3. whole = (flat \o b) \o <<c>>
  <2>1. 1 \in 1 .. Len(out) /\ j \in 1 .. Len(out)
    BY <1>1
  <2>2. whole = SubSeq(out, 1, j - 1) \o <<c>>
    BY <1>1, <2>1, SubSeqRecursiveSecond
  <2> QED
    BY <1>2, <2>2
<1>4. PRINTF_BUFMAX \in Nat \ {0}
  BY FormatAssumption
<1> DEFINE cc == <<c>>
<1>5. cc \in Texts /\ Len(cc) = 1 /\ Fits(cc)
  <2>1. cc \in Texts /\ Len(cc) = 1
    BY <1>1 DEF Texts
  <2> QED
    BY <1>4, <2>1 DEF Fits
<1>6. Fits(b)
  BY <1>1 DEF Fits
<1>7. CASE c \in {NUL, NEWLINE} \/ Len(b) >= PRINTF_BUFMAX
  <2> DEFINE w == ws \o <<b, cc>>
             e == <<>>
             r == [buf |-> e, writes |-> w]
  <2>1. printf_char(st, out[j]) = r
    BY <1>7 DEF printf_char
  <2>2. /\ w \in Seq(Texts) /\ FlattenSeq(w) = (flat \o b) \o cc
        /\ \A i \in DOMAIN w : Fits(w[i])
    <3> HIDE DEF b, ws, cc, flat
    <3>1. /\ ws \o <<b, cc>> \in Seq(Texts)
          /\ FlattenSeq(ws \o <<b, cc>>) = (FlattenSeq(ws) \o b) \o cc
          /\ \A i \in DOMAIN (ws \o <<b, cc>>) : Fits((ws \o <<b, cc>>)[i])
      BY <1>1, <1>5, <1>6, TwoMore
    <3> QED
      BY <3>1 DEF flat
  <2>3. e \in Texts /\ Len(e) = 0 /\ ~Contains(e, NEWLINE) /\ FlattenSeq(w) \o e = FlattenSeq(w)
    <3>1. e \in Seq(Letters) /\ Len(e) = 0 /\ ~Contains(e, NEWLINE)
      BY DEF Contains
    <3>2. FlattenSeq(w) \in Seq(Letters)
      <4> HIDE DEF w
      <4> QED
        BY <2>2, FlattenFacts DEF Texts
    <3> HIDE DEF e
    <3> QED
      BY <3>1, <3>2, ConcatEmptySeq DEF Texts, e
  <2> HIDE DEF w, e, whole, flat, b, cc
  <2>4. r \in Prints /\ r.buf = e /\ r.writes = w
    BY <2>2, <2>3 DEF Prints
  <2> HIDE DEF r
  <2>5. FlattenSeq(r.writes) \o r.buf = whole
    BY <1>3, <2>2, <2>3, <2>4 DEF cc
  <2> QED
    BY <1>4, <2>1, <2>2, <2>3, <2>4, <2>5 DEF Printing, whole
<1>8. CASE ~(c \in {NUL, NEWLINE} \/ Len(b) >= PRINTF_BUFMAX)
  <2> DEFINE a == Append(b, c)
             r == [buf |-> a, writes |-> ws]
  <2>1. printf_char(st, out[j]) = r
    BY <1>1, <1>8 DEF printf_char
  <2>2. a \in Texts /\ Len(a) = Len(b) + 1 /\ a[Len(b) + 1] = c /\ \A i \in 1 .. Len(b) : a[i] = b[i]
    BY <1>1, AppendProperties DEF Texts
  <2>3. a = b \o cc
    BY <1>1, AppendIsConcat DEF Texts
  <2> HIDE DEF a
  <2>4. ~Contains(a, NEWLINE)
    <3>1. ASSUME NEW i \in 1 .. Len(a)
          PROVE  a[i] # NEWLINE
      <4>1. i \in 1 .. Len(b) \/ i = Len(b) + 1
        BY <1>1, <2>2
      <4>2. \A k \in 1 .. Len(b) : b[k] # NEWLINE
        BY <1>1 DEF Contains
      <4> HIDE DEF b
      <4> QED
        BY <1>8, <2>2, <4>1, <4>2
    <3> QED
      BY <3>1 DEF Contains
  <2>5. Len(a) <= PRINTF_BUFMAX
    BY <1>1, <1>4, <1>8, <2>2
  <2> HIDE DEF b, ws, cc, whole, flat
  <2>6. r \in Prints /\ r.buf = a /\ r.writes = ws
    BY <1>1, <2>2 DEF Prints
  <2> HIDE DEF r
  <2>7. flat \o a = whole
    <3>1. flat \in Seq(Letters) /\ b \in Seq(Letters) /\ cc \in Seq(Letters)
      BY <1>1, <1>2, <1>5 DEF Texts
    <3>2. (flat \o b) \o cc = flat \o (b \o cc)
      BY <3>1, ConcatAssociative
    <3> QED
      BY <1>3, <2>3, <3>2 DEF cc
  <2>8. FlattenSeq(r.writes) \o r.buf = whole
    BY <2>6, <2>7 DEF flat
  <2> QED
    BY <1>1, <2>1, <2>4, <2>5, <2>6, <2>8 DEF Printing, whole
<1> QED
  BY <1>7, <1>8

\* The text, in write()s that fit.
LEMMA VprintfPrints ==
  ASSUME NEW out \in Texts
  PROVE  /\ FlattenSeq(vprintf(out)) = out
         /\ \A i \in DOMAIN vprintf(out) : Fits(vprintf(out)[i])
<1> DEFINE n == Len(out)
<1>1. n \in Nat
  BY LenProperties DEF Texts
<1>2. PICK h : IsPrinting(h, out) /\ FoldLeft(printf_char, PrintStart, out) = h[n]
  BY PrintingIs
<1> DEFINE T == {j \in 0 .. n : Printing(h[j], out, j)}
<1>3. 0 \in T
  <2> DEFINE e == <<>>
  <2>1. h[0] = [buf |-> e, writes |-> e]
    BY <1>2 DEF IsPrinting, PrintStart
  <2>2. /\ e \in Texts /\ e \in Seq(Texts) /\ Len(e) = 0 /\ DOMAIN e = {}
        /\ ~Contains(e, NEWLINE) /\ e \o e = e
    <3>1. e \in Seq(Letters) /\ e \in Seq(Texts) /\ Len(e) = 0 /\ DOMAIN e = {} /\ ~Contains(e, NEWLINE)
      BY DEF Contains
    <3>2. e \o e = e
      BY <3>1, ConcatEmptySeq
    <3> QED
      BY <3>1, <3>2 DEF Texts
  <2>3. FlattenSeq(e) = e /\ SubSeq(out, 1, 0) = e
    BY FlattenFacts, SubSeqEmpty
  <2>4. PRINTF_BUFMAX \in Nat /\ 0 \in 0 .. n
    BY <1>1, FormatAssumption
  <2> HIDE DEF e
  <2>5. h[0] \in Prints /\ h[0].buf = e /\ h[0].writes = e
    BY <2>1, <2>2 DEF Prints
  <2>6. Printing(h[0], out, 0)
    BY <2>2, <2>3, <2>4, <2>5 DEF Printing
  <2> QED
    BY <2>4, <2>6
<1>4. ASSUME NEW j \in 0 .. n - 1, j \in T
      PROVE  j + 1 \in T
  <2>1. j + 1 \in 1 .. n /\ j + 1 - 1 = j /\ j + 1 \in 0 .. n
    BY <1>1
  <2>2. Printing(h[j], out, j + 1 - 1)
    BY <1>4, <2>1
  <2>3. h[j + 1] = printf_char(h[j], out[j + 1])
    <3>1. h[j + 1] = printf_char(h[j + 1 - 1], out[j + 1])
      BY <1>2, <2>1 DEF IsPrinting
    <3> QED
      BY <2>1, <3>1
  <2>4. Printing(h[j + 1], out, j + 1)
    BY <2>1, <2>2, <2>3, PrintingTurn
  <2> QED
    BY <2>1, <2>4
<1>5. n \in T
  <2> HIDE DEF T
  <2>1. 0 \in T /\ \A j \in 0 .. n - 1 : j \in T => j + 1 \in T
    BY <1>3, <1>4
  <2>2. \A j \in 0 .. n : j \in T
    BY <1>1, <2>1, TurnInduction
  <2> QED
    BY <1>1, <2>2
<1> DEFINE st == h[n]
           ws == st.writes
           b  == st.buf
<1>6. /\ ws \in Seq(Texts) /\ b \in Texts
      /\ FlattenSeq(ws) \o b = out
      /\ Len(b) <= PRINTF_BUFMAX /\ ~Contains(b, NEWLINE)
      /\ \A i \in DOMAIN ws : Fits(ws[i])
  <2>1. Printing(st, out, n)
    BY <1>5
  <2>2. SubSeq(out, 1, n) = out
    BY SubSeqFull DEF Texts
  <2>3. ws \in Seq(Texts) /\ b \in Texts
    BY <2>1 DEF Printing, Prints
  <2> QED
    BY <2>1, <2>2, <2>3, Zenon DEF Printing
<1>7. vprintf(out) = IF b = <<>> THEN ws ELSE Append(ws, b)
  BY <1>2 DEF vprintf, PrintStart
<1> HIDE DEF st, ws, b
<1>8. CASE b = <<>>
  <2>1. FlattenSeq(ws) \in Seq(Letters)
    BY <1>6, FlattenFacts DEF Texts
  <2>2. FlattenSeq(ws) = out
    BY <1>6, <1>8, <2>1, ConcatEmptySeq
  <2> QED
    BY <1>6, <1>7, <1>8, <2>2
<1>9. CASE b # <<>>
  <2> DEFINE x == Append(ws, b)
             l == Len(ws)
  <2>1. l \in Nat
    BY <1>6, LenProperties
  <2>2. /\ x \in Seq(Texts) /\ Len(x) = l + 1 /\ x[l + 1] = b
        /\ \A i \in 1 .. l : x[i] = ws[i]
    BY <1>6, AppendProperties
  <2>3. FlattenSeq(x) = out
    BY <1>6, FlattenAppend DEF Texts
  <2> HIDE DEF x
  <2>4. DOMAIN x = 1 .. l + 1 /\ DOMAIN ws = 1 .. l
    BY <1>6, <2>2, LenProperties
  <2>5. Fits(b)
    BY <1>6 DEF Fits
  <2>6. ASSUME NEW i \in 1 .. l + 1
        PROVE  Fits(x[i])
    <3>1. i \in 1 .. l \/ i = l + 1
      BY <2>1
    <3> QED
      BY <1>6, <2>2, <2>4, <2>5, <3>1
  <2>7. vprintf(out) = x
    BY <1>7, <1>9 DEF x
  <2> QED
    BY <2>3, <2>4, <2>6, <2>7
<1> QED
  BY <1>8, <1>9

\* puts() writes its characters one at a time.
LEMMA PutsPrints ==
  ASSUME NEW s \in Texts
  PROVE  FlattenSeq(puts(s)) = Append(s, NEWLINE)
<1> DEFINE t == Append(s, NEWLINE)
           n == Len(s) + 1
           w == puts(s)
           g == [i \in 0 .. n |-> SubSeq(t, 1, i)]
<1>1. t \in Seq(Letters) /\ Len(t) = n /\ n \in Nat
  <2>1. NEWLINE \in Letters /\ s \in Seq(Letters)
    BY DEF Texts, Letters
  <2> QED
    BY <2>1, AppendProperties, LenProperties
<1>2. w = [i \in 1 .. n |-> <<t[i]>>]
  BY DEF puts
<1> HIDE DEF t, n, w
<1>3. \A i \in 1 .. n : t[i] \in Letters /\ <<t[i]>> \in Seq(Letters)
  BY <1>1, LenProperties
<1>4. w \in Seq(Seq(Letters)) /\ Len(w) = n /\ \A i \in 1 .. n : w[i] = <<t[i]>>
  BY <1>1, <1>2, <1>3
<1>5. g \in [0 .. n -> Seq(Letters)]
  <2>1. ASSUME NEW i \in 0 .. n
        PROVE  SubSeq(t, 1, i) \in Seq(Letters)
    <3>1. \A k \in 1 .. i : t[k] \in Letters
      BY <1>1, <1>3
    <3> QED
      BY <1>1, <3>1, SubSeqProperties
  <2> QED
    BY <2>1
<1>6. /\ \A i \in 0 .. n : g[i] = SubSeq(t, 1, i)
      /\ 0 \in 0 .. n /\ n \in 0 .. n
  BY <1>1
<1> HIDE DEF g
<1>7. g[0] = <<>>
  BY <1>6, SubSeqEmpty
<1>8. ASSUME NEW i \in 1 .. n
      PROVE  g[i] = FlatTurn(w, i, g[i - 1])
  <2>1. i \in 0 .. n /\ i - 1 \in 0 .. n /\ 1 \in 1 .. Len(t) /\ i \in 1 .. Len(t)
    BY <1>1
  <2>2. SubSeq(t, 1, i) = SubSeq(t, 1, i - 1) \o <<t[i]>>
    BY <1>1, <2>1, SubSeqRecursiveSecond
  <2> QED
    BY <1>4, <1>6, <2>1, <2>2 DEF FlatTurn
<1>9. Flattens(g, w, Letters)
  BY <1>4, <1>5, <1>7, <1>8 DEF Flattens
<1>10. FlattenSeq(w) = g[n]
  BY <1>4, <1>9, FlattenLoop
<1>11. SubSeq(t, 1, n) = t
  BY <1>1, SubSeqFull
<1> QED
  BY <1>6, <1>10, <1>11 DEF t, w

\* What fits is there, with its '\0', and nothing behind it is touched.
LEMMA VsnprintfPrints ==
  ASSUME NEW out \in Texts, NEW n \in 0 .. CELLS - 1
  PROVE  LET r == vsnprintf([a \in Cells |-> "old"], 1, n, out)
         IN  /\ SubSeq(r.mem, 1, r.ret + 1) = Append(Upto(out, n), NUL)
             /\ \A a \in Cells : a > n + 1 => r.mem[a] = "old"
<1> DEFINE m == [a \in Cells |-> "old"]
           l == IF n <= Len(out) THEN n ELSE Len(out)
           r == vsnprintf(m, 1, n, out)
           u == Upto(out, n)
<1>1. /\ CELLS \in Nat /\ n \in Nat /\ n + 1 <= CELLS /\ Len(out) \in Nat /\ l \in Nat
      /\ l <= n /\ l <= Len(out) /\ \A i \in 1 .. Len(out) : out[i] \in Letters
  BY LibraryAssumption, LenProperties DEF Texts
<1>2. u \in Seq(Letters) /\ Len(u) = l /\ \A i \in 1 .. l : u[i] = out[i]
  BY <1>1, UptoFacts DEF Texts
<1>3. Min({n, Len(out)}) = l
  BY <1>1, MinOfTwo
<1> HIDE DEF l, u
<1>4. r = [mem |-> [a \in Cells |-> IF a \in 1 .. 1 + l - 1 THEN out[a - 1 + 1]
                                   ELSE IF a = 1 + l THEN NUL ELSE m[a]], ret |-> l]
  BY <1>3 DEF vsnprintf
<1> DEFINE z == r.mem
<1>5. r.ret = l /\ z = [a \in Cells |-> IF a \in 1 .. 1 + l - 1 THEN out[a - 1 + 1]
                                   ELSE IF a = 1 + l THEN NUL ELSE m[a]]
  BY <1>4
<1> HIDE DEF r
<1>6. \A a \in Cells : z[a] = IF a \in 1 .. 1 + l - 1 THEN out[a - 1 + 1]
                                   ELSE IF a = 1 + l THEN NUL ELSE "old"
  BY <1>5
<1> HIDE DEF z
<1>7. /\ \A i \in 1 .. l : z[i] = out[i]
      /\ z[l + 1] = NUL
      /\ \A a \in Cells : a > n + 1 => z[a] = "old"
  <2>1. ASSUME NEW i \in 1 .. l
        PROVE  i \in Cells /\ i \in 1 .. 1 + l - 1 /\ i - 1 + 1 = i
    BY <1>1 DEF Cells
  <2>2. l + 1 \in Cells /\ l + 1 = 1 + l /\ l + 1 \notin 1 .. 1 + l - 1
    BY <1>1 DEF Cells
  <2>3. ASSUME NEW a \in Cells, a > n + 1
        PROVE  a # 1 + l /\ a \notin 1 .. 1 + l - 1
    BY <1>1, <2>3 DEF Cells
  <2> QED
    BY <1>6, <2>1, <2>2, <2>3
<1>8. SubSeq(z, 1, l + 1) = Append(u, NUL)
  <2> DEFINE x == SubSeq(z, 1, l + 1)
             y == Append(u, NUL)
  <2>1. NUL \in Letters
    BY DEF Letters
  <2>2. /\ y \in Seq(Letters) /\ Len(y) = l + 1 /\ y[l + 1] = NUL /\ \A i \in 1 .. l : y[i] = u[i]
    BY <1>2, <2>1, AppendProperties
  <2>3. \A i \in 1 .. l + 1 : z[i] \in Letters
    <3>1. ASSUME NEW i \in 1 .. l + 1
          PROVE  i \in 1 .. l \/ i = l + 1
      BY <1>1
    <3>2. \A i \in 1 .. l : out[i] \in Letters
      BY <1>1
    <3> QED
      BY <1>7, <2>1, <3>1, <3>2
  <2>4. x \in Seq(Letters) /\ Len(x) = l + 1 /\ \A i \in 1 .. l + 1 : x[i] = z[i]
    <3>1. /\ x \in Seq(Letters) /\ Len(x) = IF 1 <= l + 1 THEN l + 1 - 1 + 1 ELSE 0
          /\ \A i \in 1 .. l + 1 - 1 + 1 : x[i] = z[1 + i - 1]
      BY <1>1, <2>3, SubSeqProperties
    <3>2. l + 1 - 1 + 1 = l + 1 /\ 1 <= l + 1 /\ \A i \in 1 .. l + 1 : 1 + i - 1 = i
      BY <1>1
    <3> HIDE DEF x
    <3> QED
      BY <3>1, <3>2
  <2> HIDE DEF x, y
  <2>5. \A i \in 1 .. l + 1 : x[i] = y[i]
    <3>1. ASSUME NEW i \in 1 .. l + 1
          PROVE  i \in 1 .. l \/ i = l + 1
      BY <1>1
    <3> QED
      BY <1>2, <1>7, <2>2, <2>4, <3>1
  <2>6. x = y
    BY <2>2, <2>4, <2>5, SeqEqual
  <2> QED
    BY <2>6 DEF x, y
<1> QED
  BY <1>5, <1>7, <1>8 DEF r, u, z

\* In every memory, the texts are printed whole.
LEMMA PrintsWhole == mem \in Memories => PrintedWhole
<1> SUFFICES ASSUME mem \in Memories, NEW p \in Str
             PROVE
    LET char(c) == IF c = 2 THEN NEWLINE ELSE "a"
        text    == [i \in DOMAIN Text(p) |-> char(Text(p)[i])]
        writes  == vprintf(text)
    IN  /\ FlattenSeq(writes) = text
        /\ FlattenSeq(puts(text)) = Append(text, NEWLINE)
        /\ \A i \in DOMAIN writes : /\ Len(writes[i]) <= PRINTF_BUFMAX
                                    /\ Contains(writes[i], NEWLINE) => Len(writes[i]) = 1
        /\ \A n \in 0 .. CELLS - 1 :
             LET r == vsnprintf([a \in Cells |-> "old"], 1, n, text)
             IN  /\ SubSeq(r.mem, 1, r.ret + 1) = Append(Upto(text, n), NUL)
                 /\ \A a \in Cells : a > n + 1 => r.mem[a] = "old"
  BY DEF PrintedWhole
<1> DEFINE char(c) == IF c = 2 THEN NEWLINE ELSE "a"
           text    == [i \in DOMAIN Text(p) |-> char(Text(p)[i])]
           writes  == vprintf(text)
<1>1. text \in Texts
  <2>1. DOMAIN Text(p) = 1 .. Size(p) - 1 /\ Size(p) - 1 \in Nat
    BY StringFacts
  <2>2. \A i \in 1 .. Size(p) - 1 : char(Text(p)[i]) \in Letters
    BY DEF Letters
  <2> HIDE DEF char
  <2> QED
    BY <2>1, <2>2 DEF Texts
<1> HIDE DEF text
<1>2. /\ FlattenSeq(writes) = text
      /\ \A i \in DOMAIN writes : Fits(writes[i])
  BY <1>1, VprintfPrints
<1>3. FlattenSeq(puts(text)) = Append(text, NEWLINE)
  BY <1>1, PutsPrints
<1>4. ASSUME NEW n \in 0 .. CELLS - 1
      PROVE  LET r == vsnprintf([a \in Cells |-> "old"], 1, n, text)
             IN  /\ SubSeq(r.mem, 1, r.ret + 1) = Append(Upto(text, n), NUL)
                 /\ \A a \in Cells : a > n + 1 => r.mem[a] = "old"
  BY <1>1, VsnprintfPrints
<1> QED
  BY <1>2, <1>3, <1>4 DEF text, Fits

----------------------------------------------------------------------------
(* The digits of a number.                                                 *)

\* Induction over all the numbers below.
LEMMA Below ==
  ASSUME NEW T, \A u \in Nat : (\A v \in 0 .. u - 1 : v \in T) => u \in T
  PROVE  \A u \in Nat : u \in T
<1> DEFINE F == {u \in Nat : u \notin T}
<1> SUFFICES ASSUME F # {}
             PROVE  FALSE
  OBVIOUS
<1>1. F \in SUBSET Nat
  OBVIOUS
<1>2. PICK n \in F : \A k \in F : n <= k
  BY <1>1, Smallest
<1>3. \A v \in 0 .. n - 1 : v \in T
  BY <1>2
<1> QED
  BY <1>2, <1>3

Bases  == {8, 10, 16}
\* The characters that numbers are printed with.
Glyphs == {Digits[i] : i \in 1 .. 16} \cup {" ", "+", "-", "0", "x"}

\* Dividing by a base makes a number smaller.
LEMMA BaseParts ==
  ASSUME NEW base \in Bases, NEW u \in Nat
  PROVE  /\ u \div base \in Nat /\ u % base \in 0 .. base - 1
         /\ u = (u \div base) * base + (u % base)
         /\ u >= base => u \div base <= u - 1 /\ u \div base >= 1
  BY DEF Bases

\* A digit more than those of the number without it.
PrintTurn(base, v, g) == IF v < base THEN <<Digits[v + 1]>>
                         ELSE Append(g[v \div base], Digits[(v % base) + 1])
\* g[v] is the digits of v.
Printed(base, u, g) == g = [v \in 0 .. u |-> PrintTurn(base, v, g)]

\* The recursion over the digits has a value at every number.
LEMMA PrintedExists ==
  ASSUME NEW base \in Bases, NEW u \in Nat
  PROVE  \E g : Printed(base, u, g)
<1> DEFINE T == {m \in 0 .. u : \E g : Printed(base, m, g)}
<1>1. 0 \in T
  <2> DEFINE g == [v \in 0 .. 0 |-> <<Digits[v + 1]>>]
  <2>1. \A v \in 0 .. 0 : v < base
    BY DEF Bases
  <2>2. g = [v \in 0 .. 0 |-> PrintTurn(base, v, g)]
    BY <2>1 DEF PrintTurn
  <2>3. Printed(base, 0, g)
    BY <2>2 DEF Printed
  <2> QED
    BY <2>3
<1>2. ASSUME NEW m \in 0 .. u - 1, m \in T
      PROVE  m + 1 \in T
  <2>1. PICK g : Printed(base, m, g)
    BY <1>2
  <2> DEFINE z == m + 1
             h == [v \in 0 .. z |-> IF v <= m THEN g[v] ELSE PrintTurn(base, z, g)]
  <2>2. \A v \in 0 .. m : g[v] = PrintTurn(base, v, g)
    BY <2>1 DEF Printed
  <2>3. \A v \in 0 .. m : h[v] = g[v]
    OBVIOUS
  <2>4. h[z] = PrintTurn(base, z, g)
    OBVIOUS
  <2>5. h = [v \in 0 .. z |-> h[v]]
    OBVIOUS
  <2> HIDE DEF h
  <2>6. ASSUME NEW v \in 0 .. z
        PROVE  PrintTurn(base, v, h) = PrintTurn(base, v, g)
    <3>1. CASE v < base
      BY <3>1 DEF PrintTurn
    <3>2. CASE v >= base
      <4>1. v \div base \in Nat /\ v \div base <= v - 1
        BY <3>2, BaseParts
      <4>2. v \div base \in 0 .. m
        BY <4>1
      <4> QED
        BY <2>3, <4>2 DEF PrintTurn
    <3>3. v < base \/ v >= base
      BY DEF Bases
    <3> QED
      BY <3>1, <3>2, <3>3
  <2>7. ASSUME NEW v \in 0 .. z
        PROVE  h[v] = PrintTurn(base, v, h)
    <3>1. v \in 0 .. m \/ v = z
      OBVIOUS
    <3> QED
      BY <2>2, <2>3, <2>4, <2>6, <3>1
  <2>8. Printed(base, z, h)
    BY <2>5, <2>7 DEF Printed
  <2> QED
    BY <2>8
<1> HIDE DEF T
<1>3. \A m \in 0 .. u : m \in T
  BY <1>1, <1>2, TurnInduction
<1> QED
  BY <1>3 DEF T

\* The digits of v do not depend on the number that v is a part of.
LEMMA PrintedSame ==
  ASSUME NEW base \in Bases, NEW u \in Nat, NEW w \in Nat, w <= u, NEW g, NEW h,
         Printed(base, u, g), Printed(base, w, h)
  PROVE  g[w] = h[w]
<1> DEFINE T == {v \in Nat : v <= w => g[v] = h[v]}
<1>1. ASSUME NEW v \in Nat, \A k \in 0 .. v - 1 : k \in T
      PROVE  v \in T
  <2> SUFFICES ASSUME v <= w
               PROVE  g[v] = h[v]
    OBVIOUS
  <2>1. g[v] = PrintTurn(base, v, g) /\ h[v] = PrintTurn(base, v, h)
    <3>1. v \in 0 .. u /\ v \in 0 .. w
      OBVIOUS
    <3> QED
      BY <3>1 DEF Printed
  <2>2. CASE v < base
    BY <2>1, <2>2 DEF PrintTurn
  <2>3. CASE v >= base
    <3>1. v \div base \in Nat /\ v \div base <= v - 1
      BY <2>3, BaseParts
    <3>2. v \div base \in 0 .. v - 1 /\ v \div base <= w
      BY <3>1
    <3>3. g[v \div base] = h[v \div base]
      BY <1>1, <3>2
    <3> QED
      BY <2>1, <3>3 DEF PrintTurn
  <2>4. v < base \/ v >= base
    BY DEF Bases
  <2> QED
    BY <2>2, <2>3, <2>4
<1> HIDE DEF T
<1>2. \A v \in Nat : v \in T
  BY <1>1, Below
<1> QED
  BY <1>2 DEF T

\* The digits of a number are those of its quotient, and one more (doprnt.c:180-199).
LEMMA PrintnumTurn ==
  ASSUME NEW base \in Bases, NEW u \in Nat
  PROVE  printnum(u, base) =
           IF u < base THEN <<Digits[u + 1]>>
           ELSE Append(printnum(u \div base, base), Digits[(u % base) + 1])
<1> DEFINE f(n) == CHOOSE g : Printed(base, n, g)
<1>1. \A n : printnum(n, base) = f(n)[n]
  BY DEF printnum, Printed, PrintTurn
<1>2. \A n \in Nat : Printed(base, n, f(n))
  BY PrintedExists
<1> HIDE DEF f
<1>3. f(u)[u] = PrintTurn(base, u, f(u))
  <2>1. u \in 0 .. u
    OBVIOUS
  <2>2. Printed(base, u, f(u))
    BY <1>2
  <2> QED
    BY <2>1, <2>2 DEF Printed
<1>4. CASE u < base
  BY <1>1, <1>3, <1>4 DEF PrintTurn
<1>5. CASE u >= base
  <2> DEFINE w == u \div base
  <2>1. w \in Nat /\ w <= u
    BY <1>5, BaseParts
  <2>2. ~(u < base)
    BY <1>5 DEF Bases
  <2> HIDE DEF w
  <2>3. Printed(base, u, f(u)) /\ Printed(base, w, f(w))
    BY <1>2, <2>1
  <2>4. f(u)[w] = f(w)[w]
    BY <2>1, <2>3, PrintedSame
  <2> QED
    BY <1>1, <1>3, <2>2, <2>4 DEF PrintTurn, w
<1>6. u < base \/ u >= base
  BY DEF Bases
<1> QED
  BY <1>4, <1>5, <1>6

\* There is always a digit.
LEMMA PrintnumType ==
  ASSUME NEW base \in Bases
  PROVE  \A u \in Nat : printnum(u, base) \in Seq(Glyphs) /\ Len(printnum(u, base)) >= 1
<1> DEFINE T == {u \in Nat : printnum(u, base) \in Seq(Glyphs) /\ Len(printnum(u, base)) >= 1}
<1>1. ASSUME NEW u \in Nat, \A v \in 0 .. u - 1 : v \in T
      PROVE  u \in T
  <2>1. CASE u < base
    <3>1. u + 1 \in 1 .. 16
      BY <2>1 DEF Bases
    <3>2. Digits[u + 1] \in Glyphs
      BY <3>1 DEF Glyphs
    <3>3. printnum(u, base) = <<Digits[u + 1]>>
      BY <2>1, PrintnumTurn
    <3> DEFINE c == Digits[u + 1]
               s == <<c>>
    <3>4. c \in Glyphs /\ printnum(u, base) = s
      BY <3>2, <3>3
    <3> HIDE DEF c
    <3>5. s \in Seq(Glyphs) /\ Len(s) >= 1
      BY <3>4
    <3> HIDE DEF s
    <3>6. printnum(u, base) \in Seq(Glyphs) /\ Len(printnum(u, base)) >= 1
      BY <3>4, <3>5
    <3> QED
      BY <3>6
  <2>2. CASE u >= base
    <3> DEFINE s == printnum(u \div base, base)
               c == Digits[(u % base) + 1]
    <3>1. u \div base \in 0 .. u - 1 /\ (u % base) + 1 \in 1 .. 16
      BY <2>2, BaseParts DEF Bases
    <3>2. s \in Seq(Glyphs) /\ Len(s) >= 1 /\ Len(s) \in Nat
      BY <1>1, <3>1, LenProperties
    <3>3. c \in Glyphs
      BY <3>1 DEF Glyphs
    <3>4. printnum(u, base) = Append(s, c)
      <4>1. ~(u < base)
        BY <2>2 DEF Bases
      <4> QED
        BY <4>1, PrintnumTurn
    <3> HIDE DEF s, c
    <3>5. Append(s, c) \in Seq(Glyphs) /\ Len(Append(s, c)) = Len(s) + 1
      BY <3>2, <3>3, AppendProperties
    <3> QED
      BY <3>2, <3>4, <3>5
  <2>3. u < base \/ u >= base
    BY DEF Bases
  <2> QED
    BY <2>1, <2>2, <2>3
<1> HIDE DEF T
<1>2. \A u \in Nat : u \in T
  BY <1>1, Below
<1> QED
  BY <1>2 DEF T

----------------------------------------------------------------------------
(* Fields.                                                                 *)

\* The greater of two numbers.
LEMMA MaxOfTwo ==
  ASSUME NEW a \in Int, NEW b \in Int
  PROVE  Max({a, b}) = IF a <= b THEN b ELSE a
<1> DEFINE m == Max({a, b})
<1>1. \E e \in {a, b} : \A k \in {a, b} : e >= k
  <2>1. CASE a <= b
    BY <2>1
  <2>2. CASE ~(a <= b)
    BY <2>2
  <2> QED
    BY <2>1, <2>2
<1>2. m \in {a, b} /\ m >= a /\ m >= b
  BY <1>1 DEF Max
<1> HIDE DEF m
<1>3. m = IF a <= b THEN b ELSE a
  BY <1>2
<1> QED
  BY <1>3 DEF m

\* A filling is of one character.
LEMMA CopiesFacts ==
  ASSUME NEW S, NEW c \in S, NEW n \in Int
  PROVE  /\ Copies(c, n) \in Seq(S)
         /\ Len(Copies(c, n)) = IF n <= 0 THEN 0 ELSE n
         /\ \A i \in 1 .. Len(Copies(c, n)) : Copies(c, n)[i] = c
<1> DEFINE k == IF n <= 0 THEN 0 ELSE n
<1>1. Max({0, n}) = k
  <2>1. Max({0, n}) = IF 0 <= n THEN n ELSE 0
    BY MaxOfTwo
  <2> QED
    BY <2>1
<1>2. Copies(c, n) = [i \in 1 .. k |-> c] /\ k \in Nat
  BY <1>1 DEF Copies
<1> HIDE DEF k
<1>3. [i \in 1 .. k |-> c] \in Seq(S) /\ Len([i \in 1 .. k |-> c]) = k
  BY <1>2
<1> QED
  BY <1>2, <1>3 DEF k

\* What a field needs.
Used(d, sign, prefix, digits) ==
  Len(sign) + Len(prefix) + Max({0, d.prec - Len(digits)}) + Len(digits)

\* The width of a field.
LEMMA FieldLength ==
  ASSUME NEW d, NEW sign \in Seq(Glyphs), NEW prefix \in Seq(Glyphs), NEW digits \in Seq(Glyphs),
         length(d) \in Int, d.prec \in Int
  PROVE  /\ Used(d, sign, prefix, digits) \in Nat
         /\ field(d, sign, prefix, digits) \in Seq(Glyphs)
         /\ Len(field(d, sign, prefix, digits)) = Max({length(d), Used(d, sign, prefix, digits)})
<1> DEFINE used   == Used(d, sign, prefix, digits)
           short  == Max({0, d.prec - Len(digits)})
           fill   == room(d, sign, prefix, digits) - short
           blanks == Copies(" ", fill)
           zeros  == Copies("0", fill)
           e      == <<>>
           A == IF zero_padded(d) \/ ladjust(d) THEN e ELSE blanks
           Z == Copies("0", short)
           F == IF zero_padded(d) THEN zeros ELSE e
           R == IF ladjust(d) /\ ~zero_padded(d) THEN blanks ELSE e
<1>1. Len(sign) \in Nat /\ Len(prefix) \in Nat /\ Len(digits) \in Nat
  BY LenProperties
<1>2. short \in Nat
  <2>1. d.prec - Len(digits) \in Int
    BY <1>1
  <2>2. short = IF 0 <= d.prec - Len(digits) THEN d.prec - Len(digits) ELSE 0
    BY <2>1, MaxOfTwo
  <2> HIDE DEF short
  <2> QED
    BY <2>1, <2>2
<1>3. used \in Nat /\ used = Len(sign) + Len(prefix) + short + Len(digits)
  <2>1. used = Len(sign) + Len(prefix) + short + Len(digits)
    BY DEF Used
  <2> HIDE DEF used, short
  <2> QED
    BY <1>1, <1>2, <2>1
<1> HIDE DEF used
<1>4. fill = length(d) - used /\ fill \in Int
  <2> HIDE DEF short
  <2> QED
    BY <1>1, <1>2, <1>3 DEF room
<1>5. Max({length(d), used}) = IF fill <= 0 THEN used ELSE used + fill
  <2>1. Max({length(d), used}) = IF length(d) <= used THEN used ELSE length(d)
    <3>1. length(d) \in Int /\ used \in Int
      BY <1>3
    <3> QED
      BY <3>1, MaxOfTwo
  <2> HIDE DEF fill
  <2> QED
    BY <1>3, <1>4, <2>1
<1>6. field(d, sign, prefix, digits) = (((((A \o sign) \o prefix) \o Z) \o F) \o digits) \o R
  BY DEF field
<1> DEFINE l == IF fill <= 0 THEN 0 ELSE fill
<1>7. /\ blanks \in Seq(Glyphs) /\ Len(blanks) = l
      /\ zeros \in Seq(Glyphs) /\ Len(zeros) = l
      /\ Z \in Seq(Glyphs) /\ Len(Z) = short
      /\ e \in Seq(Glyphs) /\ Len(e) = 0
  <2>1. " " \in Glyphs /\ "0" \in Glyphs
    BY DEF Glyphs
  <2> HIDE DEF fill, short
  <2>2. \A c \in Glyphs, n \in Int : /\ Copies(c, n) \in Seq(Glyphs)
                                     /\ Len(Copies(c, n)) = IF n <= 0 THEN 0 ELSE n
    BY CopiesFacts
  <2>3. short \in Int /\ (short <= 0 => short = 0)
    BY <1>2
  <2>4. Z \in Seq(Glyphs) /\ Len(Z) = short
    BY <2>1, <2>2, <2>3
  <2>5. /\ blanks \in Seq(Glyphs) /\ Len(blanks) = l
        /\ zeros \in Seq(Glyphs) /\ Len(zeros) = l
    BY <1>4, <2>1, <2>2
  <2>6. e \in Seq(Glyphs) /\ Len(e) = 0
    OBVIOUS
  <2> QED
    BY <2>4, <2>5, <2>6
<1>8. l \in Nat
  <2> HIDE DEF fill
  <2> QED
    BY <1>4
<1>9. /\ A \in Seq(Glyphs) /\ F \in Seq(Glyphs) /\ R \in Seq(Glyphs)
      /\ Len(A) \in Nat /\ Len(F) \in Nat /\ Len(R) \in Nat /\ Len(A) + Len(F) + Len(R) = l
  <2> HIDE DEF l, e, blanks, zeros
  <2>1. CASE zero_padded(d)
    BY <1>7, <1>8, <2>1
  <2>2. CASE ~zero_padded(d) /\ ladjust(d)
    BY <1>7, <1>8, <2>2
  <2>3. CASE ~zero_padded(d) /\ ~ladjust(d)
    BY <1>7, <1>8, <2>3
  <2> QED
    BY <2>1, <2>2, <2>3
<1> HIDE DEF A, F, R, Z, short, blanks, zeros, e
<1> DEFINE x1 == A \o sign
           x2 == x1 \o prefix
           x3 == x2 \o Z
           x4 == x3 \o F
           x5 == x4 \o digits
           x6 == x5 \o R
<1>10. x1 \in Seq(Glyphs) /\ Len(x1) = Len(A) + Len(sign)
  BY <1>9, ConcatProperties
<1> HIDE DEF x1
<1>11. x2 \in Seq(Glyphs) /\ Len(x2) = Len(x1) + Len(prefix)
  BY <1>10, ConcatProperties
<1> HIDE DEF x2
<1>12. x3 \in Seq(Glyphs) /\ Len(x3) = Len(x2) + Len(Z)
  BY <1>7, <1>11, ConcatProperties
<1> HIDE DEF x3
<1>13. x4 \in Seq(Glyphs) /\ Len(x4) = Len(x3) + Len(F)
  BY <1>9, <1>12, ConcatProperties
<1> HIDE DEF x4
<1>14. x5 \in Seq(Glyphs) /\ Len(x5) = Len(x4) + Len(digits)
  BY <1>13, ConcatProperties
<1> HIDE DEF x5
<1>15. x6 \in Seq(Glyphs) /\ Len(x6) = Len(x5) + Len(R)
  BY <1>9, <1>14, ConcatProperties
<1> HIDE DEF x6
<1>16. Len(x6) = used + l
  <2> HIDE DEF l
  <2>1. Len(x6) = Len(A) + Len(sign) + Len(prefix) + Len(Z) + Len(F) + Len(digits) + Len(R)
    BY <1>10, <1>11, <1>12, <1>13, <1>14, <1>15
  <2>2. ASSUME NEW a \in Nat, NEW f \in Nat, NEW r \in Nat, NEW i \in Nat, NEW x \in Nat,
               NEW z \in Nat, NEW g \in Nat
        PROVE  a + i + x + z + f + g + r = (i + x + z + g) + (a + f + r)
    OBVIOUS
  <2>3. Len(Z) = short /\ Len(A) + Len(F) + Len(R) = l
    BY <1>7, <1>9
  <2>4. Len(x6) = (Len(sign) + Len(prefix) + short + Len(digits)) + l
    BY <1>1, <1>2, <1>9, <2>1, <2>2, <2>3
  <2> QED
    BY <1>3, <2>4
<1>17. field(d, sign, prefix, digits) = x6
  BY <1>6 DEF x1, x2, x3, x4, x5, x6
<1>18. Len(x6) = Max({length(d), used})
  <2> HIDE DEF fill
  <2> QED
    BY <1>3, <1>4, <1>5, <1>16
<1> QED
  BY <1>3, <1>15, <1>17, <1>18 DEF used

----------------------------------------------------------------------------
(* Directives.                                                             *)

\* A format of one directive prints what the directive prints.
LEMMA FlattenOne ==
  ASSUME NEW S, NEW t \in Seq(S)
  PROVE  FlattenSeq(<<t>>) = t
<1> DEFINE e == <<>>
<1>1. e \in Seq(Seq(S)) /\ Append(e, t) = <<t>> /\ FlattenSeq(e) = <<>>
  BY FlattenFacts
<1> HIDE DEF e
<1>2. FlattenSeq(Append(e, t)) = FlattenSeq(e) \o t
  BY <1>1, FlattenAppend
<1> QED
  BY <1>1, <1>2, ConcatEmptySeq

\* The letters of Directives.
Convs == {"d", "u", "o", "x", "z"}

\* The letters of Directives: their bases, and which are signed.
LEMMA ConvFacts ==
  ASSUME NEW c \in Convs
  PROVE  /\ base_of(c, 0) = CASE c = "o" -> 8 [] c \in {"d", "u"} -> 10 [] c \in {"x", "z"} -> 16
         /\ base_of(c, 0) \in Bases
         /\ c \in Signed \cup Unsigned
         /\ c \in Signed <=> c \in {"d", "z"}
         /\ c # "p"
         /\ \A d, n : d.conv = c => converted(d, n, 0) = print_num(d, n, 0)
<1>1. c = "d" \/ c = "u" \/ c = "o" \/ c = "x" \/ c = "z"
  BY DEF Convs
<1>2. CASE c = "d"
  BY <1>2 DEF base_of, Bases, Signed, Unsigned, converted, NUL
<1>3. CASE c = "u"
  BY <1>3 DEF base_of, Bases, Signed, Unsigned, converted, NUL
<1>4. CASE c = "o"
  BY <1>4 DEF base_of, Bases, Signed, Unsigned, converted, NUL
<1>5. CASE c = "x"
  BY <1>5 DEF base_of, Bases, Signed, Unsigned, converted, NUL
<1>6. CASE c = "z"
  BY <1>6 DEF base_of, Bases, Signed, Unsigned, converted, NUL
<1> QED
  BY <1>1, <1>2, <1>3, <1>4, <1>5, <1>6

\* The argument of a directive, and what is printed behind its sign.
LEMMA ArgumentFacts ==
  ASSUME number \in DoubleWord, NEW d, d.conv \in Convs,
         NEW n, n = Argument(d.conv), NEW u, u = magnitude(d, n)
  PROVE  /\ n \in Int /\ u \in 0 .. HALF - 1 /\ u \in Nat /\ number % HALF \in 0 .. HALF - 1
         /\ IF d.conv \in Signed /\ n < 0 THEN u # 0 /\ number % HALF = HALF - u
                                         ELSE u = number % HALF
<1> DEFINE low == number % HALF
<1>1. HALF \in Nat /\ HALF >= 2
  BY DivisionAssumption
<1>2. low \in 0 .. HALF - 1
  <2>1. number \in Int
    BY DEF DoubleWord
  <2> QED
    BY <1>1, <2>1
<1>3. n = IF d.conv \in Signed /\ low >= HALF \div 2 THEN low - HALF ELSE low
  BY DEF Argument
<1>4. u = IF d.conv \in Signed /\ n < 0 THEN -n ELSE n % HALF
  BY DEF magnitude
<1> HIDE DEF low
<1>5. HALF \div 2 \in Nat /\ HALF \div 2 >= 1
  BY <1>1
<1>6. n \in Int
  BY <1>1, <1>2, <1>3
<1>7. CASE d.conv \in Signed /\ low >= HALF \div 2
  <2>1. n = low - HALF /\ n < 0 /\ u = HALF - low
    BY <1>1, <1>2, <1>3, <1>4, <1>7
  <2>2. u \in 0 .. HALF - 1 /\ u # 0 /\ low = HALF - u
    BY <1>1, <1>2, <1>5, <1>7, <2>1
  <2> QED
    BY <1>2, <1>6, <1>7, <2>1, <2>2 DEF low
<1>8. CASE ~(d.conv \in Signed /\ low >= HALF \div 2)
  <2>1. n = low /\ ~(n < 0)
    BY <1>1, <1>2, <1>3, <1>8
  <2>2. low % HALF = low
    BY <1>1, <1>2
  <2>3. u = low
    BY <1>4, <2>1, <2>2
  <2> QED
    BY <1>1, <1>2, <1>6, <2>1, <2>3 DEF low
<1> QED
  BY <1>7, <1>8

\* Signs and prefixes are glyphs.
LEMMA SignFacts ==
  ASSUME NEW d, NEW n, NEW u, NEW base
  PROVE  sign_of(d, n) \in Seq(Glyphs) /\ prefix_of(d, u, base) \in Seq(Glyphs)
<1>1. "-" \in Glyphs /\ "+" \in Glyphs /\ " " \in Glyphs /\ "0" \in Glyphs /\ "x" \in Glyphs
  BY DEF Glyphs
<1> HIDE DEF Glyphs
<1>2. /\ <<>> \in Seq(Glyphs) /\ <<"-">> \in Seq(Glyphs) /\ <<"+">> \in Seq(Glyphs)
      /\ <<" ">> \in Seq(Glyphs) /\ <<"0">> \in Seq(Glyphs) /\ <<"0", "x">> \in Seq(Glyphs)
  <2>1. ASSUME NEW c \in Glyphs
        PROVE  <<c>> \in Seq(Glyphs)
    OBVIOUS
  <2>2. ASSUME NEW c \in Glyphs, NEW e \in Glyphs
        PROVE  <<c, e>> \in Seq(Glyphs)
    OBVIOUS
  <2>3. <<>> \in Seq(Glyphs)
    OBVIOUS
  <2> QED
    BY <1>1, <2>1, <2>2, <2>3
<1>3. plus_sign(d) \in Seq(Glyphs)
  BY <1>2 DEF plus_sign
<1>4. sign_of(d, n) \in Seq(Glyphs)
  BY <1>2, <1>3 DEF sign_of
<1>5. prefix_of(d, u, base) \in Seq(Glyphs)
  BY <1>2 DEF prefix_of
<1> QED
  BY <1>4, <1>5

\* A number is printed as a field.
LEMMA PrintedIs ==
  ASSUME number \in DoubleWord, NEW d, d.conv \in Convs, length(d) \in Int, d.prec \in Int,
         NEW n, n = Argument(d.conv), NEW u, u = magnitude(d, n),
         NEW base, base = base_of(d.conv, 0)
  PROVE  /\ printed(d, n) = field(d, sign_of(d, n), prefix_of(d, u, base), printnum(u, base))
         /\ printnum(u, base) \in Seq(Glyphs) /\ Len(printnum(u, base)) >= 1
<1> DEFINE x == field(d, sign_of(d, n), prefix_of(d, u, base), printnum(u, base))
<1>1. base \in Bases /\ d.conv # "p" /\ converted(d, n, 0) = print_num(d, n, 0)
  BY ConvFacts
<1>2. u \in Nat
  BY ArgumentFacts
<1>3. printnum(u, base) \in Seq(Glyphs) /\ Len(printnum(u, base)) >= 1
  BY <1>1, <1>2, PrintnumType
<1>4. x \in Seq(Glyphs)
  <2>1. sign_of(d, n) \in Seq(Glyphs) /\ prefix_of(d, u, base) \in Seq(Glyphs)
    BY SignFacts
  <2> QED
    BY <1>3, <2>1, FieldLength
<1>5. converted(d, n, 0) = x
  <2>1. base # 0
    BY <1>1 DEF Bases
  <2>2. print_num(d, n, 0) = <<>> \o x
    BY <1>1, <2>1 DEF print_num
  <2> HIDE DEF x
  <2> QED
    BY <1>1, <1>4, <2>2, ConcatEmptySeq
<1> HIDE DEF x
<1>6. printed(d, n) = FlattenSeq(<<x>>)
  BY <1>5 DEF printed, doprnt
<1>7. FlattenSeq(<<x>>) = x
  BY <1>4, FlattenOne
<1> QED
  BY <1>3, <1>6, <1>7 DEF x

\* Every directive fills its width.
LEMMA NumbersFill ==
  ASSUME number \in DoubleWord, NEW d \in Directives
  PROVE  Len(printed(d, Argument(d.conv))) =
           Max({length(d), Len(printed([d EXCEPT !.width = 0, !.zero = FALSE], Argument(d.conv)))})
<1> DEFINE bare == [d EXCEPT !.width = 0, !.zero = FALSE]
           n == Argument(d.conv)
           u == magnitude(d, n)
           base == base_of(d.conv, 0)
           sign == sign_of(d, n)
           prefix == prefix_of(d, u, base)
           digits == printnum(u, base)
           used == Used(d, sign, prefix, digits)
<1>1. d.conv \in Convs /\ d.prec \in Int /\ d.width \in Int /\ d.conv # "p"
  <2>1. d.conv \in Convs /\ d.prec \in {-1, 2} /\ d.width \in {-4, 0, 4}
    BY DEF Directives, Convs
  <2> QED
    BY <2>1, ConvFacts
<1>2. /\ bare.conv = d.conv /\ bare.prec = d.prec /\ bare.flags = d.flags
      /\ bare.width = 0 /\ bare.zero = FALSE
  BY DEF Directives
<1> HIDE DEF bare
<1>3. length(d) \in Int /\ length(bare) = 0
  BY <1>1, <1>2 DEF length
<1>4. /\ sign_of(bare, n) = sign /\ magnitude(bare, n) = u
      /\ prefix_of(bare, u, base) = prefix /\ n = Argument(bare.conv) /\ base = base_of(bare.conv, 0)
  BY <1>2 DEF sign_of, magnitude, prefix_of, plus_sign
<1>5. printed(d, n) = field(d, sign, prefix, digits) /\ digits \in Seq(Glyphs)
  BY <1>1, <1>3, PrintedIs
<1>6. printed(bare, n) = field(bare, sign, prefix, digits)
  BY <1>1, <1>2, <1>3, <1>4, PrintedIs
<1>7. sign \in Seq(Glyphs) /\ prefix \in Seq(Glyphs)
  BY SignFacts
<1> HIDE DEF sign, prefix, digits
<1>8. used \in Nat /\ Len(field(d, sign, prefix, digits)) = Max({length(d), used})
  BY <1>1, <1>3, <1>5, <1>7, FieldLength
<1>9. Len(field(bare, sign, prefix, digits)) = Max({0, used})
  <2>1. length(bare) \in Int /\ bare.prec \in Int
    BY <1>1, <1>2, <1>3
  <2>2. used = Used(bare, sign, prefix, digits)
    BY <1>2 DEF Used
  <2>3. Len(field(bare, sign, prefix, digits)) = Max({length(bare), Used(bare, sign, prefix, digits)})
    BY <1>5, <1>7, <2>1, FieldLength
  <2> QED
    BY <1>3, <2>2, <2>3
<1> HIDE DEF used, n
<1>10. Max({0, used}) = used
  <2>1. Max({0, used}) = IF 0 <= used THEN used ELSE 0
    BY <1>8, MaxOfTwo
  <2> QED
    BY <1>8, <2>1
<1> QED
  BY <1>3, <1>5, <1>6, <1>8, <1>9, <1>10 DEF n, bare

\* %s fills its width, unless its precision cuts a string that is padded on the right.
LEMMA StringsFill ==
  ASSUME mem \in Memories, NEW p \in Str,
         NEW d \in [flags : {{}, {"-"}}, width : -3 .. 3, prec : -1 .. 3, conv : {"s"}],
         NEW text, text = IF d.prec = -1 THEN Text(p) ELSE Upto(Text(p), d.prec),
         text = Text(p) \/ ~ladjust(d)
  PROVE  Len(converted(d, Text(p), 0)) = Max({length(d), Len(text)})
<1> DEFINE S == Char \cup {" "}
           s == Text(p)
           cut == d.prec # -1 /\ Len(s) > Max({0, d.prec})
           kept == IF cut THEN SubSeq(s, 1, Max({0, d.prec})) ELSE s
<1>1. d.prec \in -1 .. 3 /\ d.width \in Int /\ d.conv = "s"
  OBVIOUS
<1>2. s \in Seq(S) /\ Len(s) \in Nat
  <2>1. s \in Seq(Char)
    BY StringFacts
  <2>2. Len(s) \in Nat /\ \A i \in 1 .. Len(s) : s[i] \in S
    <3> HIDE DEF s
    <3>1. Len(s) \in Nat /\ \A i \in 1 .. Len(s) : s[i] \in Char
      BY <2>1, LenProperties
    <3> QED
      BY <3>1
  <2>3. s = [i \in 1 .. Len(s) |-> s[i]]
    BY <2>1, LenProperties
  <2> HIDE DEF s, S
  <2> QED
    BY <2>2, <2>3
<1>3. length(d) \in Int
  BY <1>1 DEF length
<1>4. converted(d, s, 0) = print_string(d, s)
  <2>1. d.conv \notin Signed \cup Unsigned /\ d.conv # "b" /\ d.conv # "c" /\ d.conv # NUL
    BY <1>1 DEF Signed, Unsigned, NUL
  <2> HIDE DEF s
  <2> QED
    BY <1>1, <2>1 DEF converted
<1> HIDE DEF s, S
<1>5. kept = text /\ text \in Seq(S) /\ Len(text) \in Nat /\ (cut => Len(text) = d.prec /\ text # s)
  <2>1. CASE d.prec = -1
    BY <1>2, <2>1 DEF s
  <2>2. CASE d.prec # -1
    <3>1. d.prec \in Nat /\ Max({0, d.prec}) = d.prec
      <4>1. d.prec \in Nat
        BY <1>1, <2>2
      <4>2. Max({0, d.prec}) = IF 0 <= d.prec THEN d.prec ELSE 0
        BY <4>1, MaxOfTwo
      <4> QED
        BY <4>1, <4>2
    <3>2. text = Upto(s, d.prec) /\ text = SubSeq(s, 1, Min({d.prec, Len(s)}))
      BY <2>2 DEF Upto, s
    <3>3. Min({d.prec, Len(s)}) = IF d.prec <= Len(s) THEN d.prec ELSE Len(s)
      BY <1>2, <3>1, MinOfTwo
    <3>4. text \in Seq(S) /\ Len(text) = IF d.prec <= Len(s) THEN d.prec ELSE Len(s)
      <4>1. Upto(s, d.prec) \in Seq(S) /\ Len(Upto(s, d.prec)) = IF d.prec <= Len(s) THEN d.prec ELSE Len(s)
        BY <1>2, <3>1, UptoFacts
      <4> QED
        BY <3>2, <4>1
    <3>5. CASE Len(s) > d.prec
      <4>1. d.prec <= Len(s)
        BY <1>2, <3>1, <3>5
      <4>2. Min({d.prec, Len(s)}) = d.prec /\ Len(text) = d.prec /\ d.prec # Len(s) /\ text \in Seq(S)
        BY <1>2, <3>1, <3>3, <3>4, <3>5, <4>1
      <4>3. kept = SubSeq(s, 1, d.prec) /\ text = SubSeq(s, 1, d.prec)
        BY <2>2, <3>1, <3>2, <3>5, <4>2
      <4>4. text # s
        BY <4>2
      <4> HIDE DEF kept, cut
      <4> QED
        BY <3>1, <4>2, <4>3, <4>4
    <3>6. CASE ~(Len(s) > d.prec)
      <4>1. Min({d.prec, Len(s)}) = Len(s)
        BY <1>2, <3>1, <3>3, <3>6
      <4>2. text = s
        BY <1>2, <3>2, <4>1, SubSeqFull
      <4>3. ~cut
        BY <3>1, <3>6
      <4> QED
        BY <1>2, <4>2, <4>3
    <3> QED
      BY <3>5, <3>6
  <2> QED
    BY <2>1, <2>2
<1>6. print_string(d, s) =
        IF ladjust(d) THEN kept \o Copies(" ", length(d) - Len(kept) - (IF cut THEN 1 ELSE 0))
                      ELSE Copies(" ", length(d) - Len(kept)) \o kept
  BY DEF print_string
<1>7. ladjust(d) => ~cut
  BY <1>5 DEF s
<1> DEFINE k == length(d) - Len(text)
           blanks == Copies(" ", k)
<1>8. k \in Int
  BY <1>3, <1>5
<1>9. blanks \in Seq(S) /\ Len(blanks) = IF k <= 0 THEN 0 ELSE k
  <2>1. " " \in S
    BY DEF S
  <2> HIDE DEF k
  <2>2. \A c \in S, n \in Int : /\ Copies(c, n) \in Seq(S)
                                /\ Len(Copies(c, n)) = IF n <= 0 THEN 0 ELSE n
    BY CopiesFacts
  <2> QED
    BY <1>8, <2>1, <2>2
<1>10. print_string(d, s) = IF ladjust(d) THEN text \o blanks ELSE blanks \o text
  <2>1. ladjust(d) => length(d) - Len(kept) - (IF cut THEN 1 ELSE 0) = k
    <3>1. ladjust(d) => length(d) - Len(kept) - (IF cut THEN 1 ELSE 0) = length(d) - Len(text) - 0
      BY <1>5, <1>7
    <3>2. length(d) - Len(text) - 0 = k
      BY <1>3, <1>5
    <3> QED
      BY <3>1, <3>2
  <2> HIDE DEF k, kept, cut
  <2> QED
    BY <1>5, <1>6, <2>1 DEF k
<1> HIDE DEF blanks, k, kept, cut
<1>11. Len(print_string(d, s)) = Len(text) + Len(blanks)
  <2>1. Len(text \o blanks) = Len(text) + Len(blanks) /\ Len(blanks \o text) = Len(blanks) + Len(text)
    <3>1. text \in Seq(S) /\ blanks \in Seq(S)
      BY <1>5, <1>9
    <3>2. \A x, y \in Seq(S) : Len(x \o y) = Len(x) + Len(y)
      BY ConcatProperties
    <3> QED
      BY <3>1, <3>2
  <2>2. Len(blanks) \in Nat
    BY <1>9, LenProperties
  <2> QED
    BY <1>5, <1>10, <2>1, <2>2
<1>12. Max({length(d), Len(text)}) = IF length(d) <= Len(text) THEN Len(text) ELSE length(d)
  <2>1. Len(text) \in Int
    BY <1>5
  <2> QED
    BY <1>3, <2>1, MaxOfTwo
<1>13. Len(print_string(d, s)) = Max({length(d), Len(text)})
  BY <1>3, <1>5, <1>8, <1>9, <1>11, <1>12 DEF k
<1> QED
  BY <1>4, <1>13 DEF s

\* For every number and in every memory, the fields are filled.
LEMMA FieldsFill == mem \in Memories /\ number \in DoubleWord => FieldsFilled
<1> SUFFICES ASSUME mem \in Memories, number \in DoubleWord
             PROVE  FieldsFilled
  OBVIOUS
<1>1. ASSUME NEW d \in Directives
      PROVE  Len(printed(d, Argument(d.conv))) =
               Max({length(d), Len(printed([d EXCEPT !.width = 0, !.zero = FALSE], Argument(d.conv)))})
  BY NumbersFill
<1>2. ASSUME NEW d \in [flags : {{}, {"-"}}, width : -3 .. 3, prec : -1 .. 3, conv : {"s"}], NEW p \in Str
      PROVE  LET text == IF d.prec = -1 THEN Text(p) ELSE Upto(Text(p), d.prec)
             IN  text = Text(p) \/ ~ladjust(d) =>
                   Len(converted(d, Text(p), 0)) = Max({length(d), Len(text)})
  BY StringsFill
<1> QED
  BY <1>1, <1>2 DEF FieldsFilled

----------------------------------------------------------------------------
(* What the digits count for.                                              *)

\* No two digits are the same character.
LEMMA DigitsDiffer == \A i, j \in 1 .. 16 : Digits[i] = Digits[j] => i = j
<1> SUFFICES ASSUME NEW i \in 1 .. 16, NEW j \in 1 .. 16, Digits[i] = Digits[j]
             PROVE  i = j
  OBVIOUS
<1>1. CASE i \in 1 .. 4
  BY <1>1, SMTT(60) DEF Digits
<1>2. CASE i \in 5 .. 8
  BY <1>2, SMTT(60) DEF Digits
<1>3. CASE i \in 9 .. 12
  BY <1>3, SMTT(60) DEF Digits
<1>4. CASE i \in 13 .. 16
  BY <1>4, SMTT(60) DEF Digits
<1>5. i \in 1 .. 4 \/ i \in 5 .. 8 \/ i \in 9 .. 12 \/ i \in 13 .. 16
  OBVIOUS
<1> QED
  BY <1>1, <1>2, <1>3, <1>4, <1>5

\* What is no digit.
LEMMA NoDigits ==
  \A c \in {" ", "-", "x", "X", "TAB", "NEWLINE", NUL}, i \in 1 .. 16 : Digits[i] # c
<1> SUFFICES ASSUME NEW i \in 1 .. 16
             PROVE  \A c \in {" ", "-", "x", "X", "TAB", "NEWLINE", NUL} : Digits[i] # c
  OBVIOUS
<1>1. Digits[i] \in {"0", "1", "2", "3", "4", "5", "6", "7", "8", "9", "a", "b", "c", "d", "e", "f"}
  BY SMTT(60) DEF Digits
<1>2. \A c \in {" ", "-", "x", "X", "TAB", "NEWLINE", NUL} :
        c \notin {"0", "1", "2", "3", "4", "5", "6", "7", "8", "9", "a", "b", "c", "d", "e", "f"}
  BY Zenon DEF NUL
<1> QED
  BY <1>1, <1>2, Zenon

\* What digits count for; what is no digit counts for more than any base.
LEMMA WorthFacts ==
  /\ \A i \in 0 .. 15 : Worth(Digits[i + 1]) = i
  /\ \A c \in {" ", "-", "x", "X", "TAB", "NEWLINE", NUL} : Worth(c) \in Nat /\ Worth(c) >= 16
<1>1. ASSUME NEW i \in 0 .. 15
      PROVE  Worth(Digits[i + 1]) = i
  <2> DEFINE c == Digits[i + 1]
             D == {Digits[k] : k \in 1 .. 16}
             k == CHOOSE k \in 1 .. 16 : Digits[k] = c
  <2>1. i + 1 \in 1 .. 16
    OBVIOUS
  <2>2. c \in D
    BY <2>1
  <2>3. k \in 1 .. 16 /\ Digits[k] = c
    BY <2>1
  <2>4. k = i + 1
    <3> HIDE DEF k
    <3> QED
      BY <2>1, <2>3, DigitsDiffer
  <2>5. c # "A" /\ c # "F" /\ c \notin {"x", "X"}
    <3>1. \A j \in 1 .. 16 : Digits[j] # "A" /\ Digits[j] # "F"
      BY SMTT(60) DEF Digits
    <3> QED
      BY <2>1, <3>1, NoDigits
  <2>6. Worth(c) = k - 1
    <3> HIDE DEF c
    <3> QED
      BY <2>2, <2>5 DEF Worth
  <2>7. k - 1 = i
    <3> HIDE DEF k
    <3> QED
      BY <2>4
  <2> HIDE DEF k
  <2> QED
    BY <2>6, <2>7
<1>2. ASSUME NEW c, c \notin {Digits[i] : i \in 1 .. 16} /\ c # "A" /\ c # "F"
      PROVE  Worth(c) \in Nat /\ Worth(c) >= 16
  <2>1. Worth(c) \in {33, 99}
    BY <1>2 DEF Worth
  <2> QED
    BY <2>1
<1>3. ASSUME NEW c \in {" ", "-", "x", "X", "TAB", "NEWLINE", NUL}
      PROVE  c \notin {Digits[i] : i \in 1 .. 16} /\ c # "A" /\ c # "F"
  BY NoDigits, Zenon DEF NUL
<1> QED
  BY <1>1, <1>2, <1>3, Zenon

\* g counts the number u of which s are the digits.
Counts(g, s, base, u) ==
  /\ g \in [0 .. Len(s) -> 0 .. u] /\ g[0] = 0 /\ g[Len(s)] = u
  /\ \A i \in 1 .. Len(s) : /\ Worth(s[i]) \in 0 .. base - 1
                            /\ g[i] = g[i - 1] * base + Worth(s[i])

\* One more digit.
LEMMA CountsMore ==
  ASSUME NEW S, NEW s \in Seq(S), NEW c \in S, NEW base \in Nat \ {0}, NEW v \in Nat, NEW g,
         Counts(g, s, base, v), Worth(c) \in 0 .. base - 1
  PROVE  \E h : Counts(h, Append(s, c), base, v * base + Worth(c))
<1> DEFINE x == Append(s, c)
           n == Len(s)
           u == v * base + Worth(c)
           h == [i \in 0 .. n + 1 |-> IF i <= n THEN g[i] ELSE u]
<1>1. n \in Nat
  BY LenProperties
<1>2. /\ x \in Seq(S) /\ Len(x) = n + 1 /\ x[n + 1] = c
      /\ \A i \in 1 .. n : x[i] = s[i]
  BY AppendProperties
<1>3. u \in Nat /\ v <= u
  <2>1. v * base \in Nat /\ 1 * v <= base * v /\ base * v = v * base /\ 1 * v = v
    <3>1. 1 \in Nat /\ 1 <= base
      OBVIOUS
    <3> QED
      BY <3>1, ProductFacts
  <2> DEFINE m == v * base
  <2> HIDE DEF m
  <2>2. m + Worth(c) \in Nat /\ v <= m + Worth(c)
    BY <2>1 DEF m
  <2> QED
    BY <2>2 DEF m
<1>4. /\ g \in [0 .. n -> 0 .. v] /\ g[0] = 0 /\ g[n] = v
      /\ \A i \in 1 .. n : Worth(s[i]) \in 0 .. base - 1 /\ g[i] = g[i - 1] * base + Worth(s[i])
  BY DEF Counts
<1> HIDE DEF u, n, x
<1>5. /\ h \in [0 .. n + 1 -> 0 .. u]
      /\ \A i \in 0 .. n : h[i] = g[i]
      /\ h[n + 1] = u
  BY <1>1, <1>3, <1>4
<1> HIDE DEF h
<1>6. ASSUME NEW i \in 1 .. n + 1
      PROVE  Worth(x[i]) \in 0 .. base - 1 /\ h[i] = h[i - 1] * base + Worth(x[i])
  <2>1. CASE i \in 1 .. n
    <3>1. i \in 0 .. n /\ i - 1 \in 0 .. n
      BY <1>1, <2>1
    <3> QED
      BY <1>2, <1>4, <1>5, <2>1, <3>1
  <2>2. CASE i = n + 1
    <3>1. i - 1 = n /\ n \in 0 .. n
      BY <1>1, <2>2
    <3>2. h[i - 1] = v
      BY <1>4, <1>5, <3>1
    <3>3. x[i] = c /\ h[i] = u
      BY <1>2, <1>5, <2>2
    <3> QED
      BY <3>2, <3>3 DEF u
  <2> QED
    BY <1>1, <2>1, <2>2
<1>7. 0 \in 0 .. n
  BY <1>1
<1>8. Counts(h, x, base, u)
  BY <1>2, <1>4, <1>5, <1>6, <1>7 DEF Counts
<1> QED
  BY <1>8 DEF x, u

\* Zeros count for nothing.
LEMMA ZerosCount ==
  ASSUME NEW base \in Nat \ {0}, NEW s \in Seq({"0"})
  PROVE  \E h : Counts(h, s, base, 0)
<1> DEFINE h == [i \in 0 .. Len(s) |-> 0]
<1>1. Len(s) \in Nat /\ \A i \in 1 .. Len(s) : s[i] = "0"
  BY LenProperties
<1>2. Worth("0") = 0
  <2>1. 0 \in 0 .. 15 /\ Digits[0 + 1] = "0"
    BY DEF Digits
  <2> QED
    BY <2>1, WorthFacts
<1>3. Counts(h, s, base, 0)
  BY <1>1, <1>2 DEF Counts
<1> QED
  BY <1>3

\* One more character behind two texts.
LEMMA ConcatAppend ==
  ASSUME NEW S, NEW a \in Seq(S), NEW s \in Seq(S), NEW c \in S
  PROVE  a \o Append(s, c) = Append(a \o s, c)
<1> DEFINE x == a \o s
           e == <<c>>
<1>1. x \in Seq(S) /\ e \in Seq(S)
  BY ConcatProperties
<1>2. Append(s, c) = s \o e
  BY AppendIsConcat
<1>3. a \o (s \o e) = x \o e
  <2> HIDE DEF e
  <2> QED
    BY <1>1, ConcatAssociative
<1> HIDE DEF x
<1>4. Append(x, c) = x \o e
  BY <1>1, AppendIsConcat
<1> QED
  BY <1>2, <1>3, <1>4 DEF x

\* The digits of u count for u, behind zeros too.
LEMMA NumberCounts ==
  ASSUME NEW base \in Bases, NEW zeros \in Seq({"0"})
  PROVE  \A u \in Nat : \E h : Counts(h, zeros \o printnum(u, base), base, u)
<1> DEFINE T == {u \in Nat : \E h : Counts(h, zeros \o printnum(u, base), base, u)}
<1>0. base \in Nat \ {0} /\ base <= 16
  BY DEF Bases
<1>1. zeros \in Seq(Glyphs)
  <2>1. "0" \in Glyphs
    BY DEF Glyphs
  <2>2. Len(zeros) \in Nat /\ \A i \in 1 .. Len(zeros) : zeros[i] = "0"
    BY LenProperties
  <2>3. zeros = [i \in 1 .. Len(zeros) |-> zeros[i]]
    BY LenProperties
  <2> HIDE DEF Glyphs
  <2>4. \A i \in 1 .. Len(zeros) : zeros[i] \in Glyphs
    BY <2>1, <2>2
  <2> QED
    BY <2>2, <2>3, <2>4
<1>2. ASSUME NEW u \in Nat, \A v \in 0 .. u - 1 : v \in T
      PROVE  u \in T
  <2>1. CASE u < base
    <3> DEFINE c == Digits[u + 1]
    <3>1. u \in 0 .. 15 /\ u + 1 \in 1 .. 16
      BY <1>0, <2>1
    <3>2. c \in Glyphs
      BY <3>1 DEF Glyphs
    <3>3. Worth(c) = u
      BY <3>1, WorthFacts
    <3>4. printnum(u, base) = <<c>>
      BY <2>1, PrintnumTurn
    <3> HIDE DEF c
    <3>5. zeros \o <<c>> = Append(zeros, c)
      BY <1>1, <3>2, AppendIsConcat
    <3>6. PICK g : Counts(g, zeros, base, 0)
      BY <1>0, ZerosCount
    <3>7. Worth(c) \in 0 .. base - 1
      BY <1>0, <2>1, <3>3
    <3>8. \E h : Counts(h, Append(zeros, c), base, 0 * base + Worth(c))
      BY <1>0, <1>1, <3>2, <3>6, <3>7, CountsMore
    <3>9. 0 * base + Worth(c) = u
      BY <1>0, <3>3
    <3> QED
      BY <3>4, <3>5, <3>8, <3>9
  <2>2. CASE u >= base
    <3> DEFINE v == u \div base
               s == printnum(v, base)
               r == u % base
               c == Digits[r + 1]
    <3>1. v \in 0 .. u - 1 /\ v \in Nat /\ r \in 0 .. base - 1 /\ u = v * base + r
      BY <2>2, BaseParts
    <3> HIDE DEF v, r
    <3>2. r \in 0 .. 15 /\ r + 1 \in 1 .. 16
      BY <1>0, <3>1
    <3>3. c \in Glyphs
      BY <3>2 DEF Glyphs
    <3>4. Worth(c) = r
      BY <3>2, WorthFacts
    <3>5. printnum(u, base) = Append(s, c)
      <4>1. ~(u < base)
        BY <1>0, <2>2
      <4> QED
        BY <4>1, PrintnumTurn DEF v, r
    <3>6. PICK g : Counts(g, zeros \o s, base, v)
      BY <1>2, <3>1
    <3>7. s \in Seq(Glyphs)
      BY <3>1, PrintnumType
    <3> HIDE DEF c, s
    <3>8. zeros \o s \in Seq(Glyphs)
      BY <1>1, <3>7, ConcatProperties
    <3>9. zeros \o Append(s, c) = Append(zeros \o s, c)
      BY <1>1, <3>3, <3>7, ConcatAppend
    <3>10. \E h : Counts(h, Append(zeros \o s, c), base, v * base + Worth(c))
      BY <1>0, <3>1, <3>3, <3>4, <3>6, <3>8, CountsMore
    <3> QED
      BY <3>1, <3>4, <3>5, <3>9, <3>10
  <2>3. u < base \/ u >= base
    BY <1>0
  <2> QED
    BY <2>1, <2>2, <2>3
<1> HIDE DEF T
<1>3. \A u \in Nat : u \in T
  BY <1>2, Below
<1> QED
  BY <1>3 DEF T

\* The characters of two texts put together.
LEMMA CharAtConcat ==
  ASSUME NEW S, NEW a \in Seq(S), NEW b \in Seq(S)
  PROVE  /\ \A i \in Nat \ {0} : CharAt(a \o b, Len(a) + i) = CharAt(b, i)
         /\ \A i \in 1 .. Len(a) : CharAt(a \o b, i) = a[i]
<1>1. /\ Len(a) \in Nat /\ Len(b) \in Nat /\ Len(a \o b) = Len(a) + Len(b)
      /\ \A i \in 1 .. Len(a) + Len(b) : (a \o b)[i] = IF i <= Len(a) THEN a[i] ELSE b[i - Len(a)]
  BY ConcatProperties, LenProperties
<1>2. ASSUME NEW i \in Nat \ {0}
      PROVE  CharAt(a \o b, Len(a) + i) = CharAt(b, i)
  <2>1. CASE i <= Len(b)
    <3>1. Len(a) + i \in 1 .. Len(a) + Len(b) /\ ~(Len(a) + i <= Len(a)) /\ Len(a) + i - Len(a) = i
      BY <1>1, <2>1
    <3>2. (a \o b)[Len(a) + i] = b[i]
      BY <1>1, <3>1
    <3>3. Len(a) + i <= Len(a \o b)
      BY <1>1, <2>1
    <3> QED
      BY <2>1, <3>2, <3>3 DEF CharAt
  <2>2. CASE ~(i <= Len(b))
    <3>1. ~(Len(a) + i <= Len(a \o b))
      BY <1>1, <2>2
    <3> QED
      BY <2>2, <3>1 DEF CharAt
  <2> QED
    BY <2>1, <2>2
<1>3. ASSUME NEW i \in 1 .. Len(a)
      PROVE  CharAt(a \o b, i) = a[i]
  <2>1. i \in 1 .. Len(a) + Len(b) /\ i <= Len(a) /\ i <= Len(a \o b)
    BY <1>1
  <2> QED
    BY <1>1, <2>1 DEF CharAt
<1> QED
  BY <1>2, <1>3

\* A turn of digits_from().
DigitTurn(t, base, w) ==
  IF IsDigitIn(CharAt(t, w.end), base)
    THEN [v |-> (w.v * base + Worth(CharAt(t, w.end))) % HALF, end |-> w.end + 1] ELSE w

\* A word is not changed by counting modulo HALF.
LEMMA SmallMod ==
  ASSUME NEW u \in 0 .. HALF - 1, NEW x \in 0 .. u
  PROVE  x % HALF = x /\ x \in Nat
<1>1. HALF \in Nat /\ HALF > 0
  BY DivisionAssumption
<1>2. x \in 0 .. HALF - 1
  BY <1>1
<1> QED
  BY <1>1, <1>2

\* What is read of the text t, of which a is before the digits s.
DigitsAre(t, a, s, base, u) ==
  digits_from(t, Len(a) + 1, base, 0) = [v |-> u, end |-> Len(a) + 1 + Len(s)]

\* Digits are read as far as they go.
LEMMA DigitsRead ==
  ASSUME NEW a \in Seq(Glyphs), NEW s \in Seq(Glyphs), NEW b \in Seq(Glyphs), NEW t, t = a \o (s \o b),
         NEW base \in Nat \ {0}, NEW u \in 0 .. HALF - 1, NEW g, Counts(g, s, base, u),
         ~IsDigitIn(CharAt(b, 1), base)
  PROVE  DigitsAre(t, a, s, base, u)
<1> DEFINE p == Len(a) + 1
           l == Len(s)
           n == Len(t)
           start == [v |-> 0, end |-> p]
           E(h) == h = [j \in 0 .. n |-> IF j = 0 THEN start ELSE DigitTurn(t, base, h[j - 1])]
           f == CHOOSE h : E(h)
           h == [j \in 0 .. n |-> IF j <= l THEN [v |-> g[j], end |-> p + j] ELSE [v |-> u, end |-> p + l]]
<1>1. digits_from(t, p, base, 0) = f[n]
  BY DEF digits_from, After, DigitTurn
<1>2. /\ Len(a) \in Nat /\ l \in Nat /\ n \in Nat /\ l <= n /\ HALF \in Nat
  <2>1. s \o b \in Seq(Glyphs) /\ Len(s \o b) = Len(s) + Len(b)
    BY ConcatProperties
  <2>2. Len(a \o (s \o b)) = Len(a) + Len(s \o b)
    BY <2>1, ConcatProperties
  <2>3. Len(a) \in Nat /\ Len(s) \in Nat /\ Len(b) \in Nat
    BY LenProperties
  <2>4. HALF \in Nat
    BY DivisionAssumption
  <2> QED
    BY <2>1, <2>2, <2>3, <2>4
<1>3. /\ g \in [0 .. l -> 0 .. u] /\ g[0] = 0 /\ g[l] = u
      /\ \A i \in 1 .. l : Worth(s[i]) \in 0 .. base - 1 /\ g[i] = g[i - 1] * base + Worth(s[i])
  BY DEF Counts
<1>4. /\ \A j \in 1 .. l : CharAt(t, Len(a) + j) = s[j]
      /\ CharAt(t, Len(a) + (l + 1)) = CharAt(b, 1)
  <2>1. s \o b \in Seq(Glyphs)
    BY ConcatProperties
  <2>2. \A i \in Nat \ {0} : CharAt(t, Len(a) + i) = CharAt(s \o b, i)
    BY <2>1, CharAtConcat
  <2>3. CharAt(s \o b, l + 1) = CharAt(b, 1)
    BY CharAtConcat
  <2>4. \A i \in 1 .. l : CharAt(s \o b, i) = s[i]
    BY CharAtConcat
  <2>5. l + 1 \in Nat \ {0} /\ \A j \in 1 .. l : j \in Nat \ {0}
    BY <1>2
  <2> QED
    BY <2>2, <2>3, <2>4, <2>5
<1> HIDE DEF n, l
<1>5. /\ \A j \in 0 .. l : h[j] = [v |-> g[j], end |-> p + j]
      /\ \A j \in l .. n : h[j] = [v |-> u, end |-> p + l]
      /\ h = [j \in 0 .. n |-> h[j]]
  <2>1. \A j \in 0 .. l : h[j] = [v |-> g[j], end |-> p + j]
    BY <1>2
  <2>2. ASSUME NEW j \in l .. n
        PROVE  h[j] = [v |-> u, end |-> p + l]
    <3>1. CASE j = l
      <4>1. l \in 0 .. l
        BY <1>2
      <4> QED
        BY <1>3, <2>1, <3>1, <4>1
    <3>2. CASE j # l
      <4>1. ~(j <= l) /\ j \in 0 .. n
        BY <1>2, <3>2
      <4> QED
        BY <4>1
    <3> QED
      BY <3>1, <3>2
  <2> QED
    BY <2>1, <2>2
<1> HIDE DEF h
<1>6. h[0] = start
  <2>1. 0 \in 0 .. l /\ p + 0 = p
    BY <1>2
  <2> QED
    BY <1>3, <1>5, <2>1
<1>7. ASSUME NEW j \in 1 .. n
      PROVE  h[j] = DigitTurn(t, base, h[j - 1])
  <2>1. CASE j <= l
    <3>1. j \in 1 .. l /\ j \in 0 .. l /\ j - 1 \in 0 .. l /\ p + (j - 1) = Len(a) + j /\ p + (j - 1) + 1 = p + j
      BY <1>2, <2>1
    <3>2. h[j - 1] = [v |-> g[j - 1], end |-> p + (j - 1)] /\ h[j] = [v |-> g[j], end |-> p + j]
      BY <1>5, <3>1
    <3>3. CharAt(t, p + (j - 1)) = s[j] /\ IsDigitIn(s[j], base)
      <4>1. Worth(s[j]) < base
        BY <1>3, <3>1
      <4> QED
        BY <1>4, <3>1, <4>1 DEF IsDigitIn
    <3>4. (g[j - 1] * base + Worth(s[j])) % HALF = g[j]
      <4>1. g[j - 1] * base + Worth(s[j]) = g[j]
        BY <1>3, <3>1
      <4>2. g[j] \in 0 .. u
        BY <1>3, <3>1
      <4>3. g[j] % HALF = g[j]
        BY <4>2, SmallMod
      <4> QED
        BY <4>1, <4>3
    <3> QED
      BY <3>1, <3>2, <3>3, <3>4 DEF DigitTurn
  <2>2. CASE ~(j <= l)
    <3>1. j \in l .. n /\ j - 1 \in l .. n
      BY <1>2, <2>2
    <3>2. h[j - 1] = [v |-> u, end |-> p + l] /\ h[j] = [v |-> u, end |-> p + l]
      BY <1>5, <3>1
    <3>3. p + l = Len(a) + (l + 1)
      BY <1>2
    <3>4. ~IsDigitIn(CharAt(t, p + l), base)
      BY <1>4, <3>3
    <3> HIDE DEF p
    <3> QED
      BY <3>2, <3>4 DEF DigitTurn
  <2> QED
    BY <2>1, <2>2
<1>8. E(h)
  <2>1. \A j \in 0 .. n : h[j] = IF j = 0 THEN start ELSE DigitTurn(t, base, h[j - 1])
    <3> HIDE DEF start
    <3> QED
      BY <1>2, <1>6, <1>7
  <2> HIDE DEF start
  <2>2. h = [j \in 0 .. n |-> IF j = 0 THEN start ELSE DigitTurn(t, base, h[j - 1])]
    BY <1>5, <2>1
  <2> QED
    BY <2>2
<1>9. E(f)
  <2> HIDE DEF start
  <2> QED
    BY <1>8
<1>10. f[0] = h[0] /\ \A j \in 1 .. n : f[j - 1] = h[j - 1] => f[j] = h[j]
  <2> HIDE DEF start, f
  <2> QED
    BY <1>2, <1>8, <1>9
<1>11. h[n] = [v |-> u, end |-> p + l]
  <2>1. n \in l .. n
    BY <1>2
  <2> HIDE DEF p
  <2> QED
    BY <1>5, <2>1
<1> HIDE DEF f, E
<1>12. f[n] = h[n]
  BY <1>2, <1>10, SameLoop
<1>13. digits_from(t, Len(a) + 1, base, 0) = [v |-> u, end |-> Len(a) + 1 + Len(s)]
  BY <1>1, <1>11, <1>12 DEF l
<1> QED
  BY <1>13 DEF DigitsAre

----------------------------------------------------------------------------
(* atoi().                                                                 *)

\* ten[k] is what a 1 counts for in front of k digits.
Powers(ten, n) ==
  /\ ten \in [0 .. n -> Nat \ {0}] /\ ten[0] = 1
  /\ \A k \in 1 .. n : ten[k] = 10 * ten[k - 1]

\* There are powers of ten.
LEMMA PowersExist ==
  ASSUME NEW n \in Nat
  PROVE  \E ten : Powers(ten, n)
<1> DEFINE S == Nat \ {0}
           F == [k \in 1 .. n |-> [x \in S |-> 10 * x]]
<1>1. F \in [1 .. n -> [S -> S]] /\ 1 \in S
  <2>1. \A x \in S : 10 * x \in S
    OBVIOUS
  <2> QED
    BY <2>1
<1>2. \A k \in 1 .. n, x \in S : F[k][x] = 10 * x
  OBVIOUS
<1> HIDE DEF F, S
<1>3. PICK ten : IsRun(ten, n, S, 1, F)
  BY <1>1, LoopExists
<1>4. ten \in [0 .. n -> S] /\ ten[0] = 1 /\ \A k \in 1 .. n : ten[k] = F[k][ten[k - 1]]
  BY <1>3 DEF IsRun
<1>5. \A k \in 1 .. n : ten[k] = 10 * ten[k - 1]
  <2>1. ASSUME NEW k \in 1 .. n
        PROVE  ten[k - 1] \in S
    BY <1>4
  <2> QED
    BY <1>2, <1>4, <2>1
<1> QED
  BY <1>4, <1>5 DEF Powers, S

\* The powers of ten rise.
LEMMA PowersRise ==
  ASSUME NEW n \in Nat, NEW ten, Powers(ten, n)
  PROVE  \A k \in 0 .. n : \A j \in 0 .. k : ten[j] <= ten[k]
<1> DEFINE T == {k \in 0 .. n : \A j \in 0 .. k : ten[j] <= ten[k]}
<1>1. /\ ten \in [0 .. n -> Nat \ {0}]
      /\ \A k \in 1 .. n : ten[k] = 10 * ten[k - 1]
  BY DEF Powers
<1>2. 0 \in T
  <2>1. 0 \in 0 .. n /\ ten[0] \in Nat
    BY <1>1
  <2> QED
    BY <2>1
<1>3. ASSUME NEW k \in 0 .. n - 1, k \in T
      PROVE  k + 1 \in T
  <2>1. k \in 0 .. n /\ k + 1 \in 1 .. n /\ k + 1 \in 0 .. n /\ k + 1 - 1 = k
    OBVIOUS
  <2>2. ten[k] \in Nat /\ ten[k + 1] = 10 * ten[k] /\ ten[k + 1] \in Nat
    BY <1>1, <2>1
  <2>3. ten[k] <= ten[k + 1]
    BY <2>2
  <2>4. ASSUME NEW j \in 0 .. k + 1
        PROVE  ten[j] <= ten[k + 1]
    <3>1. CASE j = k + 1
      BY <2>2, <3>1
    <3>2. CASE j # k + 1
      <4>1. j \in 0 .. k /\ j \in 0 .. n
        BY <3>2
      <4>2. ten[j] <= ten[k] /\ ten[j] \in Nat
        BY <1>1, <1>3, <4>1
      <4> QED
        BY <2>2, <2>3, <4>2
    <3> QED
      BY <3>1, <3>2
  <2> QED
    BY <2>1, <2>4
<1> HIDE DEF T
<1>4. \A k \in 0 .. n : k \in T
  BY <1>2, <1>3, TurnInduction
<1> QED
  BY <1>4 DEF T

\* What the first of the digits of u counts for is not more than u.
LEMMA LeadingPower ==
  ASSUME NEW n \in Nat, NEW ten, Powers(ten, n)
  PROVE  \A u \in Nat : Len(printnum(u, 10)) - 1 <= n =>
                         /\ u = 0 => Len(printnum(u, 10)) = 1
                         /\ u # 0 => ten[Len(printnum(u, 10)) - 1] <= u
<1> DEFINE l(u) == Len(printnum(u, 10)) - 1
           Good(u) == l(u) <= n => (u = 0 => l(u) = 0) /\ (u # 0 => ten[l(u)] <= u)
           T == {u \in Nat : Good(u)}
<1>1. /\ ten \in [0 .. n -> Nat \ {0}] /\ ten[0] = 1
      /\ \A k \in 1 .. n : ten[k] = 10 * ten[k - 1]
  BY DEF Powers
<1>2. 10 \in Bases
  BY DEF Bases
<1>3. ASSUME NEW u \in Nat
      PROVE  l(u) \in Nat /\ Len(printnum(u, 10)) \in Nat
  <2>1. printnum(u, 10) \in Seq(Glyphs) /\ Len(printnum(u, 10)) >= 1
    BY <1>2, PrintnumType
  <2>2. Len(printnum(u, 10)) \in Nat
    BY <2>1, LenProperties
  <2> QED
    BY <2>1, <2>2
<1>4. ASSUME NEW u \in Nat, \A v \in 0 .. u - 1 : v \in T
      PROVE  u \in T
  <2>1. CASE u < 10
    <3> DEFINE e == <<Digits[u + 1]>>
    <3>1. printnum(u, 10) = e
      BY <1>2, <2>1, PrintnumTurn
    <3>2. Len(e) = 1
      OBVIOUS
    <3> HIDE DEF e
    <3>3. l(u) = 0
      BY <3>1, <3>2
    <3> HIDE DEF l
    <3>4. Good(u)
      BY <1>1, <3>3
    <3> QED
      BY <3>4
  <2>2. CASE u >= 10
    <3> DEFINE v == u \div 10
               s == printnum(v, 10)
               c == Digits[(u % 10) + 1]
    <3>1. v \in 0 .. u - 1 /\ v \in Nat /\ v >= 1 /\ v * 10 <= u
      <4>1. v \in Nat /\ u % 10 \in 0 .. 10 - 1 /\ u = v * 10 + (u % 10)
        BY <1>2, BaseParts
      <4>2. v <= u - 1 /\ v >= 1
        BY <1>2, <2>2, BaseParts
      <4> HIDE DEF v
      <4> QED
        BY <4>1, <4>2
    <3>2. printnum(u, 10) = Append(s, c)
      BY <1>2, <2>2, PrintnumTurn
    <3>3. s \in Seq(Glyphs) /\ c \in Glyphs
      <4>1. (u % 10) + 1 \in 1 .. 16
        OBVIOUS
      <4>2. c \in Glyphs
        BY <4>1 DEF Glyphs
      <4> HIDE DEF v
      <4> QED
        BY <1>2, <3>1, <4>2, PrintnumType
    <3>4. l(v) = Len(s) - 1 /\ l(v) \in Nat
      BY <1>3, <3>1
    <3> HIDE DEF c, s, v
    <3>5. Len(Append(s, c)) = Len(s) + 1 /\ Len(s) \in Nat
      BY <3>3, AppendProperties, LenProperties
    <3>6. l(u) = l(v) + 1
      <4>1. l(u) = Len(s) + 1 - 1
        BY <3>2, <3>5
      <4> HIDE DEF l
      <4> QED
        BY <3>4, <3>5, <4>1
    <3>7. Good(v)
      BY <1>4, <3>1
    <3> HIDE DEF l
    <3>8. ASSUME l(u) <= n
          PROVE  ten[l(u)] <= u
      <4>1. l(v) <= n /\ l(v) \in 0 .. n /\ l(v) + 1 \in 1 .. n /\ l(v) + 1 - 1 = l(v)
        BY <3>4, <3>6, <3>8
      <4>2. ten[l(v)] <= v /\ ten[l(v)] \in Nat
        BY <1>1, <3>1, <3>7, <4>1
      <4>3. ten[l(u)] = 10 * ten[l(v)]
        BY <1>1, <3>6, <4>1
      <4> QED
        BY <3>1, <4>2, <4>3
    <3>9. Good(u)
      BY <2>2, <3>8
    <3> QED
      BY <3>9
  <2> QED
    BY <2>1, <2>2
<1> HIDE DEF T
<1>5. \A u \in Nat : u \in T
  BY <1>4, Below
<1>6. ASSUME NEW u \in Nat
      PROVE  l(u) = 0 => Len(printnum(u, 10)) = 1
  BY <1>3
<1> QED
  BY <1>5, <1>6 DEF T

\* The loop that makes the power of ten of the first digit.
LEMMA Power10Is ==
  ASSUME NEW n \in Nat, NEW ten, Powers(ten, n), ten[n] <= HALF - 1
  PROVE  Power10(n) = ten[n]
<1> DEFINE turn(j, w) == (10 * w) % HALF
           E(h) == h = [j \in 0 .. n |-> IF j = 0 THEN 1 ELSE turn(j, h[j - 1])]
           f == CHOOSE h : E(h)
<1>1. Power10(n) = f[n]
  BY DEF Power10, After
<1>2. /\ ten \in [0 .. n -> Nat \ {0}] /\ ten[0] = 1 /\ ten[n] \in 0 .. HALF - 1
      /\ \A k \in 1 .. n : ten[k] = 10 * ten[k - 1]
      /\ \A k \in 0 .. n : ten[k] \in 0 .. ten[n]
  <2>1. /\ ten \in [0 .. n -> Nat \ {0}] /\ ten[0] = 1
        /\ \A k \in 1 .. n : ten[k] = 10 * ten[k - 1]
    BY DEF Powers
  <2>2. \A k \in 0 .. n : ten[k] <= ten[n]
    BY PowersRise
  <2>3. ten[n] \in Nat /\ HALF \in Nat /\ \A k \in 0 .. n : ten[k] \in Nat
    BY <2>1, DivisionAssumption
  <2> QED
    BY <2>1, <2>2, <2>3
<1>3. ASSUME NEW j \in 1 .. n
      PROVE  ten[j] = turn(j, ten[j - 1])
  <2>1. ten[j] = 10 * ten[j - 1] /\ ten[j] \in 0 .. ten[n]
    BY <1>2
  <2>2. ten[j] % HALF = ten[j]
    BY <1>2, <2>1, SmallMod
  <2> QED
    BY <2>1, <2>2
<1>4. E(ten)
  <2>1. ten = [j \in 0 .. n |-> ten[j]]
    BY <1>2
  <2> HIDE DEF turn
  <2>2. \A j \in 0 .. n : ten[j] = IF j = 0 THEN 1 ELSE turn(j, ten[j - 1])
    BY <1>2, <1>3
  <2>3. ten = [j \in 0 .. n |-> IF j = 0 THEN 1 ELSE turn(j, ten[j - 1])]
    BY <2>1, <2>2
  <2> QED
    BY <2>3
<1>5. E(f)
  <2> HIDE DEF turn
  <2> QED
    BY <1>4
<1>6. f[0] = ten[0] /\ \A j \in 1 .. n : f[j - 1] = ten[j - 1] => f[j] = ten[j]
  <2> HIDE DEF turn, f
  <2> QED
    BY <1>4, <1>5
<1> HIDE DEF f, E
<1>7. f[n] = ten[n]
  BY <1>6, SameLoop
<1> QED
  BY <1>1, <1>7

\* A digit goes over from what is left to what is done.
LEMMA Shift10 ==
  ASSUME NEW x \in Nat, NEW w \in Nat, NEW y \in Nat
  PROVE  /\ x * (10 * y) + w * y = (x * 10 + w) * y
         /\ x * (10 * y) <= (x * 10 + w) * y
         /\ (10 * y) \div 10 = y
<1>1. x * (10 * y) + w * y = (x * 10 + w) * y
  OBVIOUS
<1>2. w * y \in Nat /\ x * (10 * y) \in Nat
  BY ProductFacts
<1> DEFINE a == x * (10 * y)
           b == w * y
           c == (x * 10 + w) * y
<1>3. a <= c
  <2>1. a + b = c /\ a \in Nat /\ b \in Nat
    BY <1>1, <1>2
  <2> HIDE DEF a, b, c
  <2> QED
    BY <2>1
<1>4. (10 * y) \div 10 = y
  OBVIOUS
<1> QED
  BY <1>1, <1>3, <1>4

\* A turn of atoi().
AtoiTurn(t, j, w) == [base |-> w.base \div 10, res |-> (w.res + Worth(t[j]) * w.base) % HALF]

\* atoi() reads what was printed in decimal, whatever number it is (atoi.c).
LEMMA AtoiReads ==
  ASSUME NEW u \in 0 .. HALF - 1
  PROVE  atoi(printnum(u, 10)) = u
<1> DEFINE t == printnum(u, 10)
           n == Len(t)
<1>1. u \in Nat /\ 10 \in Bases /\ HALF \in Nat /\ HALF > 1
  BY DivisionAssumption DEF Bases
<1>2. t \in Seq(Glyphs) /\ n >= 1 /\ n \in Nat
  <2>1. t \in Seq(Glyphs) /\ n >= 1
    BY <1>1, PrintnumType
  <2> HIDE DEF t
  <2> QED
    BY <2>1, LenProperties
<1>3. PICK g : Counts(g, t, 10, u)
  <2> DEFINE e == <<>>
  <2>1. e \in Seq({"0"}) /\ e \in Seq(Glyphs)
    OBVIOUS
  <2>2. e \o t = t
    BY <1>2, ConcatEmptySeq
  <2> HIDE DEF e
  <2>3. \E h : Counts(h, e \o t, 10, u)
    BY <1>1, <2>1, NumberCounts
  <2> QED
    BY <2>2, <2>3
<1>4. PICK ten : Powers(ten, n - 1)
  BY <1>2, PowersExist
<1>5. ten[n - 1] <= HALF - 1 /\ Power10(n - 1) = ten[n - 1]
  <2>1. n - 1 \in Nat /\ n - 1 <= n - 1
    BY <1>2
  <2>2. (u = 0 => n = 1) /\ (u # 0 => ten[n - 1] <= u)
    BY <1>1, <1>4, <2>1, LeadingPower
  <2> HIDE DEF n
  <2>3. ten[n - 1] \in Nat /\ ten[0] = 1
    BY <1>4, <2>1 DEF Powers
  <2>4. ten[n - 1] <= HALF - 1
    <3>1. CASE u = 0
      <4>1. n - 1 = 0
        BY <2>2, <3>1
      <4> QED
        BY <1>1, <2>3, <4>1
    <3>2. CASE u # 0
      BY <1>1, <2>2, <2>3, <3>2
    <3> QED
      BY <3>1, <3>2
  <2> QED
    BY <1>4, <2>1, <2>4, Power10Is
<1> HIDE DEF t, n
<1>6. /\ g \in [0 .. n -> 0 .. u] /\ g[0] = 0 /\ g[n] = u
      /\ \A i \in 1 .. n : Worth(t[i]) \in 0 .. 9 /\ g[i] = g[i - 1] * 10 + Worth(t[i])
  <2>1. \A i \in 1 .. n : Worth(t[i]) \in 0 .. 10 - 1 /\ g[i] = g[i - 1] * 10 + Worth(t[i])
    BY <1>3 DEF Counts, n
  <2>2. g \in [0 .. n -> 0 .. u] /\ g[0] = 0 /\ g[n] = u
    BY <1>3 DEF Counts, n
  <2> QED
    BY <2>1, <2>2
<1>7. /\ ten \in [0 .. n - 1 -> Nat \ {0}] /\ ten[0] = 1
      /\ \A k \in 1 .. n - 1 : ten[k] = 10 * ten[k - 1]
  BY <1>4 DEF Powers
\* What the digits read so far count for in the whole.
<1> DEFINE p(j) == IF j = 0 THEN 0 ELSE g[j] * ten[n - j]
<1>8. \A j \in 0 .. n : p(j) \in 0 .. u
  <2> DEFINE T == {i \in 0 .. n : p(n - i) \in 0 .. u}
  <2>1. 0 \in T
    <3>1. n - 0 = n /\ n - n = 0 /\ n # 0 /\ 0 \in 0 .. n
      BY <1>2
    <3>2. p(n) = u * 1
      BY <1>6, <1>7, <3>1
    <3>3. p(n) = u
      BY <1>1, <3>2
    <3> HIDE DEF p
    <3> QED
      BY <1>1, <3>1, <3>3
  <2>2. ASSUME NEW i \in 0 .. n - 1, i \in T
        PROVE  i + 1 \in T
    <3> DEFINE j == n - i
    <3>1. j \in 1 .. n /\ n - (i + 1) = j - 1 /\ i + 1 \in 0 .. n /\ n - j = i /\ n - (j - 1) = i + 1
      BY <1>2
    <3>2. p(j) \in 0 .. u /\ p(j) = g[j] * ten[i]
      BY <2>2, <3>1
    <3> HIDE DEF j
    <3>3. CASE j = 1
      <4>1. p(j - 1) = 0
        BY <3>3
      <4> HIDE DEF p
      <4> QED
        BY <1>1, <3>1, <4>1
    <3>4. CASE j # 1
      <4>1. i + 1 \in 1 .. n - 1 /\ i + 1 - 1 = i /\ i \in 0 .. n - 1 /\ j - 1 # 0 /\ j - 1 \in 0 .. n
        BY <1>2, <3>1, <3>4
      <4>2. ten[i + 1] = 10 * ten[i] /\ ten[i] \in Nat
        BY <1>7, <4>1
      <4>3. g[j] = g[j - 1] * 10 + Worth(t[j]) /\ g[j - 1] \in Nat /\ Worth(t[j]) \in Nat
        <5>1. g[j] = g[j - 1] * 10 + Worth(t[j]) /\ Worth(t[j]) \in 0 .. 9
          BY <1>6, <3>1
        <5>2. g[j - 1] \in 0 .. u
          BY <1>6, <4>1
        <5> QED
          BY <1>1, <5>1, <5>2
      <4>4. p(j - 1) = g[j - 1] * (10 * ten[i])
        BY <3>1, <4>1, <4>2
      <4>5. p(j - 1) <= p(j)
        BY <3>2, <4>2, <4>3, <4>4, Shift10
      <4>6. p(j - 1) \in Nat
        <5>1. 10 * ten[i] \in Nat
          BY <4>2
        <5> QED
          BY <4>3, <4>4, <5>1, ProductFacts
      <4> HIDE DEF p
      <4> QED
        BY <1>1, <3>1, <3>2, <4>5, <4>6
    <3> QED
      BY <3>3, <3>4
  <2> HIDE DEF T
  <2>3. \A i \in 0 .. n : i \in T
    BY <1>2, <2>1, <2>2, TurnInduction
  <2>4. ASSUME NEW j \in 0 .. n
        PROVE  p(j) \in 0 .. u
    <3>1. n - j \in 0 .. n /\ n - (n - j) = j
      BY <1>2
    <3>2. n - j \in T
      BY <2>3, <3>1
    <3> HIDE DEF p
    <3>3. p(n - (n - j)) \in 0 .. u
      BY <3>2 DEF T
    <3> QED
      BY <3>1, <3>3
  <2> QED
    BY <2>4
<1> DEFINE start == [base |-> ten[n - 1], res |-> 0]
           E(h) == h = [j \in 0 .. n |-> IF j = 0 THEN start ELSE AtoiTurn(t, j, h[j - 1])]
           f == CHOOSE h : E(h)
           b(j) == IF j = n THEN 0 ELSE ten[n - 1 - j]
           h == [j \in 0 .. n |-> [base |-> b(j), res |-> p(j)]]
<1>9. atoi(t) = f[n].res
  <2>1. \A i \in 1 .. n : isdigit(t[i])
    <3>1. ASSUME NEW i \in 1 .. n
          PROVE  Worth(t[i]) < 10
      BY <1>6
    <3> QED
      BY <3>1 DEF isdigit
  <2>2. t # <<>>
    <3>1. n # 0
      BY <1>2
    <3> QED
      BY <1>2, <3>1, EmptySeq DEF n
  <2>3. atoi(t) = atoi_from(t, ten[n - 1])
    <3>1. ~\E i \in 1 .. Len(t) : ~isdigit(t[i])
      BY <2>1 DEF n
    <3>2. atoi(t) = atoi_from(t, Power10(Len(t) - 1))
      BY <2>2, <3>1 DEF atoi
    <3> QED
      BY <1>5, <3>2 DEF n
  <2>4. atoi_from(t, ten[n - 1]) = f[n].res
    BY DEF atoi_from, After, AtoiTurn, n
  <2> QED
    BY <2>3, <2>4
<1>10. ASSUME NEW j \in 1 .. n
       PROVE  [base |-> b(j), res |-> p(j)] = AtoiTurn(t, j, [base |-> b(j - 1), res |-> p(j - 1)])
  <2> DEFINE y == ten[n - j]
             w == Worth(t[j])
  <2>1. n - j \in 0 .. n - 1 /\ n - 1 - (j - 1) = n - j /\ j - 1 # n /\ j - 1 \in 0 .. n /\ j \in 0 .. n
    BY <1>2
  <2>2. b(j - 1) = y /\ y \in Nat \ {0}
    BY <1>7, <2>1
  <2>3. w \in 0 .. 9 /\ g[j] = g[j - 1] * 10 + w /\ g[j - 1] \in Nat
    BY <1>1, <1>6, <2>1
  <2>4. p(j) = g[j] * y
    OBVIOUS
  <2>5. y \div 10 = b(j)
    <3>1. CASE j = n
      <4>1. n - j = 0 /\ b(j) = 0
        BY <1>2, <3>1
      <4>2. y = 1
        BY <1>7, <4>1
      <4> QED
        BY <4>1, <4>2
    <3>2. CASE j # n
      <4>1. n - j \in 1 .. n - 1 /\ n - 1 - j = n - j - 1 /\ n - j - 1 \in 0 .. n - 1
        BY <1>2, <3>2
      <4>2. y = 10 * ten[n - j - 1] /\ b(j) = ten[n - j - 1] /\ ten[n - j - 1] \in Nat
        BY <1>7, <3>2, <4>1
      <4> HIDE DEF y, b
      <4>3. (10 * ten[n - j - 1]) \div 10 = ten[n - j - 1]
        BY <4>2, Shift10
      <4> QED
        BY <4>2, <4>3
    <3> QED
      BY <3>1, <3>2
  <2>6. p(j - 1) + w * y = p(j)
    <3>1. CASE j = 1
      <4>1. p(j - 1) = 0 /\ g[j - 1] = 0
        BY <1>6, <3>1
      <4>2. g[j] = w
        BY <2>3, <4>1
      <4>3. w * y \in Nat
        BY <2>2, <2>3, ProductFacts
      <4> DEFINE x == w * y
      <4> HIDE DEF y, w
      <4>4. p(j) = x
        BY <2>4, <4>2
      <4> HIDE DEF p, x
      <4>5. p(j - 1) + x = p(j)
        BY <4>1, <4>3, <4>4 DEF x
      <4> QED
        BY <4>5 DEF x
    <3>2. CASE j # 1
      <4>1. n - (j - 1) \in 1 .. n - 1 /\ n - (j - 1) - 1 = n - j /\ j - 1 # 0
        BY <1>2, <3>2
      <4>2. ten[n - (j - 1)] = 10 * y
        BY <1>7, <4>1
      <4>3. p(j - 1) = g[j - 1] * (10 * y)
        BY <4>1, <4>2
      <4> HIDE DEF y, w, p
      <4>4. g[j - 1] * (10 * y) + w * y = (g[j - 1] * 10 + w) * y
        BY <2>2, <2>3, Shift10
      <4> QED
        BY <2>3, <2>4, <4>3, <4>4
    <3> QED
      BY <3>1, <3>2
  <2>7. p(j) % HALF = p(j)
    <3> HIDE DEF p
    <3>1. p(j) \in 0 .. u
      BY <1>8, <2>1
    <3> QED
      BY <3>1, SmallMod
  <2> HIDE DEF b, p, y
  <2> QED
    BY <2>2, <2>5, <2>6, <2>7 DEF AtoiTurn
<1>11. /\ h = [j \in 0 .. n |-> h[j]]
       /\ \A j \in 0 .. n : h[j] = [base |-> b(j), res |-> p(j)]
  OBVIOUS
<1>12. h[0] = start
  <2>1. 0 \in 0 .. n /\ n # 0 /\ n - 1 - 0 = n - 1
    BY <1>2
  <2>2. b(0) = ten[n - 1] /\ p(0) = 0
    BY <2>1
  <2> HIDE DEF h, b, p
  <2> QED
    BY <1>11, <2>1, <2>2
<1> HIDE DEF h
<1>13. ASSUME NEW j \in 1 .. n
       PROVE  h[j] = AtoiTurn(t, j, h[j - 1])
  <2>1. j \in 0 .. n /\ j - 1 \in 0 .. n
    BY <1>2
  <2> HIDE DEF b, p
  <2> QED
    BY <1>10, <1>11, <2>1
<1>14. E(h)
  <2> HIDE DEF start
  <2>1. \A j \in 0 .. n : h[j] = IF j = 0 THEN start ELSE AtoiTurn(t, j, h[j - 1])
    BY <1>2, <1>12, <1>13
  <2>2. h = [j \in 0 .. n |-> IF j = 0 THEN start ELSE AtoiTurn(t, j, h[j - 1])]
    BY <1>11, <2>1
  <2> QED
    BY <2>2
<1>15. E(f)
  <2> HIDE DEF start
  <2> QED
    BY <1>14
<1>16. f[0] = h[0] /\ \A j \in 1 .. n : f[j - 1] = h[j - 1] => f[j] = h[j]
  <2> HIDE DEF start, f
  <2> QED
    BY <1>2, <1>14, <1>15
<1>17. h[n].res = u
  <2>1. n \in 0 .. n /\ n # 0 /\ n - n = 0
    BY <1>2
  <2>2. p(n) = u
    <3>1. p(n) = u * 1
      BY <1>6, <1>7, <2>1
    <3> QED
      BY <1>1, <3>1
  <2> HIDE DEF p, b
  <2> QED
    BY <1>11, <2>1, <2>2
<1> HIDE DEF f, E
<1>18. f[n] = h[n]
  BY <1>2, <1>16, SameLoop
<1> QED
  BY <1>9, <1>17, <1>18 DEF t

----------------------------------------------------------------------------
(* Reading.                                                                *)

\* What numbers are padded with on either side...
Blanks == {" "}

\* A sequence of some of the characters is one of all.
LEMMA WiderSeq ==
  ASSUME NEW S, NEW T, S \subseteq T, NEW s \in Seq(S)
  PROVE  s \in Seq(T)
<1>1. Len(s) \in Nat /\ s = [i \in 1 .. Len(s) |-> s[i]] /\ \A i \in 1 .. Len(s) : s[i] \in S
  BY LenProperties
<1>2. \A i \in 1 .. Len(s) : s[i] \in T
  BY <1>1
<1>3. [i \in 1 .. Len(s) |-> s[i]] \in Seq(T)
  BY <1>1, <1>2
<1> QED
  BY <1>1, <1>3

\* Blanks, and zeros, are glyphs.
LEMMA GlyphSeqs ==
  /\ \A s \in Seq(Blanks) : s \in Seq(Glyphs)
  /\ \A s \in Seq({"0"}) : s \in Seq(Glyphs)
<1>1. Blanks \subseteq Glyphs /\ {"0"} \subseteq Glyphs
  BY Zenon DEF Glyphs, Blanks
<1>2. \A T : T \subseteq Glyphs => \A s \in Seq(T) : s \in Seq(Glyphs)
  BY WiderSeq
<1> QED
  BY <1>1, <1>2, Zenon

\* Digits behind a are read as they count, up to b.
LEMMA GlyphsRead ==
  ASSUME NEW a \in Seq(Glyphs), NEW s \in Seq(Glyphs), NEW b \in Seq(Glyphs), NEW base \in Nat \ {0},
         NEW u \in 0 .. HALF - 1, NEW g, Counts(g, s, base, u), ~IsDigitIn(CharAt(b, 1), base)
  PROVE  digits_from(a \o (s \o b), Len(a) + 1, base, 0) = [v |-> u, end |-> Len(a) + 1 + Len(s)]
<1> DEFINE t == a \o (s \o b)
<1>1. t = a \o (s \o b)
  OBVIOUS
<1> HIDE DEF t
<1>2. DigitsAre(t, a, s, base, u)
  BY <1>1, DigitsRead
<1> QED
  BY <1>2 DEF t, DigitsAre

\* Texts put together, in either order.
LEMMA Joined ==
  ASSUME NEW a \in Seq(Glyphs), NEW b \in Seq(Glyphs), NEW c \in Seq(Glyphs)
  PROVE  /\ a \o b \in Seq(Glyphs) /\ b \o c \in Seq(Glyphs) /\ a \o (b \o c) \in Seq(Glyphs)
         /\ a \o (b \o c) = (a \o b) \o c
<1>1. a \o b \in Seq(Glyphs) /\ b \o c \in Seq(Glyphs)
  BY ConcatProperties
<1>2. a \o (b \o c) \in Seq(Glyphs)
  BY <1>1, ConcatProperties
<1>3. a \o (b \o c) = (a \o b) \o c
  BY ConcatAssociative, SMTT(20)
<1> QED
  BY <1>1, <1>2, <1>3

\* Two ways to put three texts together.
Assoc(x, y, w) == (x \o y) \o w = x \o (y \o w)

\* Texts are put together in either order, by name.
LEMMA Assocs == \A x, y, w \in Seq(Glyphs) : Assoc(x, y, w)
<1> SUFFICES ASSUME NEW x \in Seq(Glyphs), NEW y \in Seq(Glyphs), NEW w \in Seq(Glyphs)
             PROVE  Assoc(x, y, w)
  BY Zenon
<1>1. x \o (y \o w) = (x \o y) \o w
  BY Joined, Zenon
<1> QED
  BY <1>1, Zenon DEF Assoc

\* The first two characters behind a text.
LEMMA CharBehind ==
  ASSUME NEW a \in Seq(Glyphs), NEW b \in Seq(Glyphs)
  PROVE  /\ CharAt(a \o b, Len(a) + 1) = CharAt(b, 1)
         /\ CharAt(a \o b, Len(a) + 2) = CharAt(b, 2)
         /\ \A i \in 1 .. Len(a) : CharAt(a \o b, i) = a[i]
<1>1. 1 \in Nat \ {0} /\ 2 \in Nat \ {0}
  OBVIOUS
<1> QED
  BY <1>1, CharAtConcat

\* r is read as u in this base, wherever it begins.
ReadsAs(r, base, u) ==
  \A c \in Seq(Glyphs) : \E e : unsigned_from(c \o r, Len(c) + 1, base) = [v |-> u, end |-> e]

\* No digit follows a number, and no x.
LEMMA BehindBlank ==
  ASSUME NEW b \in Seq(Blanks)
  PROVE  /\ Worth(CharAt(b, 1)) \in Nat /\ Worth(CharAt(b, 1)) >= 16
         /\ CharAt(b, 1) \notin {"x", "X"}
<1>1. Len(b) \in Nat /\ \A i \in 1 .. Len(b) : b[i] \in Blanks
  BY LenProperties
<1>2. 1 <= Len(b) => b[1] \in Blanks
  BY <1>1
<1>3. CharAt(b, 1) \in Blanks \/ CharAt(b, 1) = NUL
  BY <1>2, Zenon DEF CharAt
<1>4. \A c : c \in Blanks \/ c = NUL =>
        c \notin {"x", "X"} /\ c \in {" ", "-", "x", "X", "TAB", "NEWLINE", NUL}
  BY Zenon DEF Blanks, NUL
<1>5. Worth(CharAt(b, 1)) \in Nat /\ Worth(CharAt(b, 1)) >= 16
  BY <1>3, <1>4, WorthFacts, Zenon
<1> QED
  BY <1>3, <1>4, <1>5, Zenon

\* Digits begin with a digit and hold no x.
LEMMA DigitFacts ==
  ASSUME NEW s \in Seq(Glyphs), Len(s) >= 1, NEW b \in Seq(Blanks), NEW base \in Bases, NEW u, NEW g,
         Counts(g, s, base, u)
  PROVE  /\ Worth(CharAt(s \o b, 1)) \in 0 .. 15
         /\ \A a \in Seq(Glyphs) : ~HasPrefix(a \o (s \o b), Len(a) + 1)
<1>1. Len(s) \in Nat /\ b \in Seq(Glyphs) /\ s \o b \in Seq(Glyphs) /\ base <= 16 /\ base \in Nat
  BY GlyphSeqs, ConcatProperties, LenProperties DEF Bases
<1>2. \A i \in 1 .. Len(s) : Worth(s[i]) \in 0 .. base - 1 /\ CharAt(s \o b, i) = s[i]
  BY <1>1, CharAtConcat DEF Counts
<1>3. ASSUME NEW a \in Seq(Glyphs), HasPrefix(a \o (s \o b), Len(a) + 1)
      PROVE  FALSE
  <2>1. Len(a) + 1 + 1 = Len(a) + 2
    BY LenProperties
  <2>2. CharAt(a \o (s \o b), Len(a) + 2) = CharAt(s \o b, 2)
    BY <1>1, CharBehind
  <2>3. CharAt(s \o b, 2) \in {"x", "X"}
    BY <1>3, <2>1, <2>2 DEF HasPrefix
  <2>4. Worth(CharAt(s \o b, 2)) >= 16 /\ Worth(CharAt(s \o b, 2)) \in Nat
    BY <2>3, WorthFacts, Zenon
  <2>5. CASE Len(s) >= 2
    <3>1. 2 \in 1 .. Len(s)
      BY <1>1, <2>5
    <3>2. Worth(CharAt(s \o b, 2)) \in 0 .. base - 1
      BY <1>2, <3>1
    <3> QED
      BY <1>1, <2>4, <3>2
  <2>6. CASE ~(Len(s) >= 2)
    <3>1. Len(s) + 1 = 2 /\ 1 \in Nat \ {0}
      BY <1>1, <2>6
    <3>2. CharAt(s \o b, 2) = CharAt(b, 1)
      BY <1>1, <3>1, CharAtConcat
    <3> QED
      BY <2>3, <3>2, BehindBlank
  <2> QED
    BY <2>5, <2>6
<1>4. Worth(CharAt(s \o b, 1)) \in 0 .. 15
  <2>1. 1 \in 1 .. Len(s)
    BY <1>1
  <2>2. Worth(CharAt(s \o b, 1)) \in 0 .. base - 1
    BY <1>2, <2>1
  <2> QED
    BY <1>1, <2>2, SMTT(20)
<1> QED
  BY <1>3, <1>4

\* Digits that blanks follow are read in their base.
LEMMA PlainReads ==
  ASSUME NEW s \in Seq(Glyphs), Len(s) >= 1, NEW b \in Seq(Blanks), NEW base \in Bases,
         NEW u \in 0 .. HALF - 1, NEW g, Counts(g, s, base, u)
  PROVE  ReadsAs(s \o b, base, u)
<1> SUFFICES ASSUME NEW a \in Seq(Glyphs)
             PROVE  \E e : unsigned_from(a \o (s \o b), Len(a) + 1, base) = [v |-> u, end |-> e]
  BY DEF ReadsAs
<1>1. b \in Seq(Glyphs) /\ base \in Nat \ {0} /\ base <= 16
  BY GlyphSeqs DEF Bases
<1>2. ~HasPrefix(a \o (s \o b), Len(a) + 1)
  BY DigitFacts
<1>3. ~IsDigitIn(CharAt(b, 1), base)
  <2>1. Worth(CharAt(b, 1)) \in Nat /\ Worth(CharAt(b, 1)) >= 16
    BY BehindBlank
  <2> QED
    BY <1>1, <2>1 DEF IsDigitIn
<1>4. unsigned_from(a \o (s \o b), Len(a) + 1, base) = digits_from(a \o (s \o b), Len(a) + 1, base, 0)
  <2>1. base # 0
    BY <1>1
  <2> QED
    BY <1>2, <2>1 DEF unsigned_from
<1>5. digits_from(a \o (s \o b), Len(a) + 1, base, 0) = [v |-> u, end |-> Len(a) + 1 + Len(s)]
  <2>1. base \in Nat \ {0}
    BY <1>1
  <2> QED
    BY <1>1, <1>3, <2>1, GlyphsRead
<1> QED
  BY <1>4, <1>5

\* Zeros are read as 0 in base 0, which they take for base 8.
LEMMA ZeroReads ==
  ASSUME NEW s \in Seq({"0"}), Len(s) >= 1, NEW b \in Seq(Blanks)
  PROVE  ReadsAs(s \o b, 0, 0)
<1> SUFFICES ASSUME NEW a \in Seq(Glyphs)
             PROVE  \E e : unsigned_from(a \o (s \o b), Len(a) + 1, 0) = [v |-> 0, end |-> e]
  BY DEF ReadsAs
<1>1. b \in Seq(Glyphs) /\ s \in Seq(Glyphs) /\ 8 \in Bases /\ 10 \in Bases /\ 0 \in 0 .. HALF - 1
  BY GlyphSeqs, DivisionAssumption DEF Bases
<1>2. ~HasPrefix(a \o (s \o b), Len(a) + 1)
  <2>1. \E g : Counts(g, s, 8, 0)
    BY ZerosCount
  <2> QED
    BY <1>1, <2>1, DigitFacts
<1>3. ASSUME NEW base \in {8, 10}
      PROVE  digits_from(a \o (s \o b), Len(a) + 1, base, 0) = [v |-> 0, end |-> Len(a) + 1 + Len(s)]
  <2>1. base \in Nat \ {0} /\ base <= 16
    BY <1>3
  <2>2. ~IsDigitIn(CharAt(b, 1), base)
    <3>1. Worth(CharAt(b, 1)) \in Nat /\ Worth(CharAt(b, 1)) >= 16
      BY BehindBlank
    <3> QED
      BY <2>1, <3>1 DEF IsDigitIn
  <2>3. PICK g : Counts(g, s, base, 0)
    BY <2>1, ZerosCount
  <2>4. base \in Nat \ {0} /\ b \in Seq(Glyphs) /\ s \in Seq(Glyphs) /\ 0 \in 0 .. HALF - 1
    BY <1>1, <2>1
  <2> QED
    BY <2>2, <2>3, <2>4, GlyphsRead
<1> DEFINE base == IF CharAt(a \o (s \o b), Len(a) + 1) = "0" THEN 8 ELSE 10
<1>4. unsigned_from(a \o (s \o b), Len(a) + 1, 0) = digits_from(a \o (s \o b), Len(a) + 1, base, 0)
  BY <1>2 DEF unsigned_from
<1>5. base \in {8, 10}
  OBVIOUS
<1> HIDE DEF base
<1> QED
  BY <1>3, <1>4, <1>5

\* Digits behind 0x are read in base 16, and in base 0.
LEMMA HexReads ==
  ASSUME NEW s \in Seq(Glyphs), NEW b \in Seq(Blanks), NEW base \in {0, 16},
         NEW u \in 0 .. HALF - 1, NEW g, Counts(g, s, 16, u)
  PROVE  ReadsAs(<<"0", "x">> \o (s \o b), base, u)
<1> DEFINE x == <<"0", "x">>
<1> SUFFICES ASSUME NEW a \in Seq(Glyphs)
             PROVE  \E e : unsigned_from(a \o (x \o (s \o b)), Len(a) + 1, base) = [v |-> u, end |-> e]
  BY DEF ReadsAs
<1>1. x \in Seq(Glyphs) /\ Len(x) = 2 /\ x[1] = "0" /\ x[2] = "x"
  <2>1. "0" \in Glyphs /\ "x" \in Glyphs
    BY DEF Glyphs
  <2>2. \A c, e \in Glyphs : <<c, e>> \in Seq(Glyphs)
    OBVIOUS
  <2> QED
    BY <2>1, <2>2
<1> HIDE DEF x
<1>2. b \in Seq(Glyphs) /\ s \o b \in Seq(Glyphs) /\ x \o (s \o b) \in Seq(Glyphs) /\ Len(a) \in Nat
  BY <1>1, GlyphSeqs, ConcatProperties, LenProperties
<1> DEFINE t == a \o (x \o (s \o b))
           ax == a \o x
<1>3. HasPrefix(t, Len(a) + 1)
  <2>1. CharAt(t, Len(a) + 1) = CharAt(x \o (s \o b), 1) /\ CharAt(t, Len(a) + 2) = CharAt(x \o (s \o b), 2)
    BY <1>2, CharBehind
  <2>2. 1 \in 1 .. Len(x) /\ 2 \in 1 .. Len(x)
    BY <1>1
  <2>3. CharAt(x \o (s \o b), 1) = x[1] /\ CharAt(x \o (s \o b), 2) = x[2]
    BY <1>1, <1>2, <2>2, CharAtConcat
  <2>4. Len(a) + 1 + 1 = Len(a) + 2
    BY <1>2
  <2> HIDE DEF t
  <2> QED
    BY <1>1, <2>1, <2>3, <2>4 DEF HasPrefix
<1>4. ax \in Seq(Glyphs) /\ Len(ax) + 1 = Len(a) + 1 + 2
  <2>1. ax \in Seq(Glyphs) /\ Len(ax) = Len(a) + Len(x)
    BY <1>1, ConcatProperties
  <2> HIDE DEF ax
  <2> QED
    BY <1>1, <1>2, <2>1
<1>5. t = ax \o (s \o b)
  <2>1. Assoc(a, x, s \o b)
    BY <1>1, <1>2, Assocs
  <2> QED
    BY <2>1, Zenon DEF Assoc
<1> HIDE DEF t, ax
<1>6. unsigned_from(t, Len(a) + 1, base) = digits_from(t, Len(ax) + 1, 16, 0)
  BY <1>3, <1>4 DEF unsigned_from
<1>7. ~IsDigitIn(CharAt(b, 1), 16)
  <2>1. Worth(CharAt(b, 1)) \in Nat /\ Worth(CharAt(b, 1)) >= 16
    BY BehindBlank
  <2> QED
    BY <2>1 DEF IsDigitIn
<1>8. digits_from(t, Len(ax) + 1, 16, 0) = [v |-> u, end |-> Len(ax) + 1 + Len(s)]
  <2>1. 16 \in Nat \ {0}
    OBVIOUS
  <2> QED
    BY <1>2, <1>4, <1>5, <1>7, <2>1, GlyphsRead, SMTT(20)
<1>9. \E e : unsigned_from(t, Len(a) + 1, base) = [v |-> u, end |-> e]
  BY <1>6, <1>8
<1> QED
  BY <1>9 DEF t

----------------------------------------------------------------------------
(* Reading back.                                                           *)

\* Blanks are spaces; a digit is neither a space nor a minus.
LEMMA SpaceFacts ==
  /\ \A c \in Blanks : isspace(c)
  /\ \A c : Worth(c) \in 0 .. 15 => ~isspace(c) /\ c # "-"
  /\ ~isspace("-")
<1>1. \A c \in Blanks : isspace(c)
  BY Zenon DEF Blanks, isspace
<1>2. \A c \in {" ", "-", "TAB", "NEWLINE"} : Worth(c) \in Nat /\ Worth(c) >= 16
  BY WorthFacts, Zenon
<1>3. ASSUME NEW c, Worth(c) \in 0 .. 15
      PROVE  ~(Worth(c) \in Nat /\ Worth(c) >= 16)
  BY <1>3
<1>4. ~isspace("-")
  BY Zenon DEF isspace
<1>5. \A c : Worth(c) \in 0 .. 15 => ~isspace(c) /\ c # "-"
  BY <1>2, <1>3, Zenon DEF isspace
<1> QED
  BY <1>1, <1>4, <1>5

\* The blanks before a number are skipped.
LEMMA SpacesSkipped ==
  ASSUME NEW a \in Seq(Blanks), NEW r \in Seq(Glyphs), ~isspace(CharAt(r, 1))
  PROVE  skip_spaces(a \o r, 1) = Len(a) + 1
<1> DEFINE t == a \o r
           n == Len(t)
           e == Len(a) + 1
           stops == {i \in 1 .. n + 1 : ~isspace(CharAt(t, i))}
<1>1. a \in Seq(Glyphs)
  BY GlyphSeqs
<1>2. Len(a) \in Nat /\ n \in Nat /\ e \in 1 .. 1 + n /\ e \in 1 .. n + 1
  <2>1. Len(t) = Len(a) + Len(r) /\ Len(a) \in Nat /\ Len(r) \in Nat
    BY <1>1, ConcatProperties, LenProperties
  <2> HIDE DEF t
  <2> QED
    BY <2>1
<1>3. CharAt(t, e) = CharAt(r, 1) /\ \A i \in 1 .. Len(a) : CharAt(t, i) = a[i]
  BY <1>1, CharBehind
<1> HIDE DEF t
<1>4. e \in stops
  BY <1>2, <1>3
<1>5. \A i \in 1 .. Len(a) : isspace(CharAt(t, i))
  <2>1. \A i \in 1 .. Len(a) : a[i] \in Blanks
    BY LenProperties
  <2> QED
    BY <1>3, <2>1, SpaceFacts, Zenon
<1>6. \A i \in 1 .. e - 1 : i \notin stops
  <2>1. \A i \in 1 .. e - 1 : i \in 1 .. Len(a)
    BY <1>2
  <2> QED
    BY <1>5, <2>1
<1>7. skip_spaces(t, 1) = Up(n, 1, stops)
  BY DEF skip_spaces
<1> HIDE DEF n, e, stops
<1>8. Up(n, 1, stops) = e
  <2>1. 1 \in Nat
    OBVIOUS
  <2> QED
    BY <1>2, <1>4, <1>6, <2>1, UpIs
<1> QED
  BY <1>7, <1>8 DEF t, e

\* A number without a sign.
LEMMA PlainRead ==
  ASSUME NEW a \in Seq(Blanks), NEW r \in Seq(Glyphs), Worth(CharAt(r, 1)) \in 0 .. 15,
         NEW base, NEW u, ReadsAs(r, base, u)
  PROVE  strtoul(a \o r, base).v = u /\ strtol(a \o r, base).v = u
<1> DEFINE t == a \o r
           p == skip_spaces(t, 1)
<1>1. a \in Seq(Glyphs)
  BY GlyphSeqs
<1>2. p = Len(a) + 1
  BY SpaceFacts, SpacesSkipped
<1>3. CharAt(t, Len(a) + 1) = CharAt(r, 1)
  BY <1>1, CharBehind
<1>4. PICK e : unsigned_from(t, Len(a) + 1, base) = [v |-> u, end |-> e]
  BY <1>1 DEF ReadsAs
<1>5. CharAt(r, 1) # "-"
  BY SpaceFacts
<1> HIDE DEF t
<1>6. strtoul(t, base) = [v |-> u, end |-> e]
  BY <1>2, <1>4 DEF strtoul
<1>7. strtol(t, base) = [v |-> u, end |-> e]
  BY <1>2, <1>3, <1>4, <1>5 DEF strtol
<1>8. strtoul(t, base).v = u /\ strtol(t, base).v = u
  BY <1>6, <1>7
<1> QED
  BY <1>8 DEF t

\* The sign of a negative number.
Minus == <<"-">>

\* A minus is a text of one character.
LEMMA MinusFacts == Minus \in Seq(Glyphs) /\ Len(Minus) = 1 /\ Minus[1] = "-"
<1>1. "-" \in Glyphs
  BY Zenon DEF Glyphs
<1>2. \A c : c \in Glyphs => <<c>> \in Seq(Glyphs) /\ Len(<<c>>) = 1 /\ <<c>>[1] = c
  OBVIOUS
<1> QED
  BY <1>1, <1>2, Zenon DEF Minus

\* A number behind a '-'.
LEMMA NegativeRead ==
  ASSUME NEW a \in Seq(Blanks), NEW r \in Seq(Glyphs), NEW base,
         NEW u \in 0 .. HALF - 1, u # 0, ReadsAs(r, base, u)
  PROVE  strtol(a \o (Minus \o r), base).v = HALF - u
<1> DEFINE s == Minus \o r
           t == a \o s
           c == a \o Minus
           p == skip_spaces(t, 1)
<1>1. a \in Seq(Glyphs) /\ Len(a) \in Nat
  BY GlyphSeqs, LenProperties
<1>2. s \in Seq(Glyphs) /\ CharAt(s, 1) = "-"
  <2>1. 1 \in 1 .. Len(Minus)
    BY MinusFacts
  <2>2. CharAt(s, 1) = Minus[1]
    BY <2>1, MinusFacts, CharBehind
  <2> QED
    BY <2>2, MinusFacts, Joined
<1>3. t = c \o r /\ c \in Seq(Glyphs) /\ Len(c) = Len(a) + 1
  <2>1. \A x, y \in Seq(Glyphs) : x \o y \in Seq(Glyphs)
    BY Joined
  <2>2. \A x, y \in Seq(Glyphs) : Len(x \o y) = Len(x) + Len(y)
    BY ConcatProperties
  <2>3. Minus \in Seq(Glyphs) /\ Len(Minus) = 1
    BY MinusFacts, Zenon
  <2>4. Len(c) = Len(a) + 1 /\ c \in Seq(Glyphs)
    <3>1. Len(c) = Len(a) + Len(Minus)
      BY <1>1, <2>2, <2>3
    <3> QED
      BY <1>1, <2>1, <2>3, <3>1
  <2>5. t = c \o r
    <3>1. Assoc(a, Minus, r)
      BY <1>1, <2>3, Assocs
    <3> QED
      BY <3>1, Zenon DEF Assoc
  <2> QED
    BY <2>4, <2>5
<1> HIDE DEF s, c
<1>4. p = Len(a) + 1
  <2>1. ~isspace(CharAt(s, 1))
    BY <1>2, SpaceFacts, Zenon
  <2> QED
    BY <1>2, <2>1, SpacesSkipped
<1>5. CharAt(t, Len(a) + 1) = "-"
  <2>1. CharAt(t, Len(a) + 1) = CharAt(s, 1)
    BY <1>1, <1>2, CharBehind
  <2> QED
    BY <1>2, <2>1, Zenon
<1>6. PICK e : unsigned_from(c \o r, Len(c) + 1, base) = [v |-> u, end |-> e]
  BY <1>3 DEF ReadsAs
<1> HIDE DEF t
<1>7. unsigned_from(t, Len(a) + 1 + 1, base) = [v |-> u, end |-> e]
  BY <1>3, <1>6
<1>8. strtol(t, base) = Negated([v |-> u, end |-> e])
  <2>1. CharAt(t, p) = "-" /\ p + 1 = Len(a) + 1 + 1
    BY <1>4, <1>5
  <2> HIDE DEF p
  <2>2. unsigned_from(t, p + 1, base) = [v |-> u, end |-> e]
    BY <1>7, <2>1
  <2>3. strtol(t, base) = IF CharAt(t, p) = "-" THEN Negated(unsigned_from(t, p + 1, base))
                                                ELSE unsigned_from(t, p, base)
    BY DEF strtol, p
  <2> QED
    BY <2>1, <2>2, <2>3, Zenon
<1>9. Negated([v |-> u, end |-> e]).v = HALF - u
  BY DEF Negated
<1>10. strtol(t, base).v = HALF - u
  BY <1>8, <1>9
<1> QED
  BY <1>10 DEF t, s

----------------------------------------------------------------------------
(* What is read back.                                                      *)

\* ... and behind their prefix.
Zeros == {"0"}

\* Two ways to put a field together.
Regrouped(A, sign, prefix, Z, F, digits, R) ==
  (((((A \o sign) \o prefix) \o Z) \o F) \o digits) \o R
  = A \o (sign \o (prefix \o (((Z \o F) \o digits) \o R)))

\* What field() puts together from the left, from the right.
LEMMA Regroup ==
  ASSUME NEW A \in Seq(Glyphs), NEW sign \in Seq(Glyphs), NEW prefix \in Seq(Glyphs),
         NEW Z \in Seq(Glyphs), NEW F \in Seq(Glyphs), NEW digits \in Seq(Glyphs), NEW R \in Seq(Glyphs)
  PROVE  Regrouped(A, sign, prefix, Z, F, digits, R)
<1> DEFINE x1 == A \o sign
           x2 == x1 \o prefix
           z == Z \o F
           g == z \o digits
           h == g \o R
           k == prefix \o h
<1>1. x1 \in Seq(Glyphs)
  BY Joined
<1>2. z \in Seq(Glyphs)
  BY Joined
<1> HIDE DEF x1, z
<1>3. x2 \in Seq(Glyphs) /\ g \in Seq(Glyphs)
  BY <1>1, <1>2, Joined
<1> HIDE DEF x2, g
<1>4. h \in Seq(Glyphs)
  BY <1>3, Joined
<1> HIDE DEF h
<1>5. k \in Seq(Glyphs)
  BY <1>4, Joined
<1> HIDE DEF k
<1>6. Assoc(x2, Z, F) /\ Assoc(x2, z, digits) /\ Assoc(x2, g, R)
  BY <1>3, <1>2, Assocs
<1>7. Assoc(x1, prefix, h) /\ Assoc(A, sign, k)
  BY <1>1, <1>4, <1>5, Assocs
<1>8. (((x2 \o Z) \o F) \o digits) \o R = x2 \o h
  BY <1>6, Zenon DEF z, g, h, Assoc
<1>9. x2 \o h = A \o (sign \o k)
  BY <1>7, Zenon DEF x2, x1, k, Assoc
<1> QED
  BY <1>8, <1>9, Zenon DEF x2, x1, k, h, g, z, Regrouped

\* Blanks, sign, prefix, zeros, digits, blanks.
Shaped(x, sign, prefix, digits) ==
  \E a \in Seq(Blanks), z \in Seq(Zeros), b \in Seq(Blanks) :
    x = a \o (sign \o (prefix \o ((z \o digits) \o b)))

\* A field is blanks, a sign, a prefix, zeros, digits and blanks.
LEMMA FieldShape ==
  ASSUME NEW d, NEW sign \in Seq(Glyphs), NEW prefix \in Seq(Glyphs), NEW digits \in Seq(Glyphs),
         length(d) \in Int, d.prec \in Int
  PROVE  Shaped(field(d, sign, prefix, digits), sign, prefix, digits)
<1> DEFINE short  == Max({0, d.prec - Len(digits)})
           fill   == room(d, sign, prefix, digits) - short
           blanks == Copies(" ", fill)
           e      == <<>>
           A == IF zero_padded(d) \/ ladjust(d) THEN e ELSE blanks
           Z == Copies("0", short)
           F == IF zero_padded(d) THEN Copies("0", fill) ELSE e
           R == IF ladjust(d) /\ ~zero_padded(d) THEN blanks ELSE e
<1>1. field(d, sign, prefix, digits) = (((((A \o sign) \o prefix) \o Z) \o F) \o digits) \o R
  BY DEF field
<1>2. Len(sign) \in Nat /\ Len(prefix) \in Nat /\ Len(digits) \in Nat
  BY LenProperties
<1>3. short \in Int
  <2>1. d.prec - Len(digits) \in Int
    BY <1>2
  <2>2. short = IF 0 <= d.prec - Len(digits) THEN d.prec - Len(digits) ELSE 0
    BY <2>1, MaxOfTwo
  <2> HIDE DEF short
  <2> QED
    BY <2>1, <2>2
<1> HIDE DEF short
<1>4. fill \in Int
  <2>1. fill = length(d) - Len(digits) - Len(sign) - Len(prefix) - short
    BY DEF room
  <2> HIDE DEF fill
  <2> QED
    BY <1>2, <1>3, <2>1
<1> HIDE DEF fill
<1>5. " " \in Blanks /\ "0" \in Zeros
  BY Zenon DEF Blanks, Zeros
<1>6. /\ \A c \in Blanks, n \in Int : Copies(c, n) \in Seq(Blanks)
      /\ \A c \in Zeros, n \in Int : Copies(c, n) \in Seq(Zeros)
  BY CopiesFacts
<1>7. blanks \in Seq(Blanks) /\ Z \in Seq(Zeros) /\ Copies("0", fill) \in Seq(Zeros)
  BY <1>3, <1>4, <1>5, <1>6, Zenon
<1>8. e \in Seq(Blanks) /\ e \in Seq(Zeros)
  OBVIOUS
<1> HIDE DEF blanks, e, Z
<1>9. A \in Seq(Blanks) /\ R \in Seq(Blanks) /\ F \in Seq(Zeros)
  BY <1>7, <1>8, Zenon
<1> HIDE DEF A, R, F
<1> DEFINE z == Z \o F
<1>10. z \in Seq(Zeros)
  BY <1>7, <1>9, ConcatProperties
<1>11. /\ A \in Seq(Glyphs) /\ R \in Seq(Glyphs) /\ F \in Seq(Glyphs) /\ Z \in Seq(Glyphs)
       /\ z \in Seq(Glyphs)
  BY <1>7, <1>9, <1>10, GlyphSeqs DEF Zeros
<1>12. field(d, sign, prefix, digits) = A \o (sign \o (prefix \o ((z \o digits) \o R)))
  <2>1. Regrouped(A, sign, prefix, Z, F, digits, R)
    BY <1>11, Regroup
  <2> QED
    BY <1>1, <2>1, Zenon DEF Regrouped, z
<1> HIDE DEF z
<1> QED
  BY <1>9, <1>10, <1>12 DEF Shaped

\* Digits behind zeros.
LEMMA DigitsShape ==
  ASSUME NEW base \in Bases, NEW u \in 0 .. HALF - 1, NEW z \in Seq(Zeros), NEW b \in Seq(Blanks),
         NEW s, s = z \o printnum(u, base)
  PROVE  /\ s \in Seq(Glyphs) /\ Len(s) >= 1 /\ s \o b \in Seq(Glyphs)
         /\ \E g : Counts(g, s, base, u)
         /\ Worth(CharAt(s \o b, 1)) \in 0 .. 15
         /\ ReadsAs(s \o b, base, u)
<1>1. u \in Nat
  OBVIOUS
<1>2. printnum(u, base) \in Seq(Glyphs) /\ Len(printnum(u, base)) >= 1
  BY <1>1, PrintnumType
<1>3. z \in Seq(Glyphs) /\ b \in Seq(Glyphs)
  BY GlyphSeqs DEF Zeros
<1>4. s \in Seq(Glyphs) /\ Len(s) = Len(z) + Len(printnum(u, base))
  BY <1>2, <1>3, ConcatProperties
<1>5. Len(s) >= 1
  <2>1. Len(z) \in Nat /\ Len(printnum(u, base)) \in Nat
    BY <1>2, LenProperties
  <2> QED
    BY <1>2, <1>4, <2>1
<1>6. PICK g : Counts(g, s, base, u)
  BY <1>1, NumberCounts DEF Zeros
<1>7. s \o b \in Seq(Glyphs)
  BY <1>3, <1>4, Joined
<1>8. Worth(CharAt(s \o b, 1)) \in 0 .. 15
  BY <1>4, <1>5, <1>6, DigitFacts
<1>9. ReadsAs(s \o b, base, u)
  BY <1>4, <1>5, <1>6, PlainReads
<1> QED
  BY <1>4, <1>5, <1>6, <1>7, <1>8, <1>9

\* What is behind the sign is read as what was printed.
RestReads(r, base, u) == Worth(CharAt(r, 1)) \in 0 .. 15 /\ ReadsAs(r, base, u)

\* Digits behind 0x...
LEMMA HexRest ==
  ASSUME NEW base \in {0, 16}, NEW u \in 0 .. HALF - 1, NEW b \in Seq(Blanks), NEW s \in Seq(Glyphs),
         NEW g, Counts(g, s, 16, u)
  PROVE  <<"0", "x">> \o (s \o b) \in Seq(Glyphs) /\ RestReads(<<"0", "x">> \o (s \o b), base, u)
<1> DEFINE x == <<"0", "x">>
           y == s \o b
<1>1. x \in Seq(Glyphs) /\ Len(x) = 2 /\ x[1] = "0"
  <2>1. "0" \in Glyphs /\ "x" \in Glyphs
    BY DEF Glyphs
  <2>2. \A c, e \in Glyphs : <<c, e>> \in Seq(Glyphs)
    OBVIOUS
  <2> QED
    BY <2>1, <2>2
<1>2. y \in Seq(Glyphs)
  BY GlyphSeqs, Joined
<1>3. ReadsAs(x \o y, base, u)
  BY HexReads
<1> HIDE DEF x, y
<1>4. x \o y \in Seq(Glyphs) /\ CharAt(x \o y, 1) = "0"
  <2>1. 1 \in 1 .. Len(x)
    BY <1>1
  <2>2. CharAt(x \o y, 1) = x[1]
    BY <1>1, <1>2, <2>1, CharBehind
  <2> QED
    BY <1>1, <1>2, <2>2, Joined
<1>5. Worth("0") = 0
  <2>1. 0 \in 0 .. 15 /\ Digits[0 + 1] = "0"
    BY DEF Digits
  <2> QED
    BY <2>1, WorthFacts
<1>6. RestReads(x \o y, base, u)
  BY <1>3, <1>4, <1>5 DEF RestReads
<1> QED
  BY <1>4, <1>6 DEF x, y

\* ... behind 0, or behind no prefix, are read, in base 0 too where the prefix tells the base.
LEMMA RestRead ==
  ASSUME NEW d, NEW base \in Bases, NEW u \in 0 .. HALF - 1, NEW z \in Seq(Zeros), NEW b \in Seq(Blanks),
         NEW r, r = prefix_of(d, u, base) \o ((z \o printnum(u, base)) \o b)
  PROVE  /\ r \in Seq(Glyphs) /\ RestReads(r, base, u)
         /\ "#" \in d.flags /\ base = 16 => RestReads(r, 0, u)
<1> DEFINE digits == printnum(u, base)
           s == z \o digits
           y == s \o b
           zero == <<"0">>
<1>1. /\ s \in Seq(Glyphs) /\ Len(s) >= 1 /\ y \in Seq(Glyphs)
      /\ Worth(CharAt(y, 1)) \in 0 .. 15 /\ ReadsAs(y, base, u)
  BY DigitsShape
<1>2. PICK g : Counts(g, s, base, u)
  BY DigitsShape
<1>3. r = prefix_of(d, u, base) \o y
  OBVIOUS
<1>4. CASE u # 0 /\ "#" \in d.flags /\ base = 8
  <2>1. r = zero \o y
    BY <1>3, <1>4 DEF prefix_of
  <2>2. zero \in Seq(Zeros) /\ zero \in Seq(Glyphs) /\ z \in Seq(Glyphs) /\ b \in Seq(Glyphs)
    <3>1. "0" \in Zeros
      BY DEF Zeros
    <3>2. \A c \in Zeros : <<c>> \in Seq(Zeros)
      OBVIOUS
    <3> QED
      BY <3>1, <3>2, GlyphSeqs DEF Zeros
  <2> DEFINE zz == zero \o z
             ss == zz \o digits
  <2>3. zz \in Seq(Zeros)
    BY <2>2, ConcatProperties
  <2>4. digits \in Seq(Glyphs)
    BY PrintnumType
  <2> HIDE DEF zero, digits
  <2>5. r = ss \o b
    <3>1. zero \o (z \o digits) = (zero \o z) \o digits
      <4>1. Assoc(zero, z, digits)
        BY <2>2, <2>4, Assocs
      <4> QED
        BY <4>1, Zenon DEF Assoc
    <3>2. zero \o (s \o b) = (zero \o s) \o b
      <4> HIDE DEF s
      <4>1. Assoc(zero, s, b)
        BY <1>1, <2>2, Assocs
      <4> QED
        BY <4>1, Zenon DEF Assoc
    <3> QED
      BY <2>1, <3>1, <3>2, Zenon
  <2>6. ss = zz \o printnum(u, base)
    BY DEF digits
  <2> HIDE DEF ss, zz
  <2>7. /\ ss \o b \in Seq(Glyphs) /\ Worth(CharAt(ss \o b, 1)) \in 0 .. 15
        /\ ReadsAs(ss \o b, base, u)
    BY <2>3, <2>6, DigitsShape
  <2>8. r \in Seq(Glyphs) /\ RestReads(r, base, u)
    BY <2>5, <2>7, Zenon DEF RestReads
  <2>9. ~(base = 16)
    BY <1>4
  <2> QED
    BY <2>8, <2>9
<1>5. CASE u # 0 /\ "#" \in d.flags /\ base = 16
  <2>1. r = <<"0", "x">> \o (s \o b)
    BY <1>3, <1>5 DEF prefix_of
  <2>2. Counts(g, s, 16, u)
    BY <1>2, <1>5
  <2> HIDE DEF s
  <2>3. \A k \in {0, 16} : r \in Seq(Glyphs) /\ RestReads(r, k, u)
    BY <1>1, <2>1, <2>2, HexRest
  <2> QED
    BY <1>5, <2>3
<1>6. CASE ~(u # 0 /\ "#" \in d.flags /\ base = 8) /\ ~(u # 0 /\ "#" \in d.flags /\ base = 16)
  <2>1. r = <<>> \o y
    <3>1. prefix_of(d, u, base) = <<>>
      BY <1>6 DEF prefix_of
    <3> QED
      BY <1>3, <3>1
  <2>2. r = y
    <3> HIDE DEF y
    <3> QED
      BY <1>1, <2>1, ConcatEmptySeq
  <2>3. RestReads(r, base, u)
    BY <1>1, <2>2 DEF RestReads
  <2>4. ASSUME "#" \in d.flags, base = 16
        PROVE  RestReads(r, 0, u)
    <3>1. u = 0
      BY <1>6, <2>4
    <3>2. digits = <<"0">>
      <4>1. 0 \in Nat /\ 16 \in Bases /\ 0 < 16 /\ Digits[0 + 1] = "0"
        BY DEF Bases, Digits
      <4>2. printnum(0, 16) = <<Digits[0 + 1]>>
        BY <4>1, PrintnumTurn
      <4> QED
        BY <2>4, <3>1, <4>1, <4>2
    <3>3. s \in Seq(Zeros)
      <4>1. "0" \in Zeros
        BY DEF Zeros
      <4>2. \A c \in Zeros : <<c>> \in Seq(Zeros)
        OBVIOUS
      <4>3. digits \in Seq(Zeros)
        BY <3>2, <4>1, <4>2
      <4> HIDE DEF digits
      <4> QED
        BY <4>3, ConcatProperties
    <3> HIDE DEF s
    <3>4. ReadsAs(y, 0, 0)
      BY <1>1, <3>3, ZeroReads DEF Zeros
    <3> QED
      BY <1>1, <2>2, <3>1, <3>4 DEF RestReads
  <2> QED
    BY <1>1, <2>2, <2>3, <2>4
<1> QED
  BY <1>4, <1>5, <1>6

\* The sign of a directive without '+'.
LEMMA SignShape ==
  ASSUME NEW d \in Directives, NEW n \in Int
  PROVE  IF d.conv \in Signed /\ n < 0 THEN sign_of(d, n) = Minus ELSE sign_of(d, n) \in Seq(Blanks)
<1>1. "+" \notin d.flags
  <2>1. d.flags \subseteq {"#", "-", " "}
    BY Zenon DEF Directives
  <2>2. "+" \notin {"#", "-", " "}
    BY Zenon
  <2> QED
    BY <2>1, <2>2, Zenon
<1>2. <<>> \in Seq(Blanks) /\ <<" ">> \in Seq(Blanks)
  <2>1. <<>> \in Seq(Blanks) /\ \A c : c \in Blanks => <<c>> \in Seq(Blanks)
    OBVIOUS
  <2>2. " " \in Blanks
    BY Zenon DEF Blanks
  <2> QED
    BY <2>1, <2>2, Zenon
<1>3. plus_sign(d) \in Seq(Blanks)
  <2>1. plus_sign(d) = <<" ">> \/ plus_sign(d) = <<>>
    BY <1>1, Zenon DEF plus_sign
  <2> QED
    BY <1>2, <2>1, Zenon
<1>4. CASE d.conv \notin Signed
  <2>1. sign_of(d, n) = <<>>
    BY <1>4, Zenon DEF sign_of
  <2> QED
    BY <1>2, <1>4, <2>1, Zenon
<1>5. CASE d.conv \in Signed /\ n < 0
  <2>1. sign_of(d, n) = Minus
    BY <1>5, Zenon DEF sign_of, Minus
  <2> QED
    BY <1>5, <2>1, Zenon
<1>6. CASE d.conv \in Signed /\ ~(n < 0)
  <2>1. sign_of(d, n) = plus_sign(d)
    BY <1>6, Zenon DEF sign_of
  <2> QED
    BY <1>3, <1>6, <2>1, Zenon
<1> QED
  BY <1>4, <1>5, <1>6, Zenon

\* A field is read back.
LEMMA FieldRead ==
  ASSUME number \in DoubleWord, NEW d \in Directives, NEW n, n = Argument(d.conv),
         NEW base, base = base_of(d.conv, 0), NEW t, t = printed(d, n)
  PROVE  /\ (IF d.conv \in Signed THEN strtol(t, base) ELSE strtoul(t, base)).v = number % HALF
         /\ "#" \in d.flags /\ d.conv = "x" =>
              (IF d.conv \in Signed THEN strtol(t, 0) ELSE strtoul(t, 0)).v = number % HALF
<1> DEFINE u == magnitude(d, n)
           sign == sign_of(d, n)
           prefix == prefix_of(d, u, base)
           digits == printnum(u, base)
           low == number % HALF
<1>1. d.conv \in Convs /\ d.prec \in Int /\ d.width \in Int
  <2>1. d.conv \in Convs /\ d.prec \in {-1, 2} /\ d.width \in {-4, 0, 4}
    BY DEF Directives, Convs
  <2> QED
    BY <2>1
<1>2. base \in Bases /\ (d.conv = "x" => base = 16) /\ d.conv # "p"
  BY <1>1, ConvFacts
<1>3. /\ n \in Int /\ u \in 0 .. HALF - 1 /\ low \in 0 .. HALF - 1
      /\ IF d.conv \in Signed /\ n < 0 THEN u # 0 /\ low = HALF - u ELSE u = low
  BY <1>1, ArgumentFacts
<1>4. length(d) \in Int
  BY <1>1 DEF length
<1>5. t = field(d, sign, prefix, digits) /\ digits \in Seq(Glyphs)
  BY <1>1, <1>4, PrintedIs
<1>6. sign \in Seq(Glyphs) /\ prefix \in Seq(Glyphs)
  BY SignFacts
<1>7. IF d.conv \in Signed /\ n < 0 THEN sign = Minus ELSE sign \in Seq(Blanks)
  BY <1>3, SignShape
<1> HIDE DEF u, sign, low
<1>8. PICK a \in Seq(Blanks), z \in Seq(Zeros), b \in Seq(Blanks) :
        t = a \o (sign \o (prefix \o ((z \o digits) \o b)))
  <2> HIDE DEF prefix, digits
  <2>1. Shaped(field(d, sign, prefix, digits), sign, prefix, digits)
    BY <1>1, <1>4, <1>5, <1>6, FieldShape
  <2> QED
    BY <1>5, <2>1 DEF Shaped
<1> DEFINE r == prefix \o ((z \o digits) \o b)
<1>9. /\ r \in Seq(Glyphs) /\ RestReads(r, base, u)
      /\ "#" \in d.flags /\ base = 16 => RestReads(r, 0, u)
  BY <1>2, <1>3, RestRead
<1>10. t = a \o (sign \o r)
  BY <1>8
<1> HIDE DEF r, prefix, digits
<1>11. ASSUME NEW k, RestReads(r, k, u)
       PROVE  (IF d.conv \in Signed THEN strtol(t, k) ELSE strtoul(t, k)).v = low
  <2>1. Worth(CharAt(r, 1)) \in 0 .. 15 /\ ReadsAs(r, k, u)
    BY <1>11 DEF RestReads
  <2>2. CASE d.conv \in Signed /\ n < 0
    <3>1. u # 0 /\ low = HALF - u /\ sign = Minus /\ t = a \o (Minus \o r)
      BY <1>3, <1>7, <1>10, <2>2, Zenon
    <3>2. strtol(a \o (Minus \o r), k).v = HALF - u
      BY <1>3, <1>9, <2>1, <3>1, NegativeRead
    <3> QED
      BY <2>2, <3>1, <3>2, Zenon
  <2>3. CASE ~(d.conv \in Signed /\ n < 0)
    <3>1. u = low /\ sign \in Seq(Blanks)
      BY <1>3, <1>7, <2>3, Zenon
    <3> DEFINE c == a \o sign
    <3>2. c \in Seq(Blanks)
      BY <3>1, ConcatProperties
    <3>3. t = c \o r
      <4>1. a \in Seq(Glyphs)
        BY GlyphSeqs
      <4>2. Assoc(a, sign, r)
        BY <1>6, <1>9, <4>1, Assocs
      <4> QED
        BY <1>10, <4>2, Zenon DEF Assoc
    <3> HIDE DEF c
    <3>4. strtoul(c \o r, k).v = u /\ strtol(c \o r, k).v = u
      BY <1>9, <2>1, <3>2, PlainRead
    <3> QED
      BY <3>1, <3>3, <3>4, Zenon
  <2> QED
    BY <2>2, <2>3
<1>12. "#" \in d.flags /\ d.conv = "x" => RestReads(r, 0, u)
  BY <1>2, <1>9
<1> QED
  BY <1>9, <1>11, <1>12, Zenon DEF low

\* Every number is read back.
LEMMA NumbersRead == number \in DoubleWord => NumbersReadBack
<1> SUFFICES ASSUME number \in DoubleWord
             PROVE  NumbersReadBack
  OBVIOUS
<1>1. ASSUME NEW d \in Directives
      PROVE  LET text    == printed(d, Argument(d.conv))
                 read(b) == (IF d.conv \in Signed THEN strtol(text, b) ELSE strtoul(text, b)).v
             IN  /\ read(base_of(d.conv, 0)) = number % HALF
                 /\ "#" \in d.flags /\ d.conv = "x" => read(0) = number % HALF
  BY FieldRead
<1>2. atoi(printnum(number % HALF, 10)) = number % HALF
  <2>1. number % HALF \in 0 .. HALF - 1
    BY DivisionAssumption DEF DoubleWord
  <2> DEFINE low == number % HALF
  <2> HIDE DEF low
  <2>2. low \in 0 .. HALF - 1
    BY <2>1 DEF low
  <2>3. atoi(printnum(low, 10)) = low
    BY <2>2, AtoiReads
  <2> QED
    BY <2>3 DEF low
<1> QED
  BY <1>1, <1>2 DEF NumbersReadBack

----------------------------------------------------------------------------
(* The program prints, and reads.                                          *)

\* A printf() gives write() every character of its text, in order, no more than its buffer holds
\* at a time and each newline alone, and vsnprintf() keeps what fits, for buffers of any size and
\* texts of any length (printf.c:57-111, sprintf.c:53-93).
THEOREM PrintedProved == Spec => []PrintedWhole
<1>1. Types => PrintedWhole
  BY PrintsWhole DEF Types
<1> QED
  BY <1>1, TypesInductive, PTL

\* Every directive fills the width it is given and no more than it needs, for every double word
\* and every string (doprnt.c:345-390, 543-608).
THEOREM FieldsProved == Spec => []FieldsFilled
<1>1. Types => FieldsFilled
  BY FieldsFill DEF Types
<1> QED
  BY <1>1, TypesInductive, PTL

\* A number is read back by strtol() or strtoul() as it was printed, in its base or behind the
\* prefix of # in base 0, and by atoi(), whatever flags, width and precision it is printed with,
\* for words of any size (doprnt.c:180-199, 543-608, strtol.c, strtoul.c, atoi.c).
THEOREM NumbersProved == Spec => []NumbersReadBack
<1>1. Types => NumbersReadBack
  BY NumbersRead DEF Types
<1> QED
  BY <1>1, TypesInductive, PTL
=============================================================================
