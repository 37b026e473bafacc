------------------------------ MODULE Division ------------------------------
(***************************************************************************)
(* The division of 64-bit numbers of n7OS' library (lib/div64.c), on a     *)
(* processor that divides a double word by a word only.  A word is counted *)
(* modulo HALF, a double word modulo HALF * HALF.                          *)
(***************************************************************************)
EXTENDS Integers

CONSTANT HALF   \* 2^32

ASSUME DivisionAssumption == HALF \in Nat \ {0, 1}

VARIABLE number   \* the double word that the program has to divide

DoubleWord == 0 .. HALF * HALF - 1

\* bsr: the index of the highest bit of n that is set.
log2(n) == CHOOSE k \in 0 .. n : 2 ^ k <= n /\ n < 2 ^ (k + 1)

\* Mutant: the estimate is not corrected.
corrected_Never(x, y, q) == [q |-> q, rem |-> (x - y * q) % (HALF * HALF)]

\* The quotient is raised, and the rest lowered by the divisor, while the rest is not
\* smaller than the divisor.
corrected(x, y, q) ==
  LET r     == (x - y * q) % (HALF * HALF)
      turns == CHOOSE k \in 0 .. r : r - k * y < y /\ \A j \in 0 .. k - 1 : r - j * y >= y
  IN  [q |-> (q + turns) % HALF, rem |-> r - turns * y]

DIVIDE_ERROR == -1

\* divl raises an exception when the divisor is 0 or the quotient too large.
divl(x, y) == IF y = 0 \/ x \div y >= HALF THEN DIVIDE_ERROR ELSE x \div y

\* A divisor of more than one word is shifted to one, of which the highest bit is set.
Shift(y)       == 2 ^ (log2(y \div HALF) + 1)
LeadingWord(y) == IF y < HALF THEN 0 ELSE y \div Shift(y)

\* The estimate comes from the leading words, the divisor's rounded up.
by_double_word(x, y) ==
  LET q == divl(x \div Shift(y), (LeadingWord(y) + 1) % HALF)
  IN  IF q = DIVIDE_ERROR THEN [q |-> q, rem |-> 0] ELSE corrected(x, y, q)

\* One digit after the other, the first of which may be 0.
by_word(x, y) ==
  LET high == x \div HALF
      low  == (high % y) * HALF + (x % HALF)
  IN  [q |-> divl(high, y) * HALF + divl(low, y), rem |-> low % y]

\* y = 0 gives 0, rest x.
do_div64(x, y) ==
  CASE y >= HALF           -> by_double_word(x, y)
    [] y < HALF /\ y # 0   -> by_word(x, y)
    [] y = 0               -> [q |-> 0, rem |-> x]

----------------------------------------------------------------------------
(* Properties.                                                             *)

\* do_div64() divides, by every divisor but those of more than one word of which the
\* leading word is all ones: there the processor raises a divide error (div64.c:12-60).
DivisionExact ==
  \A y \in DoubleWord :
    do_div64(number, y) =
      CASE y = 0                                -> [q |-> 0, rem |-> number]
        [] LeadingWord(y) = HALF - 1            -> [q |-> DIVIDE_ERROR, rem |-> 0]
        [] y # 0 /\ LeadingWord(y) # HALF - 1   -> [q |-> number \div y, rem |-> number % y]
=============================================================================
