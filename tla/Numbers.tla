------------------------------ MODULE Numbers ------------------------------
(***************************************************************************)
(* The numbers of n7OS' library: text to number (lib/atoi.c, strtol.c,     *)
(* strtoul.c, ctype.c).  A text is a sequence of characters; past its end  *)
(* is '\0'.  A long is counted modulo HALF, as a word of Division.tla.     *)
(***************************************************************************)
EXTENDS Division, Loops, Sequences, TLC

NUL == "NUL"
CharAt(t, i) == IF i <= Len(t) THEN t[i] ELSE NUL

Digits == <<"0", "1", "2", "3", "4", "5", "6", "7", "8", "9", "a", "b", "c", "d", "e", "f">>

\* What a character counts for, as a digit: letters of either case from 10 on.
Worth(c) ==
  CASE c \in {Digits[i] : i \in 1 .. 16} -> (CHOOSE i \in 1 .. 16 : Digits[i] = c) - 1
    [] c = "A" -> 10
    [] c = "F" -> 15
    [] c \in {"x", "X"} -> 33
    [] OTHER -> 99

isspace(c) == c \in {" ", "TAB", "NEWLINE"}
isdigit(c) == Worth(c) < 10

----------------------------------------------------------------------------
(* strtol() and strtoul().                                                 *)

skip_spaces(t, p) == Up(Len(t), p, {i \in 1 .. Len(t) + 1 : ~isspace(CharAt(t, i))})

HasPrefix(t, p) == CharAt(t, p) = "0" /\ CharAt(t, p + 1) \in {"x", "X"}

\* Whether c is a digit in this base.
IsDigitIn(c, base) == Worth(c) < base

\* The digits from p on, v being what those before count for.
digits_from(t, p, base, v) ==
  After(Len(t), [v |-> v, end |-> p], LAMBDA j, w :
    LET c == CharAt(t, w.end)
    IN  IF IsDigitIn(c, base) THEN [v |-> (w.v * base + Worth(c)) % HALF, end |-> w.end + 1] ELSE w)

\* Mutant: the prefix is skipped only when it tells the base.
unsigned_from_Base0(t, p, base) ==
  IF base = 0 /\ HasPrefix(t, p) THEN digits_from(t, p + 2, 16, 0)
  ELSE digits_from(t, p, IF base # 0 THEN base ELSE IF CharAt(t, p) = "0" THEN 8 ELSE 10, 0)

\* strtoul() from p on: a prefix, or a leading 0, tells the base when it is 0.
unsigned_from(t, p, base) ==
  IF base \in {0, 16} /\ HasPrefix(t, p) THEN digits_from(t, p + 2, 16, 0)
  ELSE digits_from(t, p, IF base # 0 THEN base ELSE IF CharAt(t, p) = "0" THEN 8 ELSE 10, 0)

strtoul(t, base) == unsigned_from(t, skip_spaces(t, 1), base)

Negated(n) == IF n.v = 0 THEN n ELSE [n EXCEPT !.v = HALF - @]

\* A '-' is skipped, a '+' is not: it ends the number before its first digit.
strtol(t, base) ==
  LET p == skip_spaces(t, 1)
  IN  IF CharAt(t, p) = "-" THEN Negated(unsigned_from(t, p + 1, base))
                            ELSE unsigned_from(t, p, base)

----------------------------------------------------------------------------
(* atoi(): -1 when a character is not a digit.                             *)

Power10(k) == After(k, 1, LAMBDA j, w : (10 * w) % HALF)

\* base is what the first digit is multiplied by.
atoi_from(t, base) ==
  After(Len(t), [base |-> base, res |-> 0], LAMBDA j, w :
    [base |-> w.base \div 10, res |-> (w.res + Worth(t[j]) * w.base) % HALF]).res

atoi(t) ==
  IF \E i \in 1 .. Len(t) : ~isdigit(t[i]) THEN HALF - 1
  ELSE IF t = <<>> THEN 0
  ELSE atoi_from(t, Power10(Len(t) - 1))
=============================================================================
