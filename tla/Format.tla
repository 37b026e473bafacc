------------------------------- MODULE Format -------------------------------
(***************************************************************************)
(* _doprnt() (lib/doprnt.c) and what is printed through it: vsprintf() and *)
(* vsnprintf() (lib/sprintf.c), vprintf(), putchar() and puts()            *)
(* (lib/printf.c).  A format is a sequence of items: a character, or a     *)
(* directive with its argument.  A text is a sequence of characters.       *)
(***************************************************************************)
EXTENDS Numbers, SequencesExt, FiniteSetsExt

CONSTANT PRINTF_BUFMAX   \* 128

ASSUME FormatAssumption == PRINTF_BUFMAX \in Nat \ {0}

NEWLINE == "NEWLINE"
Copies(c, n) == [i \in 1 .. Max({0, n}) |-> c]

----------------------------------------------------------------------------
(* Numbers.  A directive d has flags, zero (a 0 before the width), width   *)
(* (negative only when it is an argument), prec (-1: none) and conv.       *)

Signed   == {"d", "i", "D", "z", "Z", "r", "R"}
Unsigned == {"u", "U", "o", "O", "x", "X", "p", "n", "N"}

\* printf() and its kin pass 0 for the radix of %r and %n.
base_of(conv, radix) ==
  CASE conv \in {"o", "O"}                -> 8
    [] conv \in {"d", "i", "D", "u", "U"} -> 10
    [] conv \in {"x", "X", "p", "z", "Z"} -> 16
    [] OTHER                              -> radix

\* '+' has precedence over ' '.
plus_sign(d) == CASE "+" \in d.flags -> <<"+">>
                  [] "+" \notin d.flags /\ " " \in d.flags -> <<" ">>
                  [] OTHER -> <<>>

\* A negative width turns '-' on, or off.
ladjust(d) == ("-" \in d.flags) # (d.width < 0)
length(d)  == CASE d.conv = "p"                  -> 8
                [] d.conv # "p" /\ d.width < 0 -> -d.width
                [] OTHER                         -> d.width
zero_padded(d) == d.zero \/ d.conv = "p"

sign_of(d, n) == CASE d.conv \notin Signed          -> <<>>
                   [] d.conv \in Signed /\ n < 0 -> <<"-">>
                   [] OTHER                         -> plus_sign(d)

\* What is left of the argument n once its sign is told.
magnitude(d, n) == IF d.conv \in Signed /\ n < 0 THEN -n ELSE n % HALF

prefix_of(d, u, base) ==
  CASE u # 0 /\ "#" \in d.flags /\ base = 8  -> <<"0">>
    [] u # 0 /\ "#" \in d.flags /\ base = 16 -> <<"0", "x">>
    [] OTHER                                 -> <<>>

\* The digits, of which the last is found first.
printnum(u, base) ==
  LET text[v \in 0 .. u] == IF v < base THEN <<Digits[v + 1]>>
                            ELSE Append(text[v \div base], Digits[(v % base) + 1])
  IN  text[u]

\* Mutant: the sign is not counted.
room_Signless(d, sign, prefix, digits) == length(d) - Len(digits) - Len(prefix)

\* How much of the field sign, prefix and digits leave.
room(d, sign, prefix, digits) == length(d) - Len(digits) - Len(sign) - Len(prefix)

\* Blanks go before the sign, zeros behind the prefix.
field(d, sign, prefix, digits) ==
  LET short  == Max({0, d.prec - Len(digits)})
      fill   == room(d, sign, prefix, digits) - short
      blanks == Copies(" ", fill)
  IN  (IF zero_padded(d) \/ ladjust(d) THEN <<>> ELSE blanks)
      \o sign \o prefix
      \o Copies("0", short) \o (IF zero_padded(d) THEN Copies("0", fill) ELSE <<>>)
      \o digits
      \o (IF ladjust(d) /\ ~zero_padded(d) THEN blanks ELSE <<>>)

print_num(d, n, radix) ==
  LET base == base_of(d.conv, radix)
      u    == magnitude(d, n)
  IN  IF base = 0 THEN <<"#DE">>
      ELSE (IF d.conv = "p" THEN <<"0", "x">> ELSE <<>>)
           \o field(d, sign_of(d, n), prefix_of(d, u, base), printnum(u, base))

----------------------------------------------------------------------------
(* The other directives.                                                   *)

\* Padded on the right, a string that is cut counts for one character more.
print_string(d, s) ==
  LET cut  == d.prec # -1 /\ Len(s) > Max({0, d.prec})
      text == IF cut THEN SubSeq(s, 1, Max({0, d.prec})) ELSE s
  IN  IF ladjust(d) THEN text \o Copies(" ", length(d) - Len(text) - (IF cut THEN 1 ELSE 0))
                    ELSE Copies(" ", length(d) - Len(text)) \o text

\* A register u of which a field is the bit i, or the bits i down to j, with its name.
\* j = 0: one bit, named only when it is set.
print_bits(base, u, fields) ==
  LET shown(f)  == f.j # 0 \/ (u \div 2 ^ (f.i - 1)) % 2 = 1
      value(f)  == (u \div 2 ^ (f.j - 1)) % 2 ^ (f.i - f.j + 1)
      one(f)    == f.name \o (IF f.j = 0 THEN <<>> ELSE printnum(value(f), base))
      some      == SelectSeq(fields, shown)
      listed(i) == <<IF i = 1 THEN "<" ELSE ",">> \o one(some[i])
  IN  printnum(u, base)
      \o (IF u = 0 \/ some = <<>> THEN <<>>
          ELSE FlattenSeq([i \in DOMAIN some |-> listed(i)]) \o <<">">>)

\* %c and an unknown letter stand for one character, whatever their width.
converted(d, arg, radix) ==
  CASE d.conv \in Signed \cup Unsigned -> print_num(d, arg, radix)
    [] d.conv = "s"                    -> print_string(d, arg)
    [] d.conv = "b"                    -> print_bits(arg.base, arg.u, arg.fields)
    [] d.conv = "c"                    -> <<arg>>
    [] d.conv = NUL                    -> <<>>
    [] OTHER                           -> <<d.conv>>

doprnt(items, radix) ==
  FlattenSeq([i \in DOMAIN items |->
    IF items[i].text THEN <<items[i].c>> ELSE converted(items[i].d, items[i].arg, radix)])

----------------------------------------------------------------------------
(* Where the text goes.                                                    *)

\* savechar(): what does not fit in size characters is dropped; '\0' comes behind them.
vsnprintf(m, s, size, out) ==
  LET len == Min({size, Len(out)})
  IN  [mem |-> [a \in DOMAIN m |-> IF a \in s .. s + len - 1 THEN out[a - s + 1]
                                   ELSE IF a = s + len THEN NUL ELSE m[a]],
       ret |-> len]

\* Mutant: the character that finds the buffer full is flushed away with it.
printf_char_Lost(st, c) ==
  IF c \in {NUL, NEWLINE} \/ Len(st.buf) >= PRINTF_BUFMAX
    THEN [buf |-> <<>>, writes |-> Append(st.writes, st.buf)]
    ELSE [st EXCEPT !.buf = Append(st.buf, c)]

\* A newline, and the character that finds the buffer full, have a write() of their own.
printf_char(st, c) ==
  IF c \in {NUL, NEWLINE} \/ Len(st.buf) >= PRINTF_BUFMAX
    THEN [buf |-> <<>>, writes |-> st.writes \o <<st.buf, <<c>>>>]
    ELSE [st EXCEPT !.buf = Append(st.buf, c)]

\* The write()s of a printf() of the text out.
vprintf(out) ==
  LET st == FoldLeft(printf_char, [buf |-> <<>>, writes |-> <<>>], out)
  IN  IF st.buf = <<>> THEN st.writes ELSE Append(st.writes, st.buf)

putchar(c) == <<<<c>>>>
puts(s)    == [i \in 1 .. Len(s) + 1 |-> <<Append(s, NEWLINE)[i]>>]
=============================================================================
