------------------------------ MODULE Library ------------------------------
(***************************************************************************)
(* What a program may expect of lib/: of the blocks and strings of         *)
(* Strings.tla, whatever its memory holds and however an earlier call has  *)
(* left the direction flag, and of the numbers and texts of Numbers.tla    *)
(* and Format.tla, over small words.                                       *)
(***************************************************************************)
EXTENDS Strings, Format

CONSTANTS
  CELLS,        \* the program's memory is 1 .. CELLS
  Char          \* what a cell holds: numbers, 0 being '\0'

ASSUME LibraryAssumption == CELLS \in Nat /\ Char \subseteq Nat /\ 0 \in Char

VARIABLES
  mem,
  df            \* the direction flag: 1 up, -1 down

\* The number of Division.tla is printed too.
vars == <<mem, df, number>>

Cells == 1 .. CELLS

\* n cells from p on exist; two such blocks have no cell in common.
Room(p, n)        == p + n - 1 <= CELLS
Apart(p, k, q, n) == (p .. p + k - 1) \cap (q .. q + n - 1) = {}

\* Any memory, or any number.
Init ==
  /\ df = 1
  /\ \/ mem \in [Cells -> Char] /\ number = 0
     \/ mem = [a \in Cells |-> 0] /\ number \in DoubleWord

Memcpy(q, p, n) ==
  /\ Room(p, n) /\ Room(q, n) /\ Apart(p, n, q, n)
  /\ mem' = memcpy(mem, df, q, p, n)
  /\ df' = cld(df) /\ UNCHANGED number

Memmove(q, p, n) ==
  /\ Room(p, n) /\ Room(q, n)
  /\ mem' = memmove(mem, q, p, n)
  /\ df' = memmove_df(q, p) /\ UNCHANGED number

Memset(q, c, n) ==
  /\ Room(q, n)
  /\ mem' = memset(mem, df, q, c, n)
  /\ df' = cld(df) /\ UNCHANGED number

\* The calls that write blocks do not look at the number.
Next ==
  /\ number = 0
  /\ \E q \in Cells, n \in 0 .. CELLS :
       \/ \E p \in Cells : Memcpy(q, p, n) \/ Memmove(q, p, n)
       \/ \E c \in Char : Memset(q, c, n)

Spec == Init /\ [][Next]_vars

----------------------------------------------------------------------------
(* What the words mean.                                                    *)

\* The memory m with the sequence t at q, and nothing else changed.
Put(m, q, t) == [a \in Cells |-> IF a \in q .. q + Len(t) - 1 THEN t[a - q + 1] ELSE m[a]]

Bytes(p, n) == SubSeq(mem, p, p + n - 1)

\* The addresses where a string can start, and what the string is, with its '\0' or not.
Str        == {p \in Cells : \E a \in p .. CELLS : mem[a] = 0}
Size(p)    == Min({a \in p .. CELLS : mem[a] = 0}) - p + 1
Text(p)    == Bytes(p, Size(p) - 1)
Whole(p)   == Bytes(p, Size(p))
Upto(t, n) == SubSeq(t, 1, Min({n, Len(t)}))

Least(S)    == IF S = {} THEN NULL ELSE Min(S)
Greatest(S) == IF S = {} THEN NULL ELSE Max(S)

\* The cells of p .. p + n - 1 that hold c; the places there of the sequence t.
Holding(p, n, c) == {a \in p .. p + n - 1 : mem[a] = c}
Places(p, n, t)  == {a \in p .. p + n - Len(t) : Bytes(a, Len(t)) = t}

\* Where two sequences first differ, by how much.
Difference(s, t) ==
  LET apart == {i \in DOMAIN s \cap DOMAIN t : s[i] # t[i]}
  IN  IF apart = {} THEN 0 ELSE s[Min(apart)] - t[Min(apart)]

\* The tokens of a text: one ends at each delimiter, and the last where the text does.
Tokens(t, delimiters) ==
  After(Len(t), <<<<>>>>, LAMBDA i, tokens :
    IF t[i] \in delimiters THEN Append(tokens, <<>>)
    ELSE [tokens EXCEPT ![Len(tokens)] = Append(@, t[i])])

\* The tokens that strsep() gives, one call after the other.
Separated(m, s, delim) ==
  After(CELLS, [mem |-> m, next |-> s, tokens |-> <<>>], LAMBDA j, w :
    LET r == strsep(w.mem, w.next, delim)
    IN  IF w.next = NULL THEN w
        ELSE [mem |-> r.mem, next |-> r.next,
              tokens |-> Append(w.tokens,
                                SubSeq(r.mem, w.next, w.next + strlen(r.mem, w.next) - 1))]).tokens

\* Directives for a number, without '+', and the argument that the number is for them.
Directives ==
  [flags : SUBSET {"#", "-", " "}, zero : BOOLEAN, width : {-4, 0, 4}, prec : {-1, 2},
   conv : {"d", "u", "o", "x", "z"}]
Argument(conv) ==
  LET low == number % HALF
  IN  IF conv \in Signed /\ low >= HALF \div 2 THEN low - HALF ELSE low

printed(d, n) == doprnt(<<[text |-> FALSE, d |-> d, arg |-> n]>>, 0)

----------------------------------------------------------------------------
(* Properties.                                                             *)

\* Copying, moving, filling and swapping blocks change the cells they should and no
\* other, even behind a memmove() that has left the direction flag set (string.c:25-290).
CopiesExact ==
  \A q \in Cells, n \in 0 .. CELLS : Room(q, n) =>
    /\ \A c \in Char : memset(mem, df, q, c, n) = Put(mem, q, [i \in 1 .. n |-> c])
    /\ \A p \in Cells : Room(p, n) =>
         /\ memmove(mem, q, p, n) = Put(mem, q, Bytes(p, n))
         /\ Apart(p, n, q, n) =>
              /\ memcpy(mem, df, q, p, n) = Put(mem, q, Bytes(p, n))
              /\ memswap(mem, p, q, n) = Put(Put(mem, q, Bytes(p, n)), p, Bytes(q, n))
              /\ \A c \in Char :
                   LET k == IF Holding(p, n, c) = {} THEN n ELSE Min(Holding(p, n, c)) - p + 1
                   IN  memccpy(mem, q, p, c, n) =
                         [mem |-> Put(mem, q, Bytes(p, k)),
                          ret |-> IF Holding(p, n, c) = {} THEN NULL ELSE q + k]

\* The functions that write strings write the string they should, '\0' included, and
\* nothing behind it or behind the size they are given; strsep(), called until it says that
\* there is no more, gives every token once, the empty ones too (string.c:297-545).
StringsExact ==
  /\ \A p, delim \in Str : delim > p + Size(p) - 1 =>
       Separated(mem, p, delim) = Tokens(Text(p), {Text(delim)[i] : i \in DOMAIN Text(delim)})
  /\ \A q \in Cells, p \in Str :
       /\ Room(q, Size(p)) /\ Apart(p, Size(p), q, Size(p)) =>
            strcpy(mem, q, p) = Put(mem, q, Whole(p))
       /\ \A n \in 0 .. CELLS : Room(q, n) /\ Apart(p, Size(p), q, n) =>
            strncpy(mem, df, q, p, n) =
              Put(mem, q, [i \in 1 .. n |-> IF i < Size(p) THEN Text(p)[i] ELSE 0])
       /\ q \in Str /\ Apart(p, Size(p), q, CELLS) => \A n \in 0 .. CELLS :
            LET both == Text(q) \o Text(p)
                some == Text(q) \o Upto(Text(p), n)
            IN  /\ Room(q, Len(both) + 1) => strcat(mem, q, p) = Put(mem, q, Append(both, 0))
                /\ Room(q, Len(some) + 1) => strncat(mem, q, p, n) = Put(mem, q, Append(some, 0))
                /\ Room(q, n) =>
                     strlcat(mem, q, p, n) =
                       IF Size(q) > n
                         THEN [mem |-> mem, ret |-> n + Len(Text(p))]
                         ELSE [mem |-> Put(mem, q, Append(Upto(both, n - 1), 0)), ret |-> Len(both)]

\* What is looked for is found at its first place, or its last, and only where it is
\* (string.c:46-100, 196-275, 308-416, 475-566).  The '\0' of a string is strchr()'s to
\* find and not strrchr()'s, which never does; an empty needle, which memmem() and
\* strstr() never find, is left out.
SearchesExact ==
  /\ \A p \in Cells, n \in 0 .. CELLS, c \in Char : Room(p, n) =>
       /\ memchr(mem, p, c, n) = Least(Holding(p, n, c))
       /\ memrchr(mem, p, c, n) = Greatest(Holding(p, n, c))
  /\ \A p, q \in Cells, n, l \in 1 .. CELLS : Room(p, n) /\ Room(q, l) =>
       /\ memmem(mem, p, n, q, l) = Least(Places(p, n, Bytes(q, l)))
       /\ n = l => memcmp(mem, p, q, n) = Difference(Bytes(p, n), Bytes(q, n))
  /\ \A p \in Str :
       /\ strlen(mem, p) = Len(Text(p))
       /\ \A n \in 0 .. CELLS : strnlen(mem, p, n) = Min({n, Len(Text(p))})
       /\ \A c \in Char : /\ strchr(mem, p, c) = Least(Holding(p, Size(p), c))
                          /\ strrchr(mem, p, c) = Greatest(Holding(p, Size(p) - 1, c))
  /\ \A p, q \in Str :
       LET of(S) == {p + i - 1 : i \in {j \in DOMAIN Text(p) : Text(p)[j] \in S}}
           set   == {Text(q)[i] : i \in DOMAIN Text(q)}
           after(S) == IF of(S) = {} THEN Len(Text(p)) ELSE Min(of(S)) - p
       IN  /\ strcmp(mem, p, q) = Difference(Whole(p), Whole(q))
           /\ \A n \in 0 .. CELLS :
                strncmp(mem, p, q, n) = Difference(Upto(Whole(p), n), Upto(Whole(q), n))
           /\ strcspn(mem, p, q) = after(set)
           /\ strspn(mem, p, q) = after(Char \ set)
           /\ strpbrk(mem, p, q) = Least(of(set))
           /\ Text(q) # <<>> => strstr(mem, p, q) = Least(Places(p, Len(Text(p)), Text(q)))

\* A number is read back by strtol() or strtoul() as it was printed, in its base, or in
\* base 0 behind the prefix of '#', and by atoi() when it is short (doprnt.c:543-608,
\* strtol.c, strtoul.c, atoi.c).  strtol() does not read a '+'.
NumbersReadBack ==
  /\ \A d \in Directives :
       LET text    == printed(d, Argument(d.conv))
           read(b) == (IF d.conv \in Signed THEN strtol(text, b) ELSE strtoul(text, b)).v
       IN  /\ read(base_of(d.conv, 0)) = number % HALF
           /\ "#" \in d.flags /\ d.conv = "x" => read(0) = number % HALF
  /\ atoi(printnum(number % HALF, 10)) = number % HALF

\* Each of %d, %u, %o, %x and %z, whatever its flags (but '+') and precision, and %s fills
\* the width it is given and takes no more than it needs, but for a string that its
\* precision cuts and that is padded on the right.  %c has no width and %p has its own
\* (doprnt.c:345-390, 543-608).
FieldsFilled ==
  /\ \A d \in Directives :
       LET bare == printed([d EXCEPT !.width = 0, !.zero = FALSE], Argument(d.conv))
       IN  Len(printed(d, Argument(d.conv))) = Max({length(d), Len(bare)})
  /\ \A d \in [flags : {{}, {"-"}}, width : -3 .. 3, prec : -1 .. 3, conv : {"s"}], p \in Str :
       LET text == IF d.prec = -1 THEN Text(p) ELSE Upto(Text(p), d.prec)
       IN  text = Text(p) \/ ~ladjust(d) =>
             Len(converted(d, Text(p), 0)) = Max({length(d), Len(text)})

\* A printf() gives write() every character of its text, in order, no more than its buffer
\* holds at a time, and each newline alone; vsnprintf() keeps as much of the text as it is
\* told, and its '\0' is the only cell behind that (printf.c:57-111, sprintf.c:53-93).
PrintedWhole ==
  \A p \in Str :
    LET char(c) == IF c = 2 THEN NEWLINE ELSE "a"
        text    == [i \in DOMAIN Text(p) |-> char(Text(p)[i])]
        writes  == vprintf(text)
    IN  /\ FlattenSeq(writes) = text
        /\ FlattenSeq(puts(text)) = Append(text, NEWLINE)
        /\ \A i \in DOMAIN writes : /\ Len(writes[i]) <= PRINTF_BUFMAX
                                    /\ Contains(writes[i], NEWLINE) => Len(writes[i]) = 1
        /\ \A n \in 0 .. CELLS - 1 :
             LET r == vsnprintf([a \in Cells |-> "old"], 1, n, text)
             IN  /\ SubSeq(r.mem, 1, r.ret + 1) = Append(Upto(text, n), NUL)
                 /\ \A a \in Cells : a > n + 1 => r.mem[a] = "old"
=============================================================================
