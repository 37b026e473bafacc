------------------------------ MODULE Strings ------------------------------
(***************************************************************************)
(* The string library of n7OS (lib/string.c).  A memory m is a function    *)
(* from addresses to characters, 0 being '\0'; a pointer is an address.    *)
(* A function that writes returns the memory after it, [mem, ret] when its *)
(* result matters too.  A loop that would make more turns than there are   *)
(* addresses has left the memory.                                          *)
(***************************************************************************)
EXTENDS Loops, FiniteSets

CONSTANT WORD   \* bytes that movsl and stosl move at once (4)

ASSUME StringsAssumption == WORD \in Nat \ {0}

NULL == -1

Turns(m) == Cardinality(DOMAIN m)

\* Where m holds one of the characters C.
At(m, C) == {a \in DOMAIN m : m[a] \in C}

----------------------------------------------------------------------------
(* Blocks.                                                                 *)

\* The copy ends behind the first c.
memccpy(m, q, p, c, n) ==
  After(n, [mem |-> m, ret |-> NULL],
        LAMBDA j, w : IF w.ret # NULL THEN w
                      ELSE [mem |-> [w.mem EXCEPT ![q + j - 1] = w.mem[p + j - 1]],
                            ret |-> IF w.mem[p + j - 1] = c THEN q + j ELSE NULL])

memchr(m, s, c, n) ==
  LET sp == Up(n, s, At(m, {c})) IN IF sp = s + n THEN NULL ELSE sp

memrchr(m, s, c, n) ==
  LET sp == After(n, s + n - 1, LAMBDA j, p : IF m[p] = c THEN p ELSE p - 1)
  IN  IF sp = s - 1 THEN NULL ELSE sp

memcmp(m, c1, c2, n) ==
  LET i == Up(n, 0, {k \in 0 .. n - 1 : m[c1 + k] # m[c2 + k]})
  IN  IF i = n THEN 0 ELSE m[c1 + i] - m[c2 + i]

\* rep movs: k units of u bytes from p to q, up (dir = 1) or down (dir = -1).
movs(m, q, p, k, u, dir) ==
  After(k, m, LAMBDA j, w :
    LET to == q + dir * (j - 1) * u
    IN  [a \in DOMAIN m |-> IF a \in to .. to + u - 1 THEN w[p + (a - q)] ELSE w[a]])

\* Mutant: the direction is the one that memmove() has left.
cld_Missing(df) == df

\* The direction after cld.
cld(df) == 1

\* df is the direction flag as the caller has left it.
memcpy(m, df, q, p, n) ==
  LET k == n \div WORD
  IN  movs(movs(m, q, p, k, WORD, cld(df)), q + k * WORD, p + k * WORD, n % WORD, 1, cld(df))

memmove(m, q, p, n) ==
  IF q < p THEN movs(m, q, p, n, 1, 1) ELSE movs(m, q + n - 1, p + n - 1, n, 1, -1)

\* std is not undone.
memmove_df(q, p) == IF q < p THEN 1 ELSE -1

\* rep stos: k units of u bytes from q on, up or down.
stos(m, q, c, k, u, dir) ==
  After(k, m, LAMBDA j, w :
    LET to == q + dir * (j - 1) * u
    IN  [a \in DOMAIN m |-> IF a \in to .. to + u - 1 THEN c ELSE w[a]])

\* rep stosl, then rep stosb.
memset(m, df, q, c, n) ==
  LET k == n \div WORD
  IN  stos(stos(m, q, c, k, WORD, cld(df)), q + k * WORD, c, n % WORD, 1, cld(df))

\* The bytes at p and q change places.
memswap(m, p, q, n) ==
  After(n, m, LAMBDA j, w :
    [w EXCEPT ![p + j - 1] = w[q + j - 1], ![q + j - 1] = w[p + j - 1]])

\* Mutant: the two skips are swapped.
memmem_skip_Swapped(m, x) == IF m[x] = m[x + 1] THEN <<1, 2>> ELSE <<2, 1>>

\* How far to go when the second byte of the needle does not match, and when it does.
memmem_skip(m, x) == IF m[x] = m[x + 1] THEN <<2, 1>> ELSE <<1, 2>>

\* "Not So Naive": the offset of the needle, l bytes at x, in the n bytes at y.
memmem_offset(m, y, n, x, l) ==
  LET second(j) == m[x + 1] = m[y + j + 1]
      found(j)  == second(j) /\ memcmp(m, x + 2, y + j + 2, l - 2) = 0 /\ m[x] = m[y + j]
  IN  After(n, 0, LAMBDA i, j :
        IF j > n - l \/ found(j) THEN j ELSE j + memmem_skip(m, x)[IF second(j) THEN 2 ELSE 1])

memmem(m, y, n, x, l) ==
  CASE l > n \/ l = 0 \/ n = 0 -> NULL
    [] l = 1 /\ n > 0          -> memchr(m, y, m[x], n)
    [] l > 1 /\ l <= n         -> LET j == memmem_offset(m, y, n, x, l)
                                  IN  IF j > n - l THEN NULL ELSE y + j

----------------------------------------------------------------------------
(* Strings.                                                                *)

strlen(m, s) == Up(Turns(m), s, At(m, {0})) - s

strnlen(m, s, maxlen) == Up(maxlen, s, At(m, {0})) - s

strchr(m, s, c) == LET sp == Up(Turns(m), s, At(m, {0, c})) IN IF m[sp] = c THEN sp ELSE NULL

\* '\0' is never found.
strrchr(m, s, c) ==
  After(strlen(m, s), NULL, LAMBDA j, found : IF m[s + j - 1] = c THEN s + j - 1 ELSE found)

\* The places before which a comparison does not stop.
ends_at(m, c1, c2) ==
  {k \in 0 .. Turns(m) : /\ {c1 + k, c2 + k} \subseteq DOMAIN m
                         /\ m[c1 + k] # m[c2 + k] \/ m[c1 + k] = 0}

strcmp(m, c1, c2) ==
  LET i == Up(Turns(m), 0, ends_at(m, c1, c2)) IN m[c1 + i] - m[c2 + i]

strncmp(m, c1, c2, n) ==
  LET i == Up(n, 0, ends_at(m, c1, c2)) IN IF i = n THEN 0 ELSE m[c1 + i] - m[c2 + i]

\* These copy as memccpy() does, behind the first '\0'.
strcpy(m, q, p) == memccpy(m, q, p, 0, Turns(m)).mem

strcat(m, dst, src) == strcpy(m, strchr(m, dst, 0), src)

\* What is left of n is filled with '\0'.
strncpy(m, df, q, p, n) ==
  LET r == memccpy(m, q, p, 0, n)
  IN  IF r.ret = NULL THEN r.mem ELSE memset(r.mem, df, r.ret, 0, n - (r.ret - q))

strncat_at(m, q, p, n) ==
  LET r == memccpy(m, q, p, 0, n)
  IN  IF r.ret = NULL THEN [r.mem EXCEPT ![q + n] = 0] ELSE r.mem

strncat(m, dst, src, n) == strncat_at(m, strchr(m, dst, 0), src, n)

\* Mutant: the place of the '\0' is given away.
strlcat_fits_Full(bytes, size) == bytes < size

\* One more character and the '\0' still fit.
strlcat_fits(bytes, size) == bytes + 1 < size

strlcat_at(m, q, p, bytes, size) ==
  LET turn(j, w) ==
        IF w.mem[w.p] = 0 THEN w
        ELSE IF strlcat_fits(w.bytes, size)
               THEN [mem |-> [w.mem EXCEPT ![w.q] = w.mem[w.p]],
                     q |-> w.q + 1, p |-> w.p + 1, bytes |-> w.bytes + 1]
               ELSE [w EXCEPT !.p = @ + 1, !.bytes = @ + 1]
      w == After(Turns(m), [mem |-> m, q |-> q, p |-> p, bytes |-> bytes], turn)
  IN  [mem |-> [w.mem EXCEPT ![w.q] = 0], ret |-> w.bytes]

\* A destination with no '\0' in its size cells is left alone.
strlcat(m, dst, src, size) ==
  LET bytes == strnlen(m, dst, size)
  IN  IF bytes = size THEN [mem |-> m, ret |-> bytes + strlen(m, src)]
                      ELSE strlcat_at(m, dst + bytes, src, bytes, size)

matchmap(m, map) == {m[a] : a \in map .. map + strlen(m, map) - 1}

\* The characters of s before the first that is in set (parity = 1), or not in it.
span(m, s, set, parity) ==
  Up(Turns(m), s, {a \in DOMAIN m : (m[a] \in set) = (parity = 1)}) - s

\* '\0' ends either span.
strxspn(m, s, map, parity) ==
  span(m, s, matchmap(m, map) \cup (IF parity = 1 THEN {0} ELSE {}), parity)

strcspn(m, s, reject) == strxspn(m, s, reject, 1)
strspn(m, s, accept)  == strxspn(m, s, accept, 0)

strpbrk(m, s, accept) ==
  LET ss == s + strxspn(m, s, accept, 1) IN IF m[ss] # 0 THEN ss ELSE NULL

strstr(m, haystack, needle) ==
  memmem(m, haystack, strlen(m, haystack), needle, strlen(m, needle))

\* The token at s ends at the first delimiter; next is where the following one starts.
strsep(m, s, delim) ==
  IF s = NULL THEN [mem |-> m, ret |-> NULL, next |-> NULL]
  ELSE LET e == strpbrk(m, s, delim)
       IN  IF e = NULL THEN [mem |-> m, ret |-> s, next |-> NULL]
                       ELSE [mem |-> [m EXCEPT ![e] = 0], ret |-> s, next |-> e + 1]
=============================================================================
