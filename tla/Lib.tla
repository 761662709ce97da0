-------------------------------- MODULE Lib ---------------------------------
(***************************************************************************)
(* The memory, string and formatting routines of lib.c as operators on a   *)
(* memory m, a function from addresses to bytes.  A string is its bytes up *)
(* to a NUL; characters have their ASCII codes.  Registers and flags that  *)
(* the inline assembly only uses for itself are left out.                  *)
(***************************************************************************)
EXTENDS Integers, Sequences, SequencesExt

CONSTANTS
  Byte,         \* values of a byte that is part of a wider value
  WordBits,     \* bits of an int
  HexDigits     \* hexadecimal digits of an int

ASSUME LibAssumption ==
  /\ {Byte, WordBits, HexDigits} \subseteq Nat \ {0}
  /\ 16^HexDigits = 2^WordBits

NUL == 0

(* s up to and with e, in order.                                           *)
UpFrom(s, e) == [k \in 1 .. e - s + 1 |-> s + k - 1]

-----------------------------------------------------------------------------
(* w bytes loaded at s and stored at d, by one instruction.                *)
moved(m, d, s, w) ==
  [a \in DOMAIN m |-> IF a \in d .. d + w - 1 THEN m[s + a - d] ELSE m[a]]

(* w bytes at d set to those of c, the lowest first.                       *)
byte(c, k) == (c \div Byte^k) % Byte
filled(m, d, c, w) ==
  [a \in DOMAIN m |-> IF a \in d .. d + w - 1 THEN byte(c, a - d) ELSE m[a]]

(* memset and memcpy: bytes up to an address divisible by 4, then dwords,  *)
(* then the bytes left over.  The widths, in order.                        *)
(* Faulty variant: bytes only left over up to a whole word.                *)
RECURSIVE widths_short(_, _)
widths_short(a, n) ==
  CASE n = 0     -> <<>>
    [] a % 4 # 0 -> <<1>> \o widths_short(a + 1, n - 1)
    [] OTHER     -> [k \in 1 .. n \div 4 |-> 4] \o [k \in 1 .. n % 2 |-> 1]

RECURSIVE widths(_, _)
widths(a, n) ==
  CASE n = 0     -> <<>>
    [] a % 4 # 0 -> <<1>> \o widths(a + 1, n - 1)
    [] OTHER     -> [k \in 1 .. n \div 4 |-> 4] \o [k \in 1 .. n % 4 |-> 1]

RECURSIVE transfer(_, _, _, _)
transfer(m, d, s, ws) ==
  IF ws = <<>> THEN m
  ELSE transfer(moved(m, d, s, Head(ws)), d + Head(ws), s + Head(ws), Tail(ws))

RECURSIVE fill(_, _, _, _)
fill(m, d, c, ws) ==
  IF ws = <<>> THEN m
  ELSE fill(filled(m, d, c, Head(ws)), d + Head(ws), c, Tail(ws))

memcpy(m, dest, src, n) == transfer(m, dest, src, widths(dest, n))

memset(m, s, c, n) ==
  LET b == c % Byte IN fill(m, s, b * (1 + Byte + Byte^2 + Byte^3), widths(s, n))

memset_word(m, s, c, n) == fill(m, s, c, [k \in 1 .. n |-> 2])
memset_dword(m, s, c, n) == fill(m, s, c, [k \in 1 .. n |-> 4])

(* Byte by byte, from the end if the source lies before the destination.   *)
memmove(m, dest, src, n) ==
  LET up == UpFrom(0, n - 1) IN
  FoldLeft(LAMBDA mm, k : moved(mm, dest + k, src + k, 1), m,
           IF src >= dest THEN up ELSE Reverse(up))

-----------------------------------------------------------------------------
strlen(m, s) == CHOOSE n \in 0 .. Cardinality(DOMAIN m) :
                  m[s + n] = NUL /\ \A k \in 0 .. n - 1 : m[s + k] # NUL
text(m, s) == [k \in 1 .. strlen(m, s) |-> m[s + k - 1]]

swapped(m, a, b) == [m EXCEPT ![a] = m[b], ![b] = m[a]]
strrev(m, s) ==
  LET len == strlen(m, s) IN
  FoldLeft(LAMBDA mm, beg : swapped(mm, s + beg, s + len - 1 - beg), m,
           UpFrom(0, len \div 2 - 1))

(* The first place where the strings differ or end decides.                *)
decides(x, y) == x # y \/ x = NUL

(* From here to strncpy, a string is the array that starts at its pointer. *)
strncmp(s1, s2, n) ==
  LET D == {i \in 0 .. n - 1 : decides(s1[i], s2[i])} IN
  IF D = {} THEN 0 ELSE s1[Min(D)] - s2[Min(D)]

copied(dest, src, n) ==
  [a \in DOMAIN dest |-> IF a < n THEN src[a] ELSE dest[a]]

strcpy(dest, src) ==
  LET len == strlen(src, 0) IN [copied(dest, src, len) EXCEPT ![len] = NUL]

strncpy(dest, src, n) ==
  LET len == Min({n} \cup {i \in 0 .. n - 1 : src[i] = NUL})
  IN filled(copied(dest, src, len), len, NUL, n - len)

-----------------------------------------------------------------------------
Zero == 48
Minus == 45
lookup(i) == IF i < 10 THEN Zero + i ELSE 55 + i

RECURSIVE put_digits(_, _, _, _)
put_digits(m, a, value, radix) ==
  IF value = 0
    THEN [m EXCEPT ![a] = NUL]
    ELSE put_digits([m EXCEPT ![a] = lookup(value % radix)], a + 1,
                    value \div radix, radix)

itoa(m, value, buf, radix) ==
  IF value = 0 THEN [m EXCEPT ![buf] = Zero, ![buf + 1] = NUL]
               ELSE strrev(put_digits(m, buf, value, radix), buf)

(* printf's conversions, into a buffer of bytes that hold anything.        *)
conv_buf == [a \in 0 .. 2 * WordBits |-> 1]

hex(v) == text(itoa(conv_buf, v, 0, 16), 0)
hex_padded(v) ==
  LET b == itoa(conv_buf, v, HexDigits, 16)
      starting_index == strlen(b, HexDigits)
      p == FoldLeft(LAMBDA mm, i : [mm EXCEPT ![i] = Zero], b,
                    UpFrom(starting_index, HexDigits - 1))
  IN text(p, starting_index)
unsigned(v) == text(itoa(conv_buf, v, 0, 10), 0)
signed(v) ==
  IF v >= 2^(WordBits - 1)
    THEN text(itoa([conv_buf EXCEPT ![0] = Minus], 2^WordBits - v, 1, 10), 0)
    ELSE text(itoa(conv_buf, v, 0, 10), 0)

(* f is what is left of the format, args of the arguments; alternate says  *)
(* that a # came, conversion that a % did.  The format must not end there. *)
Percent == 37
Hash == 35
ChX == 120
ChU == 117
ChD == 100
ChC == 99
ChS == 115
RECURSIVE format(_, _, _, _)
format(f, args, conversion, alternate) ==
  LET plain(out, a) == out \o format(Tail(f), a, FALSE, FALSE)
      ch == Head(f)
  IN
  CASE f = <<>>                     -> <<>>
    [] f # <<>> /\ ~conversion /\ ch = Percent -> format(Tail(f), args, TRUE, FALSE)
    [] f # <<>> /\ ~conversion /\ ch # Percent -> plain(<<ch>>, args)
    [] f # <<>> /\ conversion ->
         CASE ch = Percent -> plain(<<Percent>>, args)
           [] ch = Hash    -> format(Tail(f), args, TRUE, TRUE)
           [] ch = ChX     -> plain(IF alternate THEN hex_padded(Head(args))
                                                 ELSE hex(Head(args)), Tail(args))
           [] ch = ChU     -> plain(unsigned(Head(args)), Tail(args))
           [] ch = ChD     -> plain(signed(Head(args)), Tail(args))
           [] ch = ChC     -> plain(<<Head(args) % 256>>, Tail(args))
           [] ch = ChS     -> plain(text(Head(args), 0), Tail(args))
           [] OTHER        -> plain(<<>>, args)

printf(f, args) == format(f, args, FALSE, FALSE)
=============================================================================
