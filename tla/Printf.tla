------------------------------- MODULE Printf -------------------------------
(***************************************************************************)
(* The conversions of lib/printf.c.                                        *)
(*                                                                         *)
(* A format is a sequence of items, each with the argument it takes: "lit" *)
(* is an ordinary character, the others are conversions with their flag,   *)
(* width (0 if none is given) and number of l's.  num is what the caller   *)
(* put in a long register, str the string or character it passed.          *)
(***************************************************************************)
EXTENDS Integers, Sequences, SequencesExt

CONSTANTS
    IntBits, LongBits,  \* the widths of int and long: 32 and 64
    Strays              \* runs of digits that may follow the width in padding[5]

\* a2u takes the character after '9' for a digit as well.
ASSUME PrintfAssumption ==
    /\ IntBits \in Nat \ {0} /\ LongBits \in Nat /\ LongBits > IntBits
    /\ Strays \subseteq Seq(0 .. 10)

Lower == <<"0", "1", "2", "3", "4", "5", "6", "7", "8", "9", "a", "b", "c", "d", "e", "f">>
Upper == <<"0", "1", "2", "3", "4", "5", "6", "7", "8", "9", "A", "B", "C", "D", "E", "F">>

UInt(n)  == n % 2^IntBits
ULong(n) == n % 2^LongBits
SInt(n)  == IF UInt(n) < 2^(IntBits - 1) THEN UInt(n) ELSE UInt(n) - 2^IntBits
SLong(n) == IF ULong(n) < 2^(LongBits - 1) THEN ULong(n) ELSE ULong(n) - 2^LongBits

\* Mutant: the divisor stops growing while a digit equals the base.
Divisor_Strict(num, base) ==
    LET grow[d \in 1 .. num + 1] == IF num \div d > base THEN grow[d * base] ELSE d
    IN  grow[1]

\* ui2a, ul2a and ull2a: the power of the base that yields the first digit.
Divisor(num, base) ==
    LET grow[d \in 1 .. num + 1] == IF num \div d >= base THEN grow[d * base] ELSE d
    IN  grow[1]

\* ... and the digits, without zeros in front.
U2a(num, base, digits) ==
    LET put[d \in 0 .. num + 1, rest \in 0 .. num, seen \in BOOLEAN] ==
          LET dgt == rest \div d
          IN  IF d = 0 THEN <<>>
              ELSE IF seen \/ dgt > 0 \/ d \div base = 0
              THEN <<digits[dgt + 1]>> \o put[d \div base, rest % d, TRUE]
              ELSE put[d \div base, rest % d, FALSE]
    IN  put[Divisor(num, base), num, FALSE]

\* The magnitudes i2a, l2a and ll2a may pass on.  All three take an int; the
\* least one has no negative, and widening it again may keep its sign.
Magnitudes(n, lng) ==
    IF SInt(n) >= 0 THEN {SInt(n)}
    ELSE IF lng > 0 /\ SInt(n) = -(2^(IntBits - 1))
    THEN {-SInt(n), 2^LongBits + SInt(n)}
    ELSE {-SInt(n)}

I2a(n, lng) ==
    {(IF SInt(n) < 0 THEN <<"-">> ELSE <<>>) \o U2a(num, 10, Lower) : num \in Magnitudes(n, lng)}

\* a2u on padding[5], which has no terminator: it reads on to the first
\* character that is no digit, and takes what the stack holds there for part
\* of the width.
ReadOn(width, digits) == FoldLeft(LAMBDA num, d : 10 * num + d, width, digits)

Paddings(width) == IF width = 0 THEN {0} ELSE {width} \cup {ReadOn(width, s) : s \in Strays}

\* puts: what fills the width goes in front, also in front of a sign.
Puts(str, padding, zero) ==
    [k \in 1 .. padding - Len(str) |-> IF zero THEN "0" ELSE " "] \o str

PutsAny(item, strs) == {Puts(str, p, item.zero) : str \in strs, p \in Paddings(item.width)}

Unsigned(item) == IF item.lng = 0 THEN UInt(item.num) ELSE ULong(item.num)

\* %p: its "0x" takes the width; the digits are those of a long, in capitals.
PointerDigits == LongBits \div 4

Pointer(item) == {str \o Puts(U2a(ULong(item.num), 16, Upper), PointerDigits, TRUE) :
                      str \in PutsAny(item, {<<"0", "x">>})}

\* The texts an item may come out as: one, but for padding and l2a.  A letter
\* that is no conversion prints nothing.
Texts(item) ==
    CASE item.conv \in {"lit", "c"} -> {item.str}
      [] item.conv = "s" -> PutsAny(item, {item.str})
      [] item.conv = "d" -> PutsAny(item, I2a(item.num, item.lng))
      [] item.conv = "u" -> PutsAny(item, {U2a(Unsigned(item), 10, Lower)})
      [] item.conv = "o" -> PutsAny(item, {U2a(UInt(item.num), 8, Lower)})
      [] item.conv = "x" -> PutsAny(item, {U2a(Unsigned(item), 16, Lower)})
      [] item.conv = "X" -> PutsAny(item, {U2a(Unsigned(item), 16, Upper)})
      [] item.conv = "p" -> Pointer(item)
      [] OTHER -> {<<>>}

\* printf_format.
Formatted(items) ==
    FoldLeft(LAMBDA texts, item : {a \o b : a \in texts, b \in Texts(item)}, {<<>>}, items)

\* snprintf_putcf: what does not fit is dropped.
Clipped(text, max) == SubSeq(text, 1, IF Len(text) < max THEN Len(text) ELSE max)

-----------------------------------------------------------------------------
(* The reference: what a numeral says.                                     *)

DigitValue(c) == CHOOSE v \in 0 .. 15 : Lower[v + 1] = c \/ Upper[v + 1] = c

IsNumeral(s, base, digits) ==
    /\ s # <<>> /\ (s[1] = "0" => Len(s) = 1)
    /\ Range(s) \subseteq {digits[k] : k \in 1 .. base}

Value(s, base) == FoldLeft(LAMBDA v, c : v * base + DigitValue(c), 0, s)

Says(s, n, base, digits) ==
    IF n < 0 THEN s # <<>> /\ s[1] = "-" /\ IsNumeral(Tail(s), base, digits) /\ Value(Tail(s), base) = -n
    ELSE IsNumeral(s, base, digits) /\ Value(s, base) = n

\* s is n, with filling in front of it that makes it no shorter than width.
ShowsNumber(s, n, base, digits, width) ==
    /\ Len(s) >= width
    /\ \E k \in 0 .. Len(s) - 1 :
         /\ \A j \in 1 .. k : s[j] \in {" ", "0"}
         /\ Says(SubSeq(s, k + 1, Len(s)), n, base, digits)

\* The argument of %d.
Signed(item) == IF item.lng = 0 THEN SInt(item.num) ELSE SLong(item.num)

\* An int can hold it and its negative, which %ld and %lld need: l2a and ll2a
\* take an int.
FitsInt(n) == -n \in -(2^(IntBits - 1)) + 1 .. 2^(IntBits - 1) - 1

\* What the text of an item should be: the number that the caller passed.
TextRight(item, s) ==
    CASE item.conv = "d" ->
           item.lng = 0 \/ FitsInt(Signed(item)) =>
             ShowsNumber(s, Signed(item), 10, Lower, item.width)
      [] item.conv = "u" -> ShowsNumber(s, Unsigned(item), 10, Lower, item.width)
      [] item.conv = "o" -> ShowsNumber(s, UInt(item.num), 8, Lower, item.width)
      [] item.conv = "x" -> ShowsNumber(s, Unsigned(item), 16, Lower, item.width)
      [] item.conv = "X" -> ShowsNumber(s, Unsigned(item), 16, Upper, item.width)
      [] item.conv = "p" -> ShowsNumber(SubSeq(s, Len(s) - PointerDigits + 1, Len(s)),
                                        ULong(item.num), 16, Upper, PointerDigits)
      [] OTHER -> TRUE
=============================================================================
