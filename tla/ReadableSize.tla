---------------------------- MODULE ReadableSize ----------------------------
(***************************************************************************)
(* Sizes in bytes and their text, crates/common/src/readable_size.rs, as   *)
(* the max_body_size of a RestServerConfig goes through them: built in     *)
(* code, saved to a configuration file and loaded again, copied there from *)
(* a log, typed by hand.                                                   *)
(*                                                                         *)
(* The widths are constants.  The code has WordBits = 64, FloatBits = 53   *)
(* (an f64), UnitBits = 10 (1 KiB).  What the properties depend on is how  *)
(* these relate: FloatBits + UnitBits + 1 = WordBits, and the largest unit *)
(* is still exact as a float.                                              *)
(***************************************************************************)
EXTENDS Integers, FiniteSetsExt

CONSTANTS
    WordBits,    \* width of the u64 inside a ReadableSize
    FloatBits,   \* significant bits of an f64
    UnitBits,    \* log2 of BINARY_DATA_MAGNITUDE
    Counts,      \* arguments of kb, mb and gb, and factors and divisors
    Typed        \* texts a user may type into the configuration file

\* Units by their power of BINARY_DATA_MAGNITUDE; the code has B to PIB.
B == 0
KIB == 1
MIB == 2
GIB == 3
PIB == 5

ASSUME WidthAssumption ==
    /\ UnitBits \in Nat \ {0}
    /\ FloatBits \in Nat /\ PIB * UnitBits <= FloatBits
    /\ WordBits = FloatBits + UnitBits + 1

ASSUME CountsAssumption == Counts \subseteq Nat \ {0}

VARIABLE size    \* the ReadableSize in the configuration

MaxSize == 2 ^ WordBits - 1
Words == 0 .. MaxSize

Units == B .. PIB
Bytes(unit) == 2 ^ (UnitBits * unit)

-----------------------------------------------------------------------------
(* Text.  A plain number, a decimal with a unit, or what from_str rejects:  *)
(* an empty or non-ASCII string, an unknown unit, an unreadable number.     *)
(* Decimals have one digit after the point and are counted in tenths.       *)

Plain(n) == [kind |-> "number", value |-> n]
Sized(tenths, unit) == [kind |-> "string", tenths |-> tenths, unit |-> unit]
Malformed == [kind |-> "malformed"]

IsText(t) ==
    \/ t = Malformed
    \/ t.kind = "number" /\ t.value \in Int
    \/ t.kind = "string" /\ t.tenths \in Int /\ t.unit \in Units

ASSUME TypedAssumption == \A t \in Typed : IsText(t)

SizeTypeOK == size \in Words

-----------------------------------------------------------------------------
(* Floating point.                                                          *)

\* a / b to the nearest integer, a tie to the even one.
RoundHalfEven(a, b) ==
    LET q == a \div b  r == a % b
    IN  IF 2 * r > b \/ (2 * r = b /\ q % 2 = 1) THEN q + 1 ELSE q

\* The integer part of the float nearest to a / b.  FloatBits binary places are
\* kept below the point: a float may have more, but a tenth of a unit is too far
\* from the next integer for them to reach it.  Numbers beyond the last exponent
\* tried are beyond every word.
FloatFloor(a, b) ==
    LET scaled == a * 2 ^ FloatBits
        last == WordBits + UnitBits
        e == Min({last} \cup {x \in 0 .. last : scaled < b * 2 ^ (FloatBits + x)})
    IN  (RoundHalfEven(scaled, b * 2 ^ e) * 2 ^ e) \div 2 ^ FloatBits

\* Mutant of SaturatingCast: the cast wraps.
WrappingCast(n) == n % 2 ^ WordBits

\* `as u64` from a float.
SaturatingCast(n) == IF n < 0 THEN 0 ELSE Min({n, MaxSize})

-----------------------------------------------------------------------------
(* Conversions.                                                             *)

\* Serialize: the largest unit that divides the size, else a plain number.
Serialized(n) ==
    LET exact == {u \in KIB .. PIB : n % Bytes(u) = 0}
    IN  CASE n = 0                  -> Sized(0, KIB)
          [] n # 0 /\ exact # {}    -> Sized(10 * (n \div Bytes(Max(exact))), Max(exact))
          [] n # 0 /\ exact = {}    -> Plain(n)

\* Mutant of Displayed: GiB are computed as MiB.
DisplayedInMib(n) ==
    LET unit == Max({B} \cup {u \in Units : n >= Bytes(u)})
    IN  IF unit = B THEN Sized(10 * n, B)
                    ELSE Sized(RoundHalfEven(10 * FloatFloor(n, 1),
                                             Bytes(Min({unit, MIB}))), unit)

\* Display, which Debug uses too: the largest unit not above the size, with one
\* decimal from KiB upwards.
Displayed(n) ==
    LET unit == Max({B} \cup {u \in Units : n >= Bytes(u)})
    IN  IF unit = B THEN Sized(10 * n, B)
                    ELSE Sized(RoundHalfEven(10 * FloatFloor(n, 1), Bytes(unit)), unit)

\* from_str: the number is parsed as a float and multiplied, which is exact.
FromStr(t) ==
    SaturatingCast(FloatFloor(t.tenths * Bytes(t.unit), 10))

\* The visitor takes numbers that are words, and what from_str reads.
Accepted(t) == t.kind = "string" \/ (t.kind = "number" /\ t.value \in Words)

Deserialized(t) == IF t.kind = "number" THEN t.value ELSE FromStr(t)

-----------------------------------------------------------------------------
(* Operations on the size.                                                  *)

\* kb, mb and gb: the product wraps in a release build.
Made(count, unit) == (count * Bytes(unit)) % 2 ^ WordBits

Make == \E count \in Counts, unit \in {KIB, MIB, GIB} : size' = Made(count, unit)

\* Mutant of Multiply: the product may exceed the word.
MultiplyWide == \E factor \in Counts : size' = size * factor

\* Mul wraps too.
Multiply == \E factor \in Counts : size' = (size * factor) % 2 ^ WordBits

Divide == \E divisor \in Counts : size' = size \div divisor

\* The configuration is saved and loaded.
Reload == size' = Deserialized(Serialized(size))

\* The size is copied from a log into the file, which is loaded.
LoadDisplayed == size' = Deserialized(Displayed(size))

\* Somebody edits the file.  A text that is not accepted fails the load of the
\* whole configuration.
LoadTyped == \E t \in Typed : Accepted(t) /\ size' = Deserialized(t)

SizeStep == Make \/ Multiply \/ Divide \/ Reload \/ LoadDisplayed \/ LoadTyped

\* A default, such as DEFAULT_MAX_HTTP_BODY_SIZE.
SizeInit == \E count \in Counts : size = Made(count, MIB)

-----------------------------------------------------------------------------
Reloaded(n) == Deserialized(Serialized(n))
Distance(a, b) == IF a < b THEN b - a ELSE a - b

\* A size that is saved and loaded comes back: exactly below 2^(FloatBits +
\* UnitBits) bytes, and at most a KiB away above, where the count of KiB no
\* longer fits a float.  Loading and saving again changes nothing more: a program
\* that rewrites its configuration at every start does not let the limit drift
\* (readable_size.rs:87-157).
SavedSizeSurvives ==
    /\ size < 2 ^ (FloatBits + UnitBits) => Reloaded(size) = size
    /\ Distance(Reloaded(size), size) <= Bytes(KIB)
    /\ Reloaded(Reloaded(size)) = Reloaded(size)

PrintedValue(n) == Displayed(n).tenths * Bytes(Displayed(n).unit)

\* What is printed can be compared and read back: a larger size is never printed
\* as less, across the change of unit and the rounding of large sizes, and a
\* printed size read back is off by no more than the rounding to a tenth of its
\* unit and, for sizes too large for a float, that of the float
\* (readable_size.rs:152-179).
DisplayIsFaithful ==
    LET rounding == Bytes(Displayed(size).unit) \div 20 + 1
        float == IF size < 2 ^ FloatBits THEN 0 ELSE Bytes(KIB)
    IN  /\ size < MaxSize => PrintedValue(size) <= PrintedValue(size + 1)
        /\ Distance(FromStr(Displayed(size)), size) <= rounding + float
=============================================================================
