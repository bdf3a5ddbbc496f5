---------------------------- MODULE NumberProofs ----------------------------
(***************************************************************************)
(* Numbers: what the proofs about sizes, samplers and locations need of    *)
(* minima, division and powers of two, and the theorems about Location,    *)
(* for every width of its fields.                                          *)
(***************************************************************************)
EXTENDS FiniteSetsExt, FiniteSetTheorems, TLAPS

\* A location with fields of these widths.
Packed(Half, Pages) == INSTANCE Location

-----------------------------------------------------------------------------
(* Least and greatest elements.                                             *)

LessThan == {ss \in Nat \X Nat : ss[1] < ss[2]}

\* A set of natural numbers has a least element, which Min is.
LEMMA MinOfNaturals ==
    ASSUME NEW T, T \subseteq Nat, T # {}
    PROVE  Min(T) \in T /\ \A k \in T : Min(T) <= k
<1>1. OpToRel(<, Nat) = LessThan
  BY DEF OpToRel, LessThan
<1>2. IsWellFoundedOn(LessThan, Nat)
  BY <1>1, NatLessThanWellFounded
<1>3. PICK m \in T : \A k \in T : ~ (<<k, m>> \in LessThan)
  BY <1>2, WFMin
<1>4. \A k \in T : m <= k
  <2> TAKE k \in T
  <2>1. <<k, m>> \in LessThan <=> k < m
    BY DEF LessThan
  <2> QED
    BY <1>3, <2>1
<1> QED
  BY <1>4 DEF Min

\* A set of natural numbers up to n has a greatest element, which Max is.
LEMMA MaxOfNaturals ==
    ASSUME NEW n \in Nat, NEW T, T \subseteq 0 .. n, T # {}
    PROVE  Max(T) \in T /\ \A k \in T : k <= Max(T)
<1> DEFINE U == {n - k : k \in T}
<1>1. U \subseteq Nat /\ U # {}
  <2>1. \A k \in T : k \in Int /\ 0 <= k /\ k <= n
    OBVIOUS
  <2>2. \A k \in T : n - k \in Nat
    BY <2>1
  <2> QED
    BY <2>2
<1>2. Min(U) \in U /\ \A k \in U : Min(U) <= k
  BY <1>1, MinOfNaturals
<1>3. PICK m \in T : Min(U) = n - m
  BY <1>2
<1>4. \A k \in T : k <= m
  <2> TAKE k \in T
  <2>1. n - k \in U
    OBVIOUS
  <2>2. n - m <= n - k
    BY <1>2, <1>3, <2>1
  <2>3. k \in Int /\ m \in Int
    OBVIOUS
  <2> QED
    BY <2>2, <2>3
<1> QED
  BY <1>4 DEF Max

\* What holds of 0 and passes to the next number holds of all.
LEMMA SetInduction ==
    ASSUME NEW T, 0 \in T, \A n \in Nat : n \in T => n + 1 \in T
    PROVE  Nat \subseteq T
<1> SUFFICES ASSUME Nat \ T # {} PROVE FALSE
  OBVIOUS
<1> DEFINE m == Min(Nat \ T)
<1>1. m \in Nat \ T /\ \A k \in Nat \ T : m <= k
  BY MinOfNaturals
<1> QED
  BY <1>1

-----------------------------------------------------------------------------
(* Powers of two, as the cardinalities of sets of sets.                     *)

\* The numbers from 1 to n are n numbers.
LEMMA UpTo ==
    ASSUME NEW n \in Nat
    PROVE  IsFiniteSet(1 .. n) /\ Cardinality(1 .. n) = n
  BY FS_Interval

\* A finite set of n elements has 2^n subsets.
LEMMA PowerIsSubsets ==
    ASSUME NEW S, IsFiniteSet(S), NEW n, Cardinality(S) = n
    PROVE  IsFiniteSet(SUBSET S) /\ Cardinality(SUBSET S) = 2 ^ n
  BY FS_SUBSET

\* A power of two is a positive number.
LEMMA PowerType == \A n \in Nat : 2 ^ n \in Nat \ {0}
<1> TAKE n \in Nat
<1>1. IsFiniteSet(SUBSET (1 .. n)) /\ Cardinality(SUBSET (1 .. n)) = 2 ^ n
  BY UpTo, PowerIsSubsets
<1>2. {} \in SUBSET (1 .. n)
  OBVIOUS
<1> QED
  BY <1>1, <1>2, FS_CardinalityType, FS_EmptySet

\* A subset of 1 .. m + n is one of 1 .. m and one of the rest.
LEMMA PowerSum == \A m, n \in Nat : 2 ^ (m + n) = 2 ^ m * 2 ^ n
<1> TAKE m, n \in Nat
<1> DEFINE L == 1 .. m
           R == m + 1 .. m + n
           A == 1 .. m + n
           f == [X \in SUBSET A |-> <<X \cap L, X \cap R>>]
<1>1. A = L \cup R /\ L \cap R = {}
  OBVIOUS
<1>2. /\ IsFiniteSet(SUBSET L) /\ Cardinality(SUBSET L) = 2 ^ m
      /\ IsFiniteSet(SUBSET R) /\ Cardinality(SUBSET R) = 2 ^ n
      /\ IsFiniteSet(SUBSET A) /\ Cardinality(SUBSET A) = 2 ^ (m + n)
  <2>1. IsFiniteSet(L) /\ Cardinality(L) = m
    BY UpTo
  <2>2. IsFiniteSet(R) /\ Cardinality(R) = n
    BY FS_Interval
  <2>3. IsFiniteSet(A) /\ Cardinality(A) = m + n
    <3>1. m + n \in Nat
      OBVIOUS
    <3> HIDE DEF L, R
    <3> QED
      BY <3>1, UpTo
  <2> HIDE DEF L, R, A
  <2> QED
    BY <2>1, <2>2, <2>3, PowerIsSubsets
<1> HIDE DEF L, R, A
<1>3. f \in Bijection(SUBSET A, (SUBSET L) \X (SUBSET R))
  <2>1. f \in [SUBSET A -> (SUBSET L) \X (SUBSET R)]
    OBVIOUS
  <2>2. \A X, Y \in SUBSET A : f[X] = f[Y] => X = Y
    <3> SUFFICES ASSUME NEW X \in SUBSET A, NEW Y \in SUBSET A, f[X] = f[Y]
                 PROVE  X = Y
      OBVIOUS
    <3>1. X \cap L = Y \cap L /\ X \cap R = Y \cap R
      OBVIOUS
    <3> QED
      BY <1>1, <3>1
  <2>3. \A t \in (SUBSET L) \X (SUBSET R) : \E X \in SUBSET A : f[X] = t
    <3> TAKE t \in (SUBSET L) \X (SUBSET R)
    <3>1. t = <<t[1], t[2]>> /\ t[1] \in SUBSET L /\ t[2] \in SUBSET R
      OBVIOUS
    <3>2. t[1] \cup t[2] \in SUBSET A
      BY <1>1, <3>1
    <3>3. (t[1] \cup t[2]) \cap L = t[1] /\ (t[1] \cup t[2]) \cap R = t[2]
      BY <1>1, <3>1
    <3>4. f[t[1] \cup t[2]] = t
      BY <3>1, <3>2, <3>3
    <3> QED
      BY <3>2, <3>4
  <2> HIDE DEF f
  <2> QED
    BY <2>1, <2>2, <2>3 DEF Bijection, Injection, Surjection, IsInjective
<1>4. Cardinality((SUBSET L) \X (SUBSET R)) = Cardinality(SUBSET A)
  BY <1>2, <1>3, FS_Bijection DEF ExistsBijection
<1>5. Cardinality((SUBSET L) \X (SUBSET R)) = Cardinality(SUBSET L) * Cardinality(SUBSET R)
  BY <1>2, FS_Product
<1> QED
  BY <1>2, <1>4, <1>5

\* Powers grow with their exponent.
LEMMA PowerMonotone ==
    ASSUME NEW m \in Nat, NEW n \in Nat, m <= n
    PROVE  2 ^ m <= 2 ^ n
<1>1. n - m \in Nat /\ m + (n - m) = n
  OBVIOUS
<1>2. 2 ^ n = 2 ^ m * 2 ^ (n - m)
  BY <1>1, PowerSum
<1>3. 2 ^ m \in Nat \ {0} /\ 2 ^ (n - m) \in Nat \ {0}
  BY <1>1, PowerType
<1> DEFINE p == 2 ^ m
           q == 2 ^ (n - m)
<1>4. ASSUME NEW a \in Nat, NEW b \in Nat \ {0} PROVE a <= a * b
  OBVIOUS
<1> QED
  BY <1>2, <1>3, <1>4

\* The first powers, and doubling.
LEMMA PowerStep ==
    /\ 2 ^ 0 = 1
    /\ 2 ^ 1 = 2
    /\ \A n \in Nat : 2 ^ (n + 1) = 2 * 2 ^ n
<1>1. 2 ^ 0 = 1 /\ 2 ^ 1 = 2
  OBVIOUS
<1>2. ASSUME NEW n \in Nat PROVE 2 ^ (n + 1) = 2 * 2 ^ n
  <2>1. 2 ^ (n + 1) = 2 ^ n * 2 ^ 1 /\ 2 ^ n \in Nat
    BY PowerSum, PowerType
  <2> QED
    BY <1>1, <2>1
<1> QED
  BY <1>1, <1>2

\* Every fourth power of two is two more than a multiple of five.
LEMMA PowerModFive == \A j \in Nat : \E g \in Nat : 2 ^ (4 * j + 1) = 5 * g + 2
<1> DEFINE T == {j \in Nat : \E g \in Nat : 2 ^ (4 * j + 1) = 5 * g + 2}
<1>1. 0 \in T
  <2>1. 2 ^ (4 * 0 + 1) = 5 * 0 + 2
    BY PowerStep
  <2> QED
    BY <2>1
<1>2. ASSUME NEW n \in Nat, n \in T PROVE n + 1 \in T
  <2>1. PICK g \in Nat : 2 ^ (4 * n + 1) = 5 * g + 2
    BY <1>2
  <2> DEFINE m == 4 * n + 1
  <2>2. m \in Nat /\ m + 1 \in Nat /\ m + 1 + 1 \in Nat /\ m + 1 + 1 + 1 \in Nat
    OBVIOUS
  <2>3. 4 * (n + 1) + 1 = m + 1 + 1 + 1 + 1
    OBVIOUS
  <2> HIDE DEF m
  <2>4. 2 ^ (m + 1 + 1 + 1 + 1) = 2 * (2 * (2 * (2 * 2 ^ m)))
    BY <2>2, PowerStep
  <2>5. 2 ^ (4 * (n + 1) + 1) = 5 * (16 * g + 6) + 2
    BY <2>1, <2>3, <2>4 DEF m
  <2> DEFINE h == 16 * g + 6
  <2>6. h \in Nat /\ 2 ^ (4 * (n + 1) + 1) = 5 * h + 2
    BY <2>5
  <2> HIDE DEF h
  <2>7. \E i \in Nat : 2 ^ (4 * (n + 1) + 1) = 5 * i + 2
    BY <2>6
  <2> QED
    BY <2>7
<1> HIDE DEF T
<1>3. Nat \subseteq T
  BY <1>1, <1>2, SetInduction
<1> QED
  BY <1>3 DEF T

-----------------------------------------------------------------------------
(* Products and quotients.                                                  *)

\* The quotient and the remainder of q * d + r are q and r.
LEMMA DivModUnique ==
    ASSUME NEW d \in Nat \ {0}, NEW q \in Nat, NEW r \in 0 .. d - 1
    PROVE  (q * d + r) \div d = q /\ (q * d + r) % d = r
<1> DEFINE n == q * d + r
<1> DEFINE p == n \div d
<1>1. n \in Nat /\ p \in Int /\ (n % d) \in 0 .. d - 1 /\ n = d * p + (n % d)
  OBVIOUS
<1> HIDE DEF p
<1>2. (q - p) * d = (n % d) - r
  BY <1>1
<1>3. ~(q - p >= 1)
  <2> SUFFICES ASSUME q - p >= 1 PROVE FALSE
    OBVIOUS
  <2>1. (q - p) * d >= d
    BY <1>1
  <2> QED
    BY <2>1, <1>1, <1>2
<1>4. ~(q - p <= -1)
  <2> SUFFICES ASSUME q - p <= -1 PROVE FALSE
    OBVIOUS
  <2>1. (q - p) * d <= -d
    BY <1>1
  <2> QED
    BY <2>1, <1>1, <1>2
<1>5. q = p
  BY <1>1, <1>3, <1>4
<1> QED
  BY <1>1, <1>2, <1>5 DEF p

\* A product grows with its first factor.
LEMMA ProductMonotone ==
    ASSUME NEW a \in Int, NEW b \in Int, NEW c \in Nat, a >= b
    PROVE  a * c >= b * c
  OBVIOUS

\* A product by a positive number shrinks only with its first factor.
LEMMA ProductCancel ==
    ASSUME NEW a \in Int, NEW b \in Int, NEW c \in Nat \ {0}, a * c <= b * c
    PROVE  a <= b
<1> SUFFICES ASSUME a >= b + 1 PROVE FALSE
  OBVIOUS
<1>1. a * c >= (b + 1) * c
  BY ProductMonotone
<1>2. (b + 1) * c = b * c + c
  OBVIOUS
<1> QED
  BY <1>1, <1>2

\* A common positive factor keeps the order.
LEMMA ProductOrder ==
    ASSUME NEW a \in Int, NEW b \in Int, NEW c \in Nat \ {0}
    PROVE  a * c < b * c <=> a < b
<1>1. a * c \in Int /\ b * c \in Int
  OBVIOUS
<1>2. a >= b => a * c >= b * c
  BY ProductMonotone
<1>3. b * c <= a * c => b <= a
  BY ProductCancel
<1> QED
  BY <1>1, <1>2, <1>3

\* What quotient and remainder are.
LEMMA DivMod ==
    ASSUME NEW a \in Int, NEW d \in Nat \ {0}
    PROVE  /\ a \div d \in Int /\ (a % d) \in 0 .. d - 1
           /\ a = (a \div d) * d + (a % d)
           /\ a >= 0 => a \div d >= 0
  OBVIOUS

\* The same of natural numbers.
LEMMA NatDivMod ==
    ASSUME NEW a \in Nat, NEW d \in Nat \ {0}
    PROVE  a \div d \in Nat /\ (a % d) \in 0 .. d - 1 /\ a = (a \div d) * d + (a % d)
  OBVIOUS

\* A quotient is not above its dividend.
LEMMA QuotientBelow ==
    ASSUME NEW a \in Nat, NEW d \in Nat \ {0}
    PROVE  a \div d \in 0 .. a
<1> DEFINE q == a \div d
<1>1. q \in Int /\ q >= 0 /\ q * d <= a
  BY DivMod
<1> HIDE DEF q
<1>2. d * q >= 1 * q
  BY <1>1, ProductMonotone
<1>3. q \in 0 .. a
  BY <1>1, <1>2
<1> QED
  BY <1>3 DEF q

\* Division by a positive number is monotone.
LEMMA DivMonotone ==
    ASSUME NEW a \in Int, NEW b \in Int, a <= b, NEW d \in Nat \ {0}
    PROVE  a \div d <= b \div d
<1> DEFINE p == a \div d
           q == b \div d
<1>1. p \in Int /\ q \in Int /\ p * d <= a /\ b < q * d + d
  BY DivMod
<1> HIDE DEF p, q
<1>2. p * d \in Int /\ q * d \in Int /\ (q + 1) * d = q * d + d
  BY <1>1
<1> SUFFICES ASSUME p >= q + 1 PROVE FALSE
  BY <1>1 DEF p, q
<1>3. p * d >= (q + 1) * d
  BY <1>1, ProductMonotone
<1> QED
  BY <1>1, <1>2, <1>3

\* A multiple is divided without a remainder.
LEMMA QuotientExact ==
    ASSUME NEW q \in Nat, NEW d \in Nat \ {0}
    PROVE  (q * d) \div d = q /\ (q * d) % d = 0
<1>1. (q * d + 0) \div d = q /\ (q * d + 0) % d = 0
  BY DivModUnique
<1>2. q * d + 0 = q * d
  OBVIOUS
<1> QED
  BY <1>1, <1>2

\* A common factor leaves the quotient alone and scales the remainder.
LEMMA QuotientScale ==
    ASSUME NEW a \in Nat, NEW b \in Nat \ {0}, NEW c \in Nat \ {0}
    PROVE  (a * c) \div (b * c) = a \div b /\ (a * c) % (b * c) = (a % b) * c
<1> DEFINE q == a \div b
           r == a % b
<1>1. q \in Nat /\ r \in 0 .. b - 1 /\ a = q * b + r
  BY NatDivMod
<1> HIDE DEF q, r
<1>2. b * c \in Nat \ {0} /\ r * c \in Nat
  BY <1>1
<1>3. r * c <= (b - 1) * c
  BY <1>1, ProductMonotone
<1>4. r * c \in 0 .. b * c - 1
  <2>1. (b - 1) * c = b * c - c
    OBVIOUS
  <2> QED
    BY <1>2, <1>3, <2>1
<1>5. a * c = q * (b * c) + r * c
  BY <1>1
<1>6. (q * (b * c) + r * c) \div (b * c) = q /\ (q * (b * c) + r * c) % (b * c) = r * c
  BY <1>1, <1>2, <1>4, DivModUnique
<1> QED
  BY <1>5, <1>6 DEF q, r

-----------------------------------------------------------------------------
(* Locations.                                                               *)

\* Two divisions by h in a row.
LEMMA Nested ==
    ASSUME NEW h \in Nat, NEW q \in Nat, NEW o \in Nat, NEW r \in Nat
    PROVE  h * (h * q + o) + r = q * (h * h) + (o * h + r)
  OBVIOUS

\* The fields of a new location are the ones it was given (core.rs:110-122).
THEOREM FieldsReadBack ==
    ASSUME NEW Half \in Nat \ {0}, NEW Pages \in Nat \ {0},
           NEW page \in Packed(Half, Pages)!PageIds,
           NEW offset \in Packed(Half, Pages)!Offsets,
           NEW size \in Packed(Half, Pages)!Offsets
    PROVE  LET raw == Packed(Half, Pages)!new(page, offset, size)
           IN  /\ Packed(Half, Pages)!page_id(raw) = page
               /\ Packed(Half, Pages)!page_offset(raw) = offset
               /\ Packed(Half, Pages)!object_size(raw) = size
<1> DEFINE raw == Packed(Half, Pages)!new(page, offset, size)
<1> DEFINE high == page * Half + offset
<1>1. /\ Half \in Nat \ {0} /\ Half * Half \in Nat \ {0} /\ high \in Nat
      /\ page \in Nat /\ offset \in Nat /\ size \in Nat
  BY DEF Packed!PageIds, Packed!Offsets
<1>2. raw = high * Half + size
  BY <1>1 DEF Packed!new
<1>3. raw \div Half = high /\ raw % Half = size
  <2> HIDE DEF high
  <2>1. size \in 0 .. Half - 1
    BY DEF Packed!Offsets
  <2>2. (high * Half + size) \div Half = high /\ (high * Half + size) % Half = size
    BY <1>1, <2>1, DivModUnique
  <2> QED
    BY <1>2, <2>2
<1>4. high % Half = offset
  BY <1>1, DivModUnique DEF Packed!Offsets
<1>5. raw \div (Half * Half) = page
  <2> DEFINE low == offset * Half + size
  <2>1. low \in 0 .. Half * Half - 1
    <3>1. offset * Half <= (Half - 1) * Half
      BY <1>1 DEF Packed!Offsets
    <3> QED
      BY <1>1, <3>1 DEF Packed!Offsets
  <2>2. raw = page * (Half * Half) + low
    BY <1>1 DEF Packed!new
  <2> QED
    BY <1>1, <2>1, <2>2, DivModUnique
<1>6. page % Pages = page
  BY DEF Packed!PageIds
<1> QED
  BY <1>3, <1>4, <1>5, <1>6 DEF Packed!page_id, Packed!page_offset, Packed!object_size

\* Every raw word, wherever from_raw took it from, is the location of its own
\* fields: two locations differ in a field or are the same (core.rs:110-128).
THEOREM RawReadsBack ==
    ASSUME NEW Half \in Nat \ {0}, NEW Pages \in Nat \ {0},
           NEW raw \in Packed(Half, Pages)!RawWords
    PROVE  Packed(Half, Pages)!new(Packed(Half, Pages)!page_id(raw),
                                     Packed(Half, Pages)!page_offset(raw),
                                     Packed(Half, Pages)!object_size(raw)) = raw
<1> DEFINE high == raw \div Half
<1> DEFINE page == raw \div (Half * Half)
<1> DEFINE off == high % Half
<1>1. /\ Half \in Nat \ {0} /\ Half * Half \in Nat \ {0} /\ raw \in Nat
      /\ Pages \in Nat \ {0}
  BY DEF Packed!RawWords
<1>2. high \in Nat /\ raw = Half * high + (raw % Half) /\ (raw % Half) \in 0 .. Half - 1
  BY <1>1
<1>3. (high \div Half) \in Nat /\ high = Half * (high \div Half) + off /\ off \in 0 .. Half - 1
  BY <1>1, <1>2
<1> HIDE DEF off, high
<1>4. raw = (high \div Half) * (Half * Half) + (off * Half + (raw % Half))
  <2>1. raw = Half * (Half * (high \div Half) + off) + (raw % Half)
    BY <1>2, <1>3
  <2> QED
    BY <1>1, <1>2, <1>3, <2>1, Nested
<1>5. off * Half + (raw % Half) \in 0 .. Half * Half - 1
  <2>1. off * Half <= (Half - 1) * Half
    BY <1>1, <1>3
  <2> QED
    BY <1>1, <1>2, <1>3, <2>1
<1>6. page = high \div Half
  <2> DEFINE low == off * Half + (raw % Half)
  <2> DEFINE q == high \div Half
  <2>1. q \in Nat /\ low \in 0 .. Half * Half - 1 /\ raw = q * (Half * Half) + low
    BY <1>3, <1>4, <1>5
  <2> HIDE DEF low, q
  <2>2. (q * (Half * Half) + low) \div (Half * Half) = q
    BY <1>1, <2>1, DivModUnique
  <2>3. raw \div (Half * Half) = q
    BY <2>1, <2>2
  <2> QED
    BY <2>3 DEF q
<1>7. Packed(Half, Pages)!page_id(raw) = page
  <2>1. Packed(Half, Pages)!page_id(raw) = page % Pages
    BY DEF Packed!page_id
  <2>2. page \in Nat
    BY <1>3, <1>6
  <2> HIDE DEF page
  <2>3. page * (Half * Half) <= raw
    BY <1>1, <1>3, <1>4, <1>5, <1>6, <2>2
  <2>4. page < Pages
    <3> SUFFICES ASSUME page >= Pages PROVE FALSE
      BY <1>1, <2>2
    <3>1. page * (Half * Half) >= Pages * (Half * Half)
      BY <1>1, <2>2, ProductMonotone
    <3> QED
      BY <1>1, <2>2, <2>3, <3>1 DEF Packed!RawWords
  <2> QED
    BY <1>1, <2>1, <2>2, <2>4
<1>8. /\ Packed(Half, Pages)!page_offset(raw) = off
      /\ Packed(Half, Pages)!object_size(raw) = raw % Half
  BY DEF Packed!page_offset, Packed!object_size, off, high
<1>9. raw = page * (Half * Half) + off * Half + (raw % Half)
  BY <1>1, <1>2, <1>3, <1>4, <1>6
<1> QED
  BY <1>7, <1>8, <1>9 DEF Packed!new
=============================================================================
