--------------------------- MODULE ProtocolProofs ---------------------------
(***************************************************************************)
(* The wire format for every width of a byte and of the bitmap, every      *)
(* header and every payload.                                               *)
(*                                                                         *)
(*   - Induction over numbers, from which follows what the recursive       *)
(*     functions Power and Number compute: the digits of a number and the  *)
(*     number of some digits are inverse to each other, for bytes as for   *)
(*     the bits of a byte.                                                 *)
(*   - Layouts: fields that do not overlap are read as they were written,  *)
(*     and fields that leave no gap determine the bytes.                   *)
(*   - The layouts, payloads and headers of the code, one by one.          *)
(*   - The specification.                                                  *)
(***************************************************************************)
EXTENDS Protocol, WellFoundedInduction, TLAPS

\* Induction over the natural numbers, for a property given as a set.  It rests on
\* the well-foundedness of <, since the induction theorems of the library take an
\* operator, which the provers cannot instantiate.
LEMMA Induction ==
  ASSUME NEW S, 0 \in S, \A n \in Nat : n \in S => n + 1 \in S
  PROVE  \A n \in Nat : n \in S
<1> SUFFICES ASSUME NEW k \in Nat, k \notin S PROVE FALSE
  OBVIOUS
<1> DEFINE T == {n \in Nat : n \notin S}
           R == OpToRel(<, Nat)
<1>1. T \subseteq Nat /\ T # {}
  OBVIOUS
<1>2. IsWellFoundedOn(R, Nat)
  BY NatLessThanWellFounded
<1>3. PICK x \in T : \A y \in T : ~(<<y, x>> \in R)
  <2> HIDE DEF T, R
  <2> QED
    BY <1>1, <1>2, WFMin
<1>4. x # 0 /\ x - 1 \in Nat /\ x - 1 < x
  OBVIOUS
<1>5. <<x - 1, x>> \in R
  BY <1>4 DEF OpToRel
<1>6. x - 1 \in S
  BY <1>3, <1>4, <1>5
<1> QED
  BY <1>4, <1>6

-----------------------------------------------------------------------------
(* Division. *)

LEMMA ProductIsNat ==
  ASSUME NEW a \in Nat, NEW b \in Nat
  PROVE  a * b \in Nat
OBVIOUS

LEMMA ProductGrows ==
  ASSUME NEW a \in Int, NEW b \in Int, NEW m \in Nat, a <= b
  PROVE  a * m <= b * m
OBVIOUS

LEMMA Associative ==
  ASSUME NEW a \in Int, NEW b \in Int, NEW c \in Int
  PROVE  (a * b) * c = a * (b * c)
OBVIOUS

LEMMA Division ==
  ASSUME NEW a \in Nat, NEW m \in Nat \ {0}
  PROVE  /\ a \div m \in Nat
         /\ a % m \in 0 .. m - 1
         /\ a = (a \div m) * m + (a % m)
OBVIOUS

\* Quotient and remainder are the only ones.
LEMMA DivisionIsUnique ==
  ASSUME NEW a \in Nat, NEW m \in Nat \ {0}, NEW q \in Int, NEW r \in 0 .. m - 1,
         a = q * m + r
  PROVE  a \div m = q /\ a % m = r
<1> DEFINE d == a \div m
<1>1. d \in Nat /\ a % m \in 0 .. m - 1 /\ a = d * m + (a % m)
  BY Division
<1> HIDE DEF d
<1>2. q * m \in Int /\ d * m \in Int
  BY <1>1
<1>3. ~(d <= q - 1)
  <2> SUFFICES ASSUME d <= q - 1 PROVE FALSE
    OBVIOUS
  <2>1. d * m <= (q - 1) * m
    BY <1>1, ProductGrows
  <2>2. (q - 1) * m = q * m - m
    OBVIOUS
  <2> QED
    BY <1>1, <1>2, <2>1, <2>2
<1>4. ~(q + 1 <= d)
  <2> SUFFICES ASSUME q + 1 <= d PROVE FALSE
    OBVIOUS
  <2>1. (q + 1) * m <= d * m
    BY <1>1, ProductGrows
  <2>2. (q + 1) * m = q * m + m
    OBVIOUS
  <2> QED
    BY <1>1, <1>2, <2>1, <2>2
<1>5. d = q
  BY <1>1, <1>3, <1>4
<1> QED
  BY <1>1, <1>2, <1>5 DEF d

\* A digit behind a number.
LEMMA Shifted ==
  ASSUME NEW base \in Nat \ {0}, NEW m \in Nat \ {0},
         NEW x \in 0 .. m - 1, NEW digit \in 0 .. base - 1
  PROVE  x * base + digit \in 0 .. base * m - 1
<1>1. x * base <= (m - 1) * base
  BY ProductGrows
<1>2. (m - 1) * base = base * m - base
  OBVIOUS
<1>3. x * base \in Nat /\ base * m \in Nat
  OBVIOUS
<1> QED
  BY <1>1, <1>2, <1>3

-----------------------------------------------------------------------------
(* Powers. *)

\* The recursion of Power defines a function.
LEMMA PowerIsDefined ==
  ASSUME NEW base
  PROVE  Power(base) = [n \in Nat |-> IF n = 0 THEN 1 ELSE base * Power(base)[n - 1]]
<1> DEFINE Step(p, m) == [n \in 0 .. m |-> IF n = 0 THEN 1 ELSE base * p[n - 1]]
           S == {m \in Nat : \E p : p = Step(p, m)}
<1>1. 0 \in S
  <2> DEFINE p == [n \in 0 .. 0 |-> 1]
  <2>1. p = Step(p, 0)
    OBVIOUS
  <2> QED
    BY <2>1
<1>2. ASSUME NEW m \in Nat, m \in S
      PROVE  m + 1 \in S
  <2>1. PICK p : p = Step(p, m)
    BY <1>2
  <2> DEFINE q == [n \in 0 .. m + 1 |-> IF n <= m THEN p[n] ELSE base * p[m]]
  <2>2. ASSUME NEW n \in 0 .. m + 1
        PROVE  q[n] = IF n = 0 THEN 1 ELSE base * q[n - 1]
    BY <2>1
  <2>3. q = Step(q, m + 1)
    BY <2>2
  <2> HIDE DEF q
  <2> QED
    BY <2>3
<1>3. \A m \in Nat : m \in S
  <2> HIDE DEF S
  <2> QED
    BY <1>1, <1>2, Induction
<1> DEFINE g == [m \in Nat |-> CHOOSE p : p = Step(p, m)]
           f == [n \in Nat |-> g[n][n]]
<1>4. ASSUME NEW m \in Nat
      PROVE  /\ g[m][0] = 1
             /\ \A k \in 1 .. m : g[m][k] = base * g[m][k - 1]
  <2>1. g[m] = Step(g[m], m)
    BY <1>3
  <2> HIDE DEF g
  <2> QED
    BY <2>1
<1> HIDE DEF g
<1>5. ASSUME NEW n \in Nat
      PROVE  g[n + 1][n] = g[n][n]
  <2> DEFINE E == {k \in Nat : k <= n => g[n + 1][k] = g[n][k]}
  <2>1. 0 \in E
    BY <1>4
  <2>2. ASSUME NEW k \in Nat, k \in E
        PROVE  k + 1 \in E
    <3> SUFFICES ASSUME k + 1 <= n PROVE g[n + 1][k + 1] = g[n][k + 1]
      OBVIOUS
    <3>1. g[n + 1][k] = g[n][k]
      BY <2>2
    <3>2. k + 1 \in 1 .. n + 1 /\ k + 1 \in 1 .. n /\ n + 1 \in Nat /\ (k + 1) - 1 = k
      OBVIOUS
    <3>3. g[n + 1][k + 1] = base * g[n + 1][k] /\ g[n][k + 1] = base * g[n][k]
      BY <1>4, <3>2
    <3> QED
      BY <3>1, <3>3
  <2>3. \A k \in Nat : k \in E
    <3> HIDE DEF E
    <3> QED
      BY <2>1, <2>2, Induction
  <2> QED
    BY <2>3
<1>6. ASSUME NEW n \in Nat
      PROVE  f[n] = IF n = 0 THEN 1 ELSE base * f[n - 1]
  <2>1. CASE n = 0
    BY <1>4, <2>1
  <2>2. CASE n # 0
    <3>1. n - 1 \in Nat /\ n \in 1 .. n /\ (n - 1) + 1 = n
      BY <2>2
    <3>2. g[n][n - 1] = g[n - 1][n - 1]
      BY <1>5, <3>1
    <3> QED
      BY <1>4, <2>2, <3>1, <3>2
  <2> QED
    BY <2>1, <2>2
<1>7. f = [n \in Nat |-> IF n = 0 THEN 1 ELSE base * f[n - 1]]
  BY <1>6
<1> HIDE DEF f
<1> QED
  BY <1>7 DEF Power

LEMMA PowerFacts ==
  ASSUME NEW base \in Nat \ {0}
  PROVE  /\ Power(base)[0] = 1
         /\ \A n \in Nat : Power(base)[n + 1] = base * Power(base)[n]
         /\ \A n \in Nat : Power(base)[n] \in Nat \ {0}
<1> DEFINE p == Power(base)
           S == {n \in Nat : p[n] \in Nat \ {0}}
<1> HIDE DEF p
<1>1. p[0] = 1 /\ \A n \in Nat : p[n + 1] = base * p[n]
  <2>1. p = [n \in Nat |-> IF n = 0 THEN 1 ELSE base * p[n - 1]]
    BY PowerIsDefined DEF p
  <2> QED
    BY <2>1
<1>2. 0 \in S
  BY <1>1
<1>3. ASSUME NEW n \in Nat, n \in S
      PROVE  n + 1 \in S
  <2>1. base * p[n] \in Nat \ {0}
    BY <1>3
  <2> QED
    BY <1>1, <2>1
<1>4. \A n \in Nat : n \in S
  <2> HIDE DEF S
  <2> QED
    BY <1>2, <1>3, Induction
<1> QED
  BY <1>1, <1>4 DEF p

-----------------------------------------------------------------------------
(* Digits and numbers. *)

\* The recursion of Number defines a function: the values of the prefixes.
LEMMA NumberIsDefined ==
  ASSUME NEW base, NEW digits, Len(digits) \in Nat
  PROVE  \E v : /\ v[0] = 0
                /\ \A n \in 1 .. Len(digits) : v[n] = v[n - 1] * base + digits[n]
                /\ Number(base, digits) = v[Len(digits)]
<1> DEFINE Step(v, m) == [n \in 0 .. m |-> IF n = 0 THEN 0 ELSE v[n - 1] * base + digits[n]]
           S == {m \in Nat : \E v : v = Step(v, m)}
<1>1. 0 \in S
  <2> DEFINE v == [n \in 0 .. 0 |-> 0]
  <2>1. v = Step(v, 0)
    OBVIOUS
  <2> QED
    BY <2>1
<1>2. ASSUME NEW m \in Nat, m \in S
      PROVE  m + 1 \in S
  <2>1. PICK v : v = Step(v, m)
    BY <1>2
  <2> DEFINE w == [n \in 0 .. m + 1 |-> IF n <= m THEN v[n] ELSE v[m] * base + digits[m + 1]]
  <2>2. ASSUME NEW n \in 0 .. m + 1
        PROVE  w[n] = IF n = 0 THEN 0 ELSE w[n - 1] * base + digits[n]
    BY <2>1
  <2>3. w = Step(w, m + 1)
    BY <2>2
  <2> HIDE DEF w
  <2> QED
    BY <2>3
<1>3. Len(digits) \in S
  <2> HIDE DEF S
  <2> QED
    BY <1>1, <1>2, Induction
<1> DEFINE v == CHOOSE v : v = Step(v, Len(digits))
<1>4. v = Step(v, Len(digits))
  BY <1>3
<1>5. Number(base, digits) = v[Len(digits)]
  BY DEF Number
<1> HIDE DEF v
<1> QED
  BY <1>4, <1>5

\* A prefix of n digits has a value below base^n, and the value of all w digits
\* is the one of the prefix, shifted, and a rest.
LEMMA NumberFacts ==
  ASSUME NEW base \in Nat \ {0}, NEW digits \in Seq(0 .. base - 1)
  PROVE  \E v : /\ v[0] = 0
                /\ \A n \in 1 .. Len(digits) : v[n] = v[n - 1] * base + digits[n]
                /\ \A n \in 0 .. Len(digits) : v[n] \in 0 .. Power(base)[n] - 1
                /\ Number(base, digits) = v[Len(digits)]
<1> DEFINE w == Len(digits)
           p == Power(base)
<1>1. w \in Nat /\ \A n \in 1 .. w : digits[n] \in 0 .. base - 1
  OBVIOUS
<1>2. /\ p[0] = 1
      /\ \A n \in Nat : p[n + 1] = base * p[n]
      /\ \A n \in Nat : p[n] \in Nat \ {0}
  BY PowerFacts
<1>3. PICK v : /\ v[0] = 0
               /\ \A n \in 1 .. w : v[n] = v[n - 1] * base + digits[n]
               /\ Number(base, digits) = v[w]
  BY <1>1, NumberIsDefined
<1> HIDE DEF w, p
<1> DEFINE S == {n \in Nat : n <= w => v[n] \in 0 .. p[n] - 1}
<1>4. 0 \in S
  <2>1. v[0] \in 0 .. p[0] - 1
    BY <1>2, <1>3
  <2> QED
    BY <2>1
<1>5. ASSUME NEW n \in Nat, n \in S
      PROVE  n + 1 \in S
  <2> SUFFICES ASSUME n + 1 <= w PROVE v[n + 1] \in 0 .. p[n + 1] - 1
    OBVIOUS
  <2>1. v[n] \in 0 .. p[n] - 1 /\ p[n] \in Nat \ {0}
    BY <1>1, <1>2, <1>5
  <2>2. v[n + 1] = v[n] * base + digits[n + 1] /\ digits[n + 1] \in 0 .. base - 1
    <3>1. n + 1 \in 1 .. w /\ (n + 1) - 1 = n
      BY <1>1
    <3> QED
      BY <1>1, <1>3, <3>1
  <2>3. v[n] * base + digits[n + 1] \in 0 .. base * p[n] - 1
    BY <2>1, <2>2, Shifted
  <2> QED
    BY <1>2, <2>2, <2>3
<1>6. \A n \in Nat : n \in S
  <2> HIDE DEF S
  <2> QED
    BY <1>4, <1>5, Induction
<1>7. \A n \in 0 .. w : v[n] \in 0 .. p[n] - 1
  BY <1>1, <1>6
<1> QED
  BY <1>3, <1>7 DEF w, p

LEMMA NumberType ==
  ASSUME NEW base \in Nat \ {0}, NEW digits \in Seq(0 .. base - 1)
  PROVE  Number(base, digits) \in 0 .. Power(base)[Len(digits)] - 1
<1>1. Len(digits) \in 0 .. Len(digits)
  OBVIOUS
<1> QED
  BY <1>1, NumberFacts

LEMMA DigitsType ==
  ASSUME NEW base \in Nat \ {0}, NEW value \in Nat, NEW width \in Nat
  PROVE  /\ Digits(base, value, width) \in Seq(0 .. base - 1)
         /\ Len(Digits(base, value, width)) = width
         /\ \A i \in 1 .. width : Digits(base, value, width)[i] \in 0 .. base - 1
<1>1. ASSUME NEW i \in 1 .. width
      PROVE  (value \div Power(base)[width - i]) % base \in 0 .. base - 1
  <2>1. Power(base)[width - i] \in Nat \ {0}
    BY PowerFacts
  <2>2. value \div Power(base)[width - i] \in Nat
    BY <2>1, Division
  <2> QED
    BY <2>2, Division
<1>2. Digits(base, value, width) \in [1 .. width -> 0 .. base - 1]
  BY <1>1 DEF Digits
<1> QED
  BY <1>2

\* Writing and reading gives the number back.
LEMMA NumberOfDigits ==
  ASSUME NEW base \in Nat \ {0}, NEW width \in Nat,
         NEW value \in 0 .. Power(base)[width] - 1
  PROVE  Number(base, Digits(base, value, width)) = value
<1> DEFINE d == Digits(base, value, width)
           p == Power(base)
<1>1. /\ p[0] = 1
      /\ \A n \in Nat : p[n + 1] = base * p[n]
      /\ \A n \in Nat : p[n] \in Nat \ {0}
  BY PowerFacts
<1>2. d \in Seq(0 .. base - 1) /\ Len(d) = width
  <2>1. value \in Nat
    OBVIOUS
  <2> QED
    BY <2>1, DigitsType
<1>3. \A i \in 1 .. width : d[i] = (value \div p[width - i]) % base
  BY DEF Digits
<1>4. PICK v : /\ v[0] = 0
               /\ \A n \in 1 .. width : v[n] = v[n - 1] * base + d[n]
               /\ Number(base, d) = v[width]
  BY <1>2, NumberFacts
<1>5. value \in 0 .. p[width] - 1
  OBVIOUS
<1> HIDE DEF p, d
<1> DEFINE S == {n \in Nat : n <= width => v[n] = value \div p[width - n]}
<1>6. 0 \in S
  <2>1. p[width] \in Nat \ {0} /\ value = 0 * p[width] + value
    BY <1>1, <1>5
  <2>2. value \div p[width] = 0
    BY <1>5, <2>1, DivisionIsUnique
  <2> QED
    BY <1>4, <2>2
<1>7. ASSUME NEW n \in Nat, n \in S
      PROVE  n + 1 \in S
  <2> SUFFICES ASSUME n + 1 <= width PROVE v[n + 1] = value \div p[width - (n + 1)]
    OBVIOUS
  <2> DEFINE k == width - (n + 1)
             m == p[k]
             q == value \div m
             r == value % m
             h == q \div base
             c == q % base
  <2>1. k \in Nat /\ width - n = k + 1 /\ n + 1 \in 1 .. width /\ (n + 1) - 1 = n
    OBVIOUS
  <2>2. m \in Nat \ {0} /\ p[width - n] = base * m
    BY <1>1, <2>1
  <2>3. v[n] = value \div (base * m) /\ v[n + 1] = v[n] * base + c
    BY <1>3, <1>4, <1>7, <2>1, <2>2
  <2>4. value \in Nat
    BY <1>1, <1>5
  <2> HIDE DEF m, k
  <2>5. q \in Nat /\ r \in 0 .. m - 1 /\ value = q * m + r
    BY <2>2, <2>4, Division
  <2> HIDE DEF q, r
  <2>6. h \in Nat /\ c \in 0 .. base - 1 /\ q = h * base + c
    BY <2>5, Division
  <2> HIDE DEF h, c
  <2>7. value = h * (base * m) + (c * m + r)
    <3>1. q * m = (h * base) * m + c * m
      BY <2>2, <2>6
    <3>2. (h * base) * m = h * (base * m)
      BY <2>2, <2>6, Associative
    <3>3. h * (base * m) \in Nat /\ c * m \in Nat
      BY <2>2, <2>6
    <3> QED
      BY <2>5, <3>1, <3>2, <3>3
  <2>8. c * m + r \in 0 .. base * m - 1
    <3>1. c * m <= (base - 1) * m
      BY <2>2, <2>6, ProductGrows
    <3>2. (base - 1) * m = base * m - m
      BY <2>2
    <3>3. c * m \in Nat /\ base * m \in Nat
      BY <2>2, <2>6
    <3> QED
      BY <2>2, <2>5, <3>1, <3>2, <3>3
  <2>9. value \div (base * m) = h
    <3>1. base * m \in Nat \ {0}
      BY <2>2
    <3> QED
      BY <2>4, <2>6, <2>7, <2>8, <3>1, DivisionIsUnique
  <2>10. v[n + 1] = q
    BY <2>3, <2>6, <2>9
  <2> QED
    BY <2>10 DEF q, m, k
<1>8. \A n \in Nat : n \in S
  <2> HIDE DEF S
  <2> QED
    BY <1>6, <1>7, Induction
<1>9. v[width] = value \div p[0]
  BY <1>8
<1>10. value \div 1 = value
  <2>1. value \in Nat /\ value = value * 1 + 0
    BY <1>1, <1>5
  <2> QED
    BY <2>1, DivisionIsUnique
<1> QED
  BY <1>1, <1>4, <1>9, <1>10 DEF d

\* Reading and writing gives the digits back.
LEMMA DigitsOfNumber ==
  ASSUME NEW base \in Nat \ {0}, NEW digits \in Seq(0 .. base - 1), NEW i \in 1 .. Len(digits)
  PROVE  (Number(base, digits) \div Power(base)[Len(digits) - i]) % base = digits[i]
<1> DEFINE w == Len(digits)
           p == Power(base)
<1>1. w \in Nat /\ \A n \in 1 .. w : digits[n] \in 0 .. base - 1
  OBVIOUS
<1>2. /\ p[0] = 1
      /\ \A n \in Nat : p[n + 1] = base * p[n]
      /\ \A n \in Nat : p[n] \in Nat \ {0}
  BY PowerFacts
<1>3. PICK v : /\ \A n \in 1 .. w : v[n] = v[n - 1] * base + digits[n]
               /\ \A n \in 0 .. w : v[n] \in 0 .. p[n] - 1
               /\ Number(base, digits) = v[w]
  BY NumberFacts
<1>4. \A n \in 0 .. w : v[n] \in Nat
  BY <1>1, <1>2, <1>3
<1> HIDE DEF w, p
<1>5. i \in Nat /\ i <= w /\ i - 1 \in 0 .. w /\ i \in 0 .. w /\ i \in 1 .. w /\ w - i \in Nat
  BY <1>1 DEF w
<1> DEFINE S == {k \in Nat : i + k <= w =>
                   \E r \in 0 .. p[k] - 1 : v[i + k] = v[i] * p[k] + r}
<1>6. 0 \in S
  <2>1. 0 \in 0 .. p[0] - 1
    BY <1>2
  <2>2. v[i + 0] = v[i] * p[0] + 0
    <3>1. i + 0 = i /\ v[i] \in Nat
      BY <1>4, <1>5
    <3>2. v[i] = v[i] * 1 + 0
      BY <3>1
    <3> QED
      BY <1>2, <3>1, <3>2
  <2> QED
    BY <2>1, <2>2
<1>7. ASSUME NEW k \in Nat, k \in S
      PROVE  k + 1 \in S
  <2> SUFFICES ASSUME i + (k + 1) <= w
               PROVE  \E r \in 0 .. p[k + 1] - 1 : v[i + (k + 1)] = v[i] * p[k + 1] + r
    OBVIOUS
  <2> DEFINE x == v[i]
             y == v[i + k]
             z == v[i + (k + 1)]
             m == p[k]
             c == digits[i + (k + 1)]
  <2>1. PICK r \in 0 .. m - 1 : y = x * m + r
    BY <1>1, <1>5, <1>7
  <2>2. x \in Nat /\ m \in Nat \ {0} /\ p[k + 1] = base * m
    BY <1>2, <1>4, <1>5
  <2>3. z = y * base + c /\ c \in 0 .. base - 1
    <3>1. i + (k + 1) \in 1 .. w /\ (i + (k + 1)) - 1 = i + k
      BY <1>1, <1>5
    <3> QED
      BY <1>1, <1>3, <3>1
  <2> HIDE DEF x, y, z, m, c
  <2>4. r * base + c \in 0 .. base * m - 1
    BY <2>1, <2>2, <2>3, Shifted
  <2>5. z = x * (base * m) + (r * base + c)
    <3>1. (x * m + r) * base = (x * m) * base + r * base
      BY <2>1, <2>2
    <3>2. (x * m) * base = x * (base * m)
      BY <2>2
    <3>3. (x * m) * base \in Int /\ r * base \in Int /\ c \in Int
      BY <2>1, <2>2, <2>3
    <3> QED
      BY <2>1, <2>3, <3>1, <3>2, <3>3
  <2> QED
    BY <2>2, <2>4, <2>5 DEF x, z
<1>8. \A k \in Nat : k \in S
  <2> HIDE DEF S
  <2> QED
    BY <1>6, <1>7, Induction
<1>9. PICK r \in 0 .. p[w - i] - 1 : v[w] = v[i] * p[w - i] + r
  <2>1. w - i \in S /\ i + (w - i) = w
    BY <1>1, <1>5, <1>8
  <2> QED
    BY <1>1, <2>1
<1>10. v[w] \div p[w - i] = v[i]
  <2>1. w \in 0 .. w
    BY <1>1
  <2>2. v[w] \in Nat /\ v[i] \in Int
    BY <1>4, <1>5, <2>1
  <2>3. p[w - i] \in Nat \ {0}
    BY <1>2, <1>5
  <2> QED
    BY <1>9, <2>2, <2>3, DivisionIsUnique
<1>11. v[i] % base = digits[i]
  <2>1. v[i] = v[i - 1] * base + digits[i] /\ digits[i] \in 0 .. base - 1
    BY <1>1, <1>3, <1>5
  <2>2. v[i] \in Nat /\ v[i - 1] \in Int
    BY <1>4, <1>5
  <2> QED
    BY <2>1, <2>2, DivisionIsUnique
<1> QED
  BY <1>3, <1>10, <1>11 DEF w, p

LEMMA BaseFacts ==
  /\ ByteBits \in Nat /\ ByteBits >= 3
  /\ Base \in Nat \ {0} /\ Base >= 8
  /\ Power(Base)[1] = Base
  /\ Power(Base)[2] \in Nat /\ Power(Base)[2] >= 64
<1>1. ByteBits \in Nat /\ ByteBits >= 3
  BY ProtocolAssumption
<1> DEFINE p == Power(2)
           S == {n \in Nat : p[n + 3] >= 8}
<1>2. /\ p[0] = 1
      /\ \A n \in Nat : p[n + 1] = 2 * p[n]
      /\ \A n \in Nat : p[n] \in Nat \ {0}
  BY PowerFacts
<1> HIDE DEF p
<1>3. p[0 + 3] = 8
  <2>1. p[0 + 1] = 2 * p[0] /\ p[1 + 1] = 2 * p[1] /\ p[2 + 1] = 2 * p[2]
    BY <1>2
  <2> QED
    BY <1>2, <2>1
<1>4. 0 \in S
  BY <1>3
<1>5. ASSUME NEW n \in Nat, n \in S
      PROVE  n + 1 \in S
  <2>1. p[(n + 3) + 1] = 2 * p[n + 3] /\ p[n + 3] \in Nat
    BY <1>2
  <2>2. (n + 3) + 1 = (n + 1) + 3
    OBVIOUS
  <2> QED
    BY <1>5, <2>1, <2>2
<1>6. \A n \in Nat : n \in S
  <2> HIDE DEF S
  <2> QED
    BY <1>4, <1>5, Induction
<1>7. Base \in Nat \ {0} /\ Base >= 8
  <2>1. ByteBits - 3 \in S /\ (ByteBits - 3) + 3 = ByteBits
    BY <1>1, <1>6
  <2>2. p[ByteBits] \in Nat /\ p[ByteBits] >= 8
    BY <1>1, <1>2, <2>1
  <2> QED
    BY <2>2 DEF Base, p
<1>8. Power(Base)[0] = 1 /\ Power(Base)[0 + 1] = Base * Power(Base)[0]
      /\ Power(Base)[1 + 1] = Base * Power(Base)[1]
  BY <1>7, PowerFacts
<1>9. Power(Base)[1] = Base /\ Power(Base)[2] = Base * Base
  BY <1>7, <1>8
<1>10. Base * Base \in Nat /\ 8 * Base <= Base * Base
  BY <1>7, ProductGrows
<1> QED
  BY <1>1, <1>7, <1>9, <1>10

-----------------------------------------------------------------------------
(* Layouts. *)

\* No two fields overlap, and none reaches past the end.
WellLaid(layout, size) ==
  /\ \A f \in DOMAIN layout :
       /\ layout[f][1] \in Nat
       /\ layout[f][2] \in Nat
       /\ layout[f][1] + layout[f][2] <= size
  /\ \A f, g \in DOMAIN layout :
       \/ f = g
       \/ layout[f][1] + layout[f][2] <= layout[g][1]
       \/ layout[g][1] + layout[g][2] <= layout[f][1]

\* Every byte belongs to a field.
Tiles(layout, size) ==
  \A i \in 1 .. size : \E f \in DOMAIN layout : i - layout[f][1] \in 1 .. layout[f][2]

Fits(layout, record) == \A f \in DOMAIN layout : record[f] \in Unsigned(layout[f][2])

LEMMA Part ==
  ASSUME NEW bytes \in Seq(Byte), NEW o \in Nat, NEW w \in Nat, o + w <= Len(bytes)
  PROVE  /\ SubSeq(bytes, o + 1, o + w) \in Seq(Byte)
         /\ Len(SubSeq(bytes, o + 1, o + w)) = w
         /\ \A i \in 1 .. w : SubSeq(bytes, o + 1, o + w)[i] = bytes[o + i]
OBVIOUS

LEMMA UnsignedIsNat ==
  ASSUME NEW width \in Nat
  PROVE  Unsigned(width) \subseteq Nat
<1>1. Power(Base)[width] \in Nat
  BY BaseFacts, PowerFacts
<1> QED
  BY <1>1 DEF Unsigned

LEMMA EncodedType ==
  ASSUME NEW width \in Nat, NEW value \in Unsigned(width)
  PROVE  /\ Encoded(value, width) \in Seq(Byte)
         /\ Len(Encoded(value, width)) = width
         /\ \A i \in 1 .. width : Encoded(value, width)[i] \in Byte
BY BaseFacts, UnsignedIsNat, DigitsType DEF Encoded, Byte

LEMMA DecodedEncoded ==
  ASSUME NEW width \in Nat, NEW value \in Unsigned(width)
  PROVE  Decoded(Encoded(value, width)) = value
BY BaseFacts, NumberOfDigits DEF Encoded, Decoded, Unsigned

LEMMA DecodedType ==
  ASSUME NEW bytes \in Seq(Byte)
  PROVE  Decoded(bytes) \in Unsigned(Len(bytes))
BY BaseFacts, NumberType DEF Decoded, Unsigned, Byte

LEMMA EncodedDecoded ==
  ASSUME NEW bytes \in Seq(Byte), NEW i \in 1 .. Len(bytes)
  PROVE  Encoded(Decoded(bytes), Len(bytes))[i] = bytes[i]
BY BaseFacts, DigitsOfNumber DEF Encoded, Decoded, Digits, Byte

\* The byte at a place that belongs to a field.
LEMMA WrittenAt ==
  ASSUME NEW layout, NEW record, NEW size \in Nat, WellLaid(layout, size),
         NEW f \in DOMAIN layout, NEW i \in 1 .. layout[f][2]
  PROVE  Written(layout, record, size)[layout[f][1] + i] = Encoded(record[f], layout[f][2])[i]
<1> DEFINE j == layout[f][1] + i
           fields == {g \in DOMAIN layout : j - layout[g][1] \in 1 .. layout[g][2]}
<1>1. j \in 1 .. size /\ j - layout[f][1] = i
  BY DEF WellLaid
<1>2. f \in fields
  BY <1>1
<1>3. ASSUME NEW g \in fields
      PROVE  g = f
  BY DEF WellLaid
<1>4. (CHOOSE g \in fields : TRUE) = f
  BY <1>2, <1>3
<1>5. Written(layout, record, size)[j] =
        IF fields = {} THEN 0
        ELSE LET g == CHOOSE h \in fields : TRUE
             IN Encoded(record[g], layout[g][2])[j - layout[g][1]]
  BY <1>1 DEF Written
<1> HIDE DEF fields
<1> QED
  BY <1>1, <1>2, <1>4, <1>5

LEMMA WrittenType ==
  ASSUME NEW layout, NEW record, NEW size \in Nat,
         WellLaid(layout, size), Fits(layout, record)
  PROVE  /\ Written(layout, record, size) \in Seq(Byte)
         /\ Len(Written(layout, record, size)) = size
<1>1. ASSUME NEW i \in 1 .. size
      PROVE  Written(layout, record, size)[i] \in Byte
  <2> DEFINE fields == {g \in DOMAIN layout : i - layout[g][1] \in 1 .. layout[g][2]}
  <2>1. CASE fields = {}
    <3>1. 0 \in Byte
      BY BaseFacts DEF Byte
    <3> QED
      BY <2>1, <3>1 DEF Written
  <2>2. CASE fields # {}
    <3>1. PICK f \in DOMAIN layout : i - layout[f][1] \in 1 .. layout[f][2]
      BY <2>2
    <3>2. layout[f][1] \in Nat /\ layout[f][2] \in Nat /\ record[f] \in Unsigned(layout[f][2])
      BY DEF WellLaid, Fits
    <3>3. layout[f][1] + (i - layout[f][1]) = i
      BY <3>2
    <3>4. Written(layout, record, size)[i] = Encoded(record[f], layout[f][2])[i - layout[f][1]]
      BY <3>1, <3>3, WrittenAt
    <3> QED
      BY <3>1, <3>2, <3>4, EncodedType
  <2> QED
    BY <2>1, <2>2
<1>2. Written(layout, record, size) = [i \in 1 .. size |-> Written(layout, record, size)[i]]
  BY DEF Written
<1>3. Written(layout, record, size) \in [1 .. size -> Byte]
  BY <1>1, <1>2
<1> QED
  BY <1>3

\* What the fields were written with is read, whatever follows.
LEMMA ReadWritten ==
  ASSUME NEW layout, NEW record, NEW size \in Nat, NEW rest \in Seq(Byte),
         WellLaid(layout, size), Fits(layout, record)
  PROVE  Read(layout, Written(layout, record, size) \o rest) =
           [f \in DOMAIN layout |-> record[f]]
<1> DEFINE bytes == Written(layout, record, size) \o rest
<1>1. Written(layout, record, size) \in Seq(Byte) /\ Len(Written(layout, record, size)) = size
  BY WrittenType
<1>2. bytes \in Seq(Byte) /\ Len(bytes) >= size
  BY <1>1
<1>3. \A i \in 1 .. size : bytes[i] = Written(layout, record, size)[i]
  BY <1>1
<1> HIDE DEF bytes
<1>4. ASSUME NEW f \in DOMAIN layout
      PROVE  Decoded(SubSeq(bytes, layout[f][1] + 1, layout[f][1] + layout[f][2])) = record[f]
  <2> DEFINE o == layout[f][1]
             w == layout[f][2]
             part == SubSeq(bytes, o + 1, o + w)
             code == Encoded(record[f], w)
  <2>1. o \in Nat /\ w \in Nat /\ o + w <= size /\ record[f] \in Unsigned(w)
    BY DEF WellLaid, Fits
  <2>2. \A i \in 1 .. w : Written(layout, record, size)[o + i] = code[i]
    BY WrittenAt
  <2>3. code \in Seq(Byte) /\ Len(code) = w
    BY <2>1, EncodedType
  <2>4. Decoded(code) = record[f]
    BY <2>1, DecodedEncoded
  <2> HIDE DEF o, w, code
  <2>5. part \in Seq(Byte) /\ Len(part) = w /\ \A i \in 1 .. w : part[i] = bytes[o + i]
    <3>1. o + w <= Len(bytes)
      BY <1>2, <2>1
    <3> QED
      BY <1>2, <2>1, <3>1, Part
  <2>6. \A i \in 1 .. w : part[i] = code[i]
    BY <1>3, <2>1, <2>2, <2>5
  <2> HIDE DEF part
  <2>7. part = code
    BY <2>3, <2>5, <2>6
  <2> QED
    BY <2>4, <2>7 DEF part, o, w
<1> QED
  BY <1>4 DEF Read, bytes

\* Fields that tile the bytes determine them.
LEMMA WrittenRead ==
  ASSUME NEW layout, NEW size \in Nat, NEW bytes \in Seq(Byte), Len(bytes) >= size,
         WellLaid(layout, size), Tiles(layout, size)
  PROVE  /\ Fits(layout, Read(layout, bytes))
         /\ \A i \in 1 .. size : Written(layout, Read(layout, bytes), size)[i] = bytes[i]
<1>1. ASSUME NEW f \in DOMAIN layout
      PROVE  /\ Read(layout, bytes)[f] \in Unsigned(layout[f][2])
             /\ \A i \in 1 .. layout[f][2] :
                  Encoded(Read(layout, bytes)[f], layout[f][2])[i] = bytes[layout[f][1] + i]
  <2> DEFINE o == layout[f][1]
             w == layout[f][2]
             part == SubSeq(bytes, o + 1, o + w)
  <2>1. Read(layout, bytes)[f] = Decoded(part)
    BY DEF Read
  <2>2. o \in Nat /\ w \in Nat /\ o + w <= size
    BY DEF WellLaid
  <2> HIDE DEF o, w
  <2>3. part \in Seq(Byte) /\ Len(part) = w /\ \A i \in 1 .. w : part[i] = bytes[o + i]
    <3>1. o + w <= Len(bytes)
      BY <2>2
    <3> QED
      BY <2>2, <3>1, Part
  <2> HIDE DEF part
  <2>4. Decoded(part) \in Unsigned(w)
    BY <2>3, DecodedType
  <2>5. \A i \in 1 .. w : Encoded(Decoded(part), w)[i] = part[i]
    BY <2>3, EncodedDecoded
  <2> QED
    BY <2>1, <2>3, <2>4, <2>5 DEF o, w
<1>2. ASSUME NEW i \in 1 .. size
      PROVE  Written(layout, Read(layout, bytes), size)[i] = bytes[i]
  <2>1. PICK f \in DOMAIN layout : i - layout[f][1] \in 1 .. layout[f][2]
    BY DEF Tiles
  <2>2. layout[f][1] \in Nat /\ layout[f][1] + (i - layout[f][1]) = i
    BY DEF WellLaid
  <2> QED
    BY <1>1, <2>1, <2>2, WrittenAt
<1> QED
  BY <1>1, <1>2 DEF Fits

-----------------------------------------------------------------------------
(* The layouts of the code. *)

LEMMA HeaderLayout ==
  /\ HeaderRead = HeaderWritten
  /\ DOMAIN HeaderWritten = {"magic", "version", "type", "flags", "session_id", "number",
                             "payload_length", "header_length", "crc32c"}
  /\ WellLaid(HeaderWritten, HeaderSize)
  /\ Tiles(HeaderWritten, HeaderSize)
<1>1. HeaderRead = HeaderWritten
  BY DEF HeaderRead, HeaderWritten
<1>2. DOMAIN HeaderWritten = {"magic", "version", "type", "flags", "session_id", "number",
                              "payload_length", "header_length", "crc32c"}
  BY DEF HeaderWritten
<1>3. WellLaid(HeaderWritten, HeaderSize)
  BY <1>2 DEF WellLaid, HeaderWritten, HeaderSize
<1>4. Tiles(HeaderWritten, HeaderSize)
  BY <1>2 DEF Tiles, HeaderWritten, HeaderSize
<1> QED
  BY <1>1, <1>2, <1>3, <1>4

LEMMA StartLayout ==
  /\ StartRead = StartWritten
  /\ DOMAIN StartWritten = {"file_size", "chunk_size", "total_chunks", "window_chunks",
                            "ack_bitmap_bits", "ack_interval_ms"}
  /\ WellLaid(StartWritten, 24)
<1>1. StartRead = StartWritten
  BY DEF StartRead, StartWritten
<1>2. DOMAIN StartWritten = {"file_size", "chunk_size", "total_chunks", "window_chunks",
                             "ack_bitmap_bits", "ack_interval_ms"}
  BY DEF StartWritten
<1>3. WellLaid(StartWritten, 24)
  BY <1>2 DEF WellLaid, StartWritten
<1> QED
  BY <1>1, <1>2, <1>3

LEMMA StartAckLayout ==
  /\ StartAckRead = StartAckWritten
  /\ DOMAIN StartAckWritten = {"status", "accepted_window_chunks", "accepted_bitmap_bits",
                               "accepted_ack_interval_ms"}
  /\ WellLaid(StartAckWritten, 12)
<1>1. StartAckRead = StartAckWritten
  BY DEF StartAckRead, StartAckWritten
<1>2. DOMAIN StartAckWritten = {"status", "accepted_window_chunks", "accepted_bitmap_bits",
                                "accepted_ack_interval_ms"}
  BY DEF StartAckWritten
<1>3. WellLaid(StartAckWritten, 12)
  BY <1>2 DEF WellLaid, StartAckWritten
<1> QED
  BY <1>1, <1>2, <1>3

LEMMA AckLayout ==
  /\ AckRead = AckWritten
  /\ DOMAIN AckWritten = {"cumulative_ack", "largest_received_plus_one", "bitmap_base",
                          "bitmap_bits"}
  /\ WellLaid(AckWritten, 16)
<1>1. AckRead = AckWritten
  BY DEF AckRead, AckWritten
<1>2. DOMAIN AckWritten = {"cumulative_ack", "largest_received_plus_one", "bitmap_base",
                           "bitmap_bits"}
  BY DEF AckWritten
<1>3. WellLaid(AckWritten, 16)
  BY <1>2 DEF WellLaid, AckWritten
<1> QED
  BY <1>1, <1>2, <1>3

LEMMA CompleteAckLayout ==
  /\ CompleteAckRead = CompleteAckWritten
  /\ DOMAIN CompleteAckWritten = {"status", "received_chunks", "received_bytes",
                                  "receiver_transfer_time_us"}
  /\ WellLaid(CompleteAckWritten, 24)
<1>1. CompleteAckRead = CompleteAckWritten
  BY DEF CompleteAckRead, CompleteAckWritten
<1>2. DOMAIN CompleteAckWritten = {"status", "received_chunks", "received_bytes",
                                   "receiver_transfer_time_us"}
  BY DEF CompleteAckWritten
<1>3. WellLaid(CompleteAckWritten, 24)
  BY <1>2 DEF WellLaid, CompleteAckWritten
<1> QED
  BY <1>1, <1>2, <1>3

-----------------------------------------------------------------------------
(* The header. *)

LEMMA SmallLengths ==
  0 .. 63 \subseteq Unsigned(2) /\ 0 .. 7 \subseteq Unsigned(1)
BY BaseFacts DEF Unsigned

\* The header as serialize_packet_header completes it.
Completed(header, size) == [header EXCEPT !.payload_length = size, !.header_length = HeaderSize]

LEMMA HeaderRoundTrip ==
  ASSUME NEW header \in PacketHeader, NEW size \in Unsigned(2), NEW rest \in Seq(Byte)
  PROVE  /\ serialize_packet_header(header, size) \in Seq(Byte)
         /\ Len(serialize_packet_header(header, size)) = HeaderSize
         /\ Read(HeaderRead, serialize_packet_header(header, size) \o rest) =
              Completed(header, size)
<1> DEFINE full == Completed(header, size)
<1>1. full \in [magic : {Magic}, version : {Version}, type : 1 .. 6, flags : Unsigned(2),
                session_id : Unsigned(4), number : Unsigned(4), payload_length : Unsigned(2),
                header_length : {HeaderSize}, crc32c : Unsigned(4)]
  BY DEF PacketHeader, Completed
<1>2. Magic \in Unsigned(4) /\ Version \in Unsigned(1) /\ HeaderSize \in Unsigned(2)
      /\ 1 .. 6 \subseteq Unsigned(1)
  BY ProtocolAssumption, SmallLengths DEF Version, HeaderSize
<1> HIDE DEF full
<1>3. Fits(HeaderWritten, full)
  BY <1>1, <1>2, HeaderLayout DEF Fits, HeaderWritten
<1>4. HeaderSize \in Nat
  BY DEF HeaderSize
<1>5. serialize_packet_header(header, size) = Written(HeaderWritten, full, HeaderSize)
  BY DEF serialize_packet_header, full, Completed
<1>6. /\ serialize_packet_header(header, size) \in Seq(Byte)
      /\ Len(serialize_packet_header(header, size)) = HeaderSize
  BY <1>3, <1>4, <1>5, HeaderLayout, WrittenType
<1>7. Read(HeaderWritten, serialize_packet_header(header, size) \o rest) =
        [f \in DOMAIN HeaderWritten |-> full[f]]
  BY <1>3, <1>4, <1>5, HeaderLayout, ReadWritten
<1>8. [f \in DOMAIN HeaderWritten |-> full[f]] = full
  BY <1>1, HeaderLayout
<1> QED
  BY <1>6, <1>7, <1>8, HeaderLayout DEF full

-----------------------------------------------------------------------------
(* The bitmap. *)

\* bitmap_bytes rounds up: less than one byte is spare.
LEMMA BitmapRoundsUp ==
  ASSUME NEW bits \in Nat
  PROVE  BitmapBytes(bits) \in Nat /\ BitmapBytes(bits) * ByteBits - bits \in 0 .. ByteBits - 1
<1> DEFINE i == bits + ByteBits - 1
           q == i \div ByteBits
           r == i % ByteBits
<1>1. ByteBits \in Nat \ {0}
  BY ProtocolAssumption
<1>2. i \in Nat /\ q \in Nat /\ r \in 0 .. ByteBits - 1 /\ i = q * ByteBits + r
  BY <1>1
<1>3. q * ByteBits \in Nat
  BY <1>1, <1>2
<1>4. q * ByteBits - bits \in 0 .. ByteBits - 1
  BY <1>1, <1>2, <1>3
<1> QED
  BY <1>2, <1>4 DEF BitmapBytes

LEMMA PackedType ==
  ASSUME NEW bits, NEW size \in Nat
  PROVE  Packed(bits, size) \in Seq(Byte) /\ Len(Packed(bits, size)) = size
<1>1. ASSUME NEW i \in 1 .. size
      PROVE  Number(2, [k \in 1 .. ByteBits |->
                          IF (i - 1) * ByteBits + (ByteBits - k) \in bits THEN 1 ELSE 0]) \in Byte
  <2> DEFINE digits == [k \in 1 .. ByteBits |->
                          IF (i - 1) * ByteBits + (ByteBits - k) \in bits THEN 1 ELSE 0]
  <2>1. digits \in Seq(0 .. 2 - 1) /\ Len(digits) = ByteBits
    BY BaseFacts
  <2> HIDE DEF digits
  <2>2. Number(2, digits) \in 0 .. Power(2)[ByteBits] - 1
    BY <2>1, NumberType
  <2> QED
    BY <2>2 DEF digits, Byte, Base
<1>2. Packed(bits, size) \in [1 .. size -> Byte]
  BY <1>1 DEF Packed
<1> QED
  BY <1>2

\* The bit that process_ack tests is the one make_ack_snapshot sets.
LEMMA BitOfPacked ==
  ASSUME NEW bits, NEW size \in Nat, NEW b \in Nat, b < size * ByteBits
  PROVE  HasFlag(Packed(bits, size)[b \div ByteBits + 1], Power(2)[b % ByteBits]) <=> b \in bits
<1> DEFINE q == b \div ByteBits
           c == b % ByteBits
           k == ByteBits - c
           digits == [n \in 1 .. ByteBits |->
                        IF ((q + 1) - 1) * ByteBits + (ByteBits - n) \in bits THEN 1 ELSE 0]
<1>1. ByteBits \in Nat \ {0}
  BY BaseFacts
<1>2. q \in Nat /\ c \in 0 .. ByteBits - 1 /\ b = q * ByteBits + c
  BY <1>1, Division
<1>3. digits \in Seq(0 .. 2 - 1) /\ Len(digits) = ByteBits
  BY <1>1
<1> HIDE DEF q, c
<1>4. k \in 1 .. ByteBits /\ ByteBits - k = c
  BY <1>1, <1>2
<1>5. digits[k] = IF b \in bits THEN 1 ELSE 0
  <2>1. ((q + 1) - 1) * ByteBits + (ByteBits - k) = b
    BY <1>1, <1>2, <1>4
  <2> HIDE DEF k
  <2> QED
    BY <1>4, <2>1
<1>6. q < size
  <2> SUFFICES ASSUME size <= q PROVE FALSE
    BY <1>2
  <2>1. size * ByteBits <= q * ByteBits
    BY <1>1, <1>2, ProductGrows
  <2>2. size * ByteBits \in Nat /\ q * ByteBits \in Nat
    BY <1>1, <1>2
  <2> QED
    BY <1>2, <2>1, <2>2
<1>7. Packed(bits, size)[q + 1] = Number(2, digits)
  <2>1. q + 1 \in 1 .. size
    BY <1>2, <1>6
  <2> QED
    BY <2>1 DEF Packed
<1> HIDE DEF digits, k
<1>8. (Number(2, digits) \div Power(2)[c]) % 2 = digits[k]
  <2>1. 2 \in Nat \ {0} /\ k \in 1 .. Len(digits) /\ Len(digits) - k = c
    BY <1>3, <1>4
  <2> QED
    BY <1>3, <2>1, DigitsOfNumber
<1>9. HasFlag(Packed(bits, size)[q + 1], Power(2)[c]) <=> digits[k] = 1
  BY <1>7, <1>8 DEF HasFlag
<1> QED
  BY <1>5, <1>9 DEF q, c

LEMMA OneBitsOfPacked ==
  ASSUME NEW n \in Nat, NEW bits \in SUBSET Nat, \A bit \in bits : bit < n
  PROVE  OneBits(n, Packed(bits, BitmapBytes(n))) = bits
<1> DEFINE size == BitmapBytes(n)
           bitmap == Packed(bits, size)
<1>1. size \in Nat /\ size * ByteBits - n \in 0 .. ByteBits - 1
  BY BitmapRoundsUp
<1>2. Len(bitmap) = size
  BY <1>1, PackedType
<1> HIDE DEF size
<1>3. size * ByteBits \in Nat /\ n <= size * ByteBits
  BY <1>1, BaseFacts
<1>4. Min({n, Len(bitmap) * ByteBits}) = n
  BY <1>2, <1>3 DEF Min
<1>5. ASSUME NEW b \in 0 .. n - 1
      PROVE  HasFlag(bitmap[b \div ByteBits + 1], Power(2)[b % ByteBits]) <=> b \in bits
  <2>1. b \in Nat /\ b < size * ByteBits
    BY <1>3
  <2> QED
    BY <1>1, <2>1, BitOfPacked
<1>6. bits \subseteq 0 .. n - 1
  OBVIOUS
<1> HIDE DEF bitmap
<1>7. OneBits(n, bitmap) = bits
  BY <1>4, <1>5, <1>6 DEF OneBits
<1> QED
  BY <1>7 DEF bitmap, size

-----------------------------------------------------------------------------
(* The payloads. *)

LEMMA Joined ==
  ASSUME NEW front \in Seq(Byte), NEW back \in Seq(Byte)
  PROVE  /\ front \o back \in Seq(Byte)
         /\ Len(front \o back) = Len(front) + Len(back)
         /\ SubSeq(front \o back, Len(front) + 1, Len(front) + Len(back)) = back
<1> DEFINE all == front \o back
           part == SubSeq(all, Len(front) + 1, Len(front) + Len(back))
<1>1. /\ all \in Seq(Byte)
      /\ Len(all) = Len(front) + Len(back)
      /\ \A i \in 1 .. Len(back) : all[Len(front) + i] = back[i]
  OBVIOUS
<1>2. Len(front) \in Nat /\ Len(back) \in Nat
  OBVIOUS
<1> HIDE DEF all
<1>3. /\ part \in Seq(Byte)
      /\ Len(part) = Len(back)
      /\ \A i \in 1 .. Len(back) : part[i] = all[Len(front) + i]
  BY <1>1, <1>2, Part
<1> HIDE DEF part
<1>4. \A i \in 1 .. Len(back) : part[i] = back[i]
  BY <1>1, <1>3
<1>5. part = back
  BY <1>3, <1>4
<1> QED
  BY <1>1, <1>5 DEF all, part

\* A payload that consists of fields only.
LEMMA FieldsRoundTrip ==
  ASSUME NEW layout, NEW record, NEW size \in Nat, WellLaid(layout, size), Fits(layout, record)
  PROVE  /\ Written(layout, record, size) \in Seq(Byte)
         /\ Len(Written(layout, record, size)) = size
         /\ Read(layout, Written(layout, record, size)) = [f \in DOMAIN layout |-> record[f]]
<1> DEFINE rest == << >>
<1>1. Written(layout, record, size) \in Seq(Byte) /\ Len(Written(layout, record, size)) = size
  BY WrittenType
<1>2. rest \in Seq(Byte)
  OBVIOUS
<1>3. Written(layout, record, size) \o rest = Written(layout, record, size)
  BY <1>1
<1> HIDE DEF rest
<1>4. Read(layout, Written(layout, record, size) \o rest) = [f \in DOMAIN layout |-> record[f]]
  BY <1>2, ReadWritten
<1> QED
  BY <1>1, <1>3, <1>4

LEMMA Decoders ==
  ASSUME NEW bytes
  PROVE  /\ deserialize_payload(1, bytes) = Read(StartRead, bytes)
         /\ deserialize_payload(2, bytes) = Read(StartAckRead, bytes)
         /\ deserialize_payload(3, bytes) = bytes
         /\ deserialize_payload(4, bytes) =
              LET ack == Read(AckRead, bytes)
              IN [f \in DOMAIN ack \cup {"bitmap"} |->
                    IF f = "bitmap"
                    THEN OneBits(ack.bitmap_bits, SubSeq(bytes, 17, Len(bytes)))
                    ELSE ack[f]]
         /\ deserialize_payload(5, bytes) = << >>
         /\ deserialize_payload(6, bytes) = Read(CompleteAckRead, bytes)
<1>1. deserialize_payload(1, bytes) = Read(StartRead, bytes)
  BY DEF deserialize_payload
<1>2. deserialize_payload(2, bytes) = Read(StartAckRead, bytes)
  BY DEF deserialize_payload
<1>3. deserialize_payload(3, bytes) = bytes
  BY DEF deserialize_payload
<1>4. deserialize_payload(4, bytes) =
        LET ack == Read(AckRead, bytes)
        IN [f \in DOMAIN ack \cup {"bitmap"} |->
              IF f = "bitmap"
              THEN OneBits(ack.bitmap_bits, SubSeq(bytes, 17, Len(bytes)))
              ELSE ack[f]]
  BY DEF deserialize_payload
<1>5. deserialize_payload(5, bytes) = << >>
  BY DEF deserialize_payload
<1>6. deserialize_payload(6, bytes) = Read(CompleteAckRead, bytes)
  BY DEF deserialize_payload
<1> QED
  BY <1>1, <1>2, <1>3, <1>4, <1>5, <1>6

\* Decoding gives back what was encoded, and the encoding fits a datagram.
PayloadSurvives(type, payload) ==
  LET bytes == serialize_payload(type, payload)
  IN /\ bytes \in Seq(Byte)
     /\ Len(bytes) \in Unsigned(2)
     /\ AcceptsPayload(type, bytes)
     /\ deserialize_payload(type, bytes) = payload

LEMMA StartSurvives ==
  ASSUME NEW payload \in StartPayload
  PROVE  PayloadSurvives(1, payload)
<1>1. Fits(StartWritten, payload)
  BY StartLayout DEF Fits, StartWritten, StartPayload
<1>2. payload = [f \in DOMAIN StartWritten |-> payload[f]]
  BY StartLayout DEF StartPayload
<1>3. WellLaid(StartWritten, 24) /\ 24 \in Nat
  BY StartLayout
<1> DEFINE bytes == Written(StartWritten, payload, 24)
<1>4. bytes \in Seq(Byte) /\ Len(bytes) = 24
  BY <1>1, <1>3, FieldsRoundTrip
<1>5. Read(StartWritten, bytes) = [f \in DOMAIN StartWritten |-> payload[f]]
  BY <1>1, <1>3, FieldsRoundTrip
<1>6. serialize_payload(1, payload) = bytes
  BY DEF serialize_payload
<1> HIDE DEF bytes
<1>7. deserialize_payload(1, bytes) = payload
  BY <1>2, <1>5, StartLayout, Decoders
<1>8. AcceptsPayload(1, bytes)
  BY <1>4 DEF AcceptsPayload
<1>9. Len(bytes) \in Unsigned(2)
  BY <1>4, SmallLengths
<1> QED
  BY <1>4, <1>6, <1>7, <1>8, <1>9 DEF PayloadSurvives

LEMMA StartAckSurvives ==
  ASSUME NEW payload \in StartAckPayload
  PROVE  PayloadSurvives(2, payload)
<1>1. Fits(StartAckWritten, payload)
  BY StartAckLayout DEF Fits, StartAckWritten, StartAckPayload
<1>2. payload = [f \in DOMAIN StartAckWritten |-> payload[f]]
  BY StartAckLayout DEF StartAckPayload
<1>3. WellLaid(StartAckWritten, 12) /\ 12 \in Nat
  BY StartAckLayout
<1> DEFINE bytes == Written(StartAckWritten, payload, 12)
<1>4. bytes \in Seq(Byte) /\ Len(bytes) = 12
  BY <1>1, <1>3, FieldsRoundTrip
<1>5. Read(StartAckWritten, bytes) = [f \in DOMAIN StartAckWritten |-> payload[f]]
  BY <1>1, <1>3, FieldsRoundTrip
<1>6. serialize_payload(2, payload) = bytes
  BY DEF serialize_payload
<1> HIDE DEF bytes
<1>7. deserialize_payload(2, bytes) = payload
  BY <1>2, <1>5, StartAckLayout, Decoders
<1>8. AcceptsPayload(2, bytes)
  BY <1>4 DEF AcceptsPayload
<1>9. Len(bytes) \in Unsigned(2)
  BY <1>4, SmallLengths
<1> QED
  BY <1>4, <1>6, <1>7, <1>8, <1>9 DEF PayloadSurvives

LEMMA CompleteAckSurvives ==
  ASSUME NEW payload \in CompleteAckPayload
  PROVE  PayloadSurvives(6, payload)
<1>1. Fits(CompleteAckWritten, payload)
  BY CompleteAckLayout DEF Fits, CompleteAckWritten, CompleteAckPayload
<1>2. payload = [f \in DOMAIN CompleteAckWritten |-> payload[f]]
  BY CompleteAckLayout DEF CompleteAckPayload
<1>3. WellLaid(CompleteAckWritten, 24) /\ 24 \in Nat
  BY CompleteAckLayout
<1> DEFINE bytes == Written(CompleteAckWritten, payload, 24)
<1>4. bytes \in Seq(Byte) /\ Len(bytes) = 24
  BY <1>1, <1>3, FieldsRoundTrip
<1>5. Read(CompleteAckWritten, bytes) = [f \in DOMAIN CompleteAckWritten |-> payload[f]]
  BY <1>1, <1>3, FieldsRoundTrip
<1>6. serialize_payload(6, payload) = bytes
  BY DEF serialize_payload
<1> HIDE DEF bytes
<1>7. deserialize_payload(6, bytes) = payload
  BY <1>2, <1>5, CompleteAckLayout, Decoders
<1>8. AcceptsPayload(6, bytes)
  BY <1>4 DEF AcceptsPayload
<1>9. Len(bytes) \in Unsigned(2)
  BY <1>4, SmallLengths
<1> QED
  BY <1>4, <1>6, <1>7, <1>8, <1>9 DEF PayloadSurvives

\* The widest bitmap still fits a datagram, and both length fields.
LEMMA BitmapFits ==
  ASSUME NEW bits \in Unsigned(2)
  PROVE  16 + BitmapBytes(bits) \in Unsigned(2)
<1> DEFINE size == BitmapBytes(bits)
           limit == Power(Base)[2]
<1>1. limit \in Nat /\ limit >= 64 /\ ByteBits \in Nat /\ ByteBits >= 3
  BY BaseFacts
<1>2. bits \in Nat /\ bits <= limit - 1
  BY <1>1 DEF Unsigned
<1>3. size \in Nat /\ size * ByteBits - bits \in 0 .. ByteBits - 1
  BY <1>2, BitmapRoundsUp
<1> HIDE DEF size, limit
<1>4. size <= 0 \/ (size - 1) * 3 <= limit - 1
  <2> SUFFICES ASSUME size >= 1 PROVE (size - 1) * 3 <= limit - 1
    BY <1>3
  <2>1. (size - 1) * ByteBits = size * ByteBits - ByteBits
    BY <1>1, <1>3
  <2>2. 3 * (size - 1) <= ByteBits * (size - 1)
    BY <1>1, <1>3, ProductGrows
  <2>3. ByteBits * (size - 1) = (size - 1) * ByteBits /\ size * ByteBits \in Nat
    BY <1>1, <1>3
  <2> QED
    BY <1>1, <1>2, <1>3, <2>1, <2>2, <2>3
<1>5. 16 + size \in 0 .. limit - 1
  BY <1>1, <1>3, <1>4
<1> QED
  BY <1>5 DEF size, limit, Unsigned

LEMMA AckSurvives ==
  ASSUME NEW payload \in AckPayload
  PROVE  PayloadSurvives(4, payload)
<1> DEFINE n == payload.bitmap_bits
           bits == payload.bitmap
           size == BitmapBytes(n)
           fields == Written(AckWritten, payload, 16)
           bitmap == Packed(bits, size)
           bytes == fields \o bitmap
           ack == [f \in DOMAIN AckWritten |-> payload[f]]
<1>1. n \in Unsigned(2) /\ bits \in SUBSET Nat /\ \A bit \in bits : bit < n
  BY DEF AckPayload
<1>2. n \in Nat
  BY <1>1, UnsignedIsNat
<1>3. size \in Nat
  BY <1>2, BitmapRoundsUp
<1>4. bitmap \in Seq(Byte) /\ Len(bitmap) = size
  BY <1>3, PackedType
<1>5. Fits(AckWritten, payload)
  BY AckLayout DEF Fits, AckWritten, AckPayload
<1>6. fields \in Seq(Byte) /\ Len(fields) = 16
  BY <1>5, AckLayout, WrittenType
<1>7. Read(AckRead, bytes) = ack
  BY <1>4, <1>5, AckLayout, ReadWritten
<1>8. ack.bitmap_bits = n /\ DOMAIN ack = DOMAIN AckWritten
  BY AckLayout
<1>9. OneBits(n, bitmap) = bits
  BY <1>1, <1>2, OneBitsOfPacked
<1>10. 16 + size \in Unsigned(2)
  BY <1>1, BitmapFits
<1>11. payload = [f \in DOMAIN AckWritten \cup {"bitmap"} |->
                    IF f = "bitmap" THEN bits ELSE ack[f]]
  BY AckLayout DEF AckPayload
<1>12. serialize_payload(4, payload) = bytes
  BY DEF serialize_payload
<1> HIDE DEF n, bits, size, fields, bitmap, ack
<1>13. bytes \in Seq(Byte) /\ Len(bytes) = 16 + size
  BY <1>4, <1>6, Joined
<1>14. SubSeq(bytes, 17, Len(bytes)) = bitmap
  BY <1>4, <1>6, <1>13, Joined
<1> HIDE DEF bytes
<1>15. AcceptsPayload(4, bytes)
  BY <1>3, <1>7, <1>8, <1>13 DEF AcceptsPayload, size
<1>16. deserialize_payload(4, bytes) = payload
  BY <1>7, <1>8, <1>9, <1>11, <1>14, Decoders
<1> QED
  BY <1>10, <1>12, <1>13, <1>15, <1>16 DEF PayloadSurvives

LEMMA EveryPayloadSurvives ==
  ASSUME NEW type \in 1 .. 6, NEW payload \in PayloadOf(type)
  PROVE  PayloadSurvives(type, payload)
<1>1. CASE type = 1
  BY <1>1, StartSurvives DEF PayloadOf
<1>2. CASE type = 2
  BY <1>2, StartAckSurvives DEF PayloadOf
<1>3. CASE type = 3
  BY <1>3 DEF PayloadOf, DataPayload, PayloadSurvives, serialize_payload, AcceptsPayload,
              deserialize_payload
<1>4. CASE type = 4
  BY <1>4, AckSurvives DEF PayloadOf
<1>5. CASE type = 5
  <2>1. payload = << >>
    BY <1>5 DEF PayloadOf
  <2>2. 0 \in Unsigned(2)
    BY SmallLengths
  <2> QED
    BY <1>5, <2>1, <2>2 DEF PayloadSurvives, serialize_payload, AcceptsPayload,
                            deserialize_payload
<1>6. CASE type = 6
  BY <1>6, CompleteAckSurvives DEF PayloadOf
<1> QED
  BY <1>1, <1>2, <1>3, <1>4, <1>5, <1>6

-----------------------------------------------------------------------------
(* Datagrams. *)

LEMMA PacketRoundTrip ==
  ASSUME NEW header \in PacketHeader, NEW payload \in Seq(Byte), Len(payload) \in Unsigned(2)
  PROVE  LET packet == serialize_packet(header, payload)
         IN /\ packet \in Seq(Byte)
            /\ Accepts(packet)
            /\ deserialize_packet_view(packet).header = Completed(header, Len(payload))
            /\ deserialize_packet_view(packet).payload = payload
<1> DEFINE front == serialize_packet_header(header, Len(payload))
           packet == front \o payload
           full == Completed(header, Len(payload))
           n == Len(payload)
<1>1. front \in Seq(Byte) /\ Len(front) = HeaderSize
  BY HeaderRoundTrip
<1>2. Read(HeaderRead, packet) = full
  BY HeaderRoundTrip
<1>3. n \in Nat
  OBVIOUS
<1>4. /\ full.magic = Magic /\ full.version = Version /\ full.type \in 1 .. 6
      /\ full.header_length = HeaderSize /\ full.payload_length = n
      /\ ~HasFlag(full.flags, FLAG_CRC32C)
  BY DEF PacketHeader, Completed
<1> HIDE DEF front, full
<1>5. /\ packet \in Seq(Byte)
      /\ Len(packet) = HeaderSize + n
      /\ SubSeq(packet, HeaderSize + 1, HeaderSize + n) = payload
  BY <1>1, Joined
<1>6. packet = serialize_packet(header, payload)
  BY DEF serialize_packet, front
<1> HIDE DEF packet, n
<1>7. valid_packet_type(full.type)
  BY <1>4 DEF valid_packet_type
<1>8. Len(packet) >= HeaderSize
  BY <1>3, <1>5 DEF HeaderSize
<1>9. Accepts(packet)
  BY <1>2, <1>4, <1>5, <1>7, <1>8 DEF Accepts
<1>10. /\ deserialize_packet_view(packet).header = full
       /\ deserialize_packet_view(packet).payload = payload
  BY <1>2, <1>4, <1>5 DEF deserialize_packet_view
<1> QED
  BY <1>5, <1>6, <1>9, <1>10 DEF full, n

LEMMA CanonicalDatagram ==
  ASSUME NEW packet \in Seq(Byte), Accepts(packet)
  PROVE  packet = serialize_packet(deserialize_packet_view(packet).header,
                                   deserialize_packet_view(packet).payload)
<1> DEFINE header == Read(HeaderRead, packet)
           n == header.payload_length
           payload == SubSeq(packet, HeaderSize + 1, HeaderSize + n)
           front == Written(HeaderWritten, header, HeaderSize)
<1>1. /\ HeaderSize \in Nat
      /\ Len(packet) >= HeaderSize
      /\ header.header_length = HeaderSize
      /\ Len(packet) = HeaderSize + n
  BY DEF Accepts, HeaderSize
<1>2. /\ Fits(HeaderWritten, header)
      /\ \A i \in 1 .. HeaderSize : front[i] = packet[i]
  BY <1>1, HeaderLayout, WrittenRead
<1>3. n \in Nat
  <2>1. n \in Unsigned(2)
    BY <1>2, HeaderLayout DEF Fits, HeaderWritten
  <2> QED
    BY <2>1, UnsignedIsNat
<1>4. front \in Seq(Byte) /\ Len(front) = HeaderSize
  BY <1>1, <1>2, HeaderLayout, WrittenType
<1>5. /\ payload \in Seq(Byte)
      /\ Len(payload) = n
      /\ \A i \in 1 .. n : payload[i] = packet[HeaderSize + i]
  BY <1>1, <1>3, Part
<1>6. header = [f \in DOMAIN HeaderRead |-> header[f]]
  BY DEF Read
<1>7. /\ deserialize_packet_view(packet).header = header
      /\ deserialize_packet_view(packet).payload = payload
  BY DEF deserialize_packet_view
<1> HIDE DEF header, payload
<1>8. [header EXCEPT !.payload_length = Len(payload), !.header_length = HeaderSize] = header
  BY <1>1, <1>5, <1>6, HeaderLayout
<1>9. serialize_packet(header, payload) = front \o payload
  BY <1>8 DEF serialize_packet, serialize_packet_header
<1> HIDE DEF front, n
<1> DEFINE all == front \o payload
<1>10. all \in Seq(Byte) /\ Len(all) = HeaderSize + n
  BY <1>4, <1>5, Joined
<1>11. ASSUME NEW i \in 1 .. HeaderSize + n
       PROVE  all[i] = packet[i]
  <2>1. i \in Nat /\ (i <= HeaderSize \/ i > HeaderSize)
    BY <1>1, <1>3
  <2>2. ASSUME i <= HeaderSize
        PROVE  all[i] = packet[i]
    BY <1>1, <1>2, <1>3, <1>4, <1>5, <2>2
  <2>3. ASSUME i > HeaderSize
        PROVE  all[i] = packet[i]
    <3>1. i - HeaderSize \in 1 .. n /\ HeaderSize + (i - HeaderSize) = i
      BY <1>1, <1>3, <2>3
    <3>2. all[i] = payload[i - HeaderSize]
      BY <1>1, <1>3, <1>4, <1>5, <2>3
    <3> QED
      BY <1>5, <3>1, <3>2
  <2> HIDE DEF all
  <2> QED
    BY <2>1, <2>2, <2>3
<1> HIDE DEF all
<1>12. all = packet
  BY <1>1, <1>10, <1>11
<1> QED
  BY <1>7, <1>9, <1>12 DEF all

-----------------------------------------------------------------------------
(* The specification. *)

\* What is on its way are bytes, and until the first fault those that were encoded.
WireInv ==
  /\ faults \in Nat
  /\ datagram \in Seq(Byte)
  /\ faults = 0 =>
       /\ sent.header \in PacketHeader
       /\ sent.payload \in PayloadOf(sent.header.type)
       /\ datagram = serialize_packet(sent.header,
                                      serialize_payload(sent.header.type, sent.payload))

LEMMA SentPacket ==
  ASSUME NEW header \in PacketHeader, NEW payload \in PayloadOf(header.type)
  PROVE  /\ header.type \in 1 .. 6
         /\ serialize_payload(header.type, payload) \in Seq(Byte)
         /\ Len(serialize_payload(header.type, payload)) \in Unsigned(2)
         /\ AcceptsPayload(header.type, serialize_payload(header.type, payload))
         /\ deserialize_payload(header.type, serialize_payload(header.type, payload)) = payload
<1>1. header.type \in 1 .. 6
  BY DEF PacketHeader
<1> QED
  BY <1>1, EveryPayloadSurvives DEF PayloadSurvives

\* Every datagram on its way is a sequence of bytes, and it is the encoding of what
\* was sent until something changes it.
THEOREM WireInvariant == Spec => []WireInv
<1>1. Init => WireInv
  <2> SUFFICES ASSUME Init PROVE WireInv
    OBVIOUS
  <2>1. PICK header \in Headers : \E payload \in Payloads[header.type] :
          sent = [header |-> header, payload |-> payload]
    BY DEF Init
  <2>2. sent.header \in PacketHeader /\ sent.payload \in PayloadOf(sent.header.type)
    BY <2>1, SentAssumption
  <2>3. datagram = serialize_packet(sent.header,
                                    serialize_payload(sent.header.type, sent.payload))
        /\ faults = 0
    BY DEF Init
  <2>4. datagram \in Seq(Byte)
    BY <2>2, <2>3, SentPacket, PacketRoundTrip
  <2> QED
    BY <2>2, <2>3, <2>4 DEF WireInv
<1>2. WireInv /\ [Next]_vars => WireInv'
  <2> SUFFICES ASSUME WireInv, [Next]_vars PROVE WireInv'
    OBVIOUS
  <2>1. CASE Next
    <3>1. faults' \in Nat /\ faults' # 0
      BY <2>1 DEF Next, WireInv
    <3>2. datagram \in Seq(Byte)
      BY DEF WireInv
    <3>3. datagram' \in Seq(Byte)
      <4>1. CASE ChangeByte
        BY <3>2, <4>1 DEF ChangeByte
      <4>2. CASE CutOff
        BY <3>2, <4>2 DEF CutOff, Front
      <4>3. CASE AddByte
        <5>1. 0 \in Byte /\ Base - 1 \in Byte
          BY BaseFacts DEF Byte
        <5> QED
          BY <3>2, <4>3, <5>1 DEF AddByte
      <4> QED
        BY <2>1, <4>1, <4>2, <4>3 DEF Next
    <3> QED
      BY <3>1, <3>3 DEF WireInv
  <2>2. CASE UNCHANGED vars
    BY <2>2 DEF WireInv, vars
  <2> QED
    BY <2>1, <2>2
<1> QED
  BY <1>1, <1>2, PTL DEF Spec

\* For every width of a byte and of the bitmap, every header and every payload the
\* endpoints can send: what arrives unchanged is accepted and decoded to what was
\* encoded, field by field and bit by bit (protocol.cpp:74-293; reliability.cpp:
\* 270-275 and 132-135).
THEOREM WireRoundTrip == Spec => []RoundTrip
<1>1. WireInv => RoundTrip
  <2> SUFFICES ASSUME WireInv, faults = 0
               PROVE  /\ Accepts(datagram)
                      /\ LET view == deserialize_packet_view(datagram)
                         IN /\ view.header = Completed(sent.header, Len(view.payload))
                            /\ AcceptsPayload(view.header.type, view.payload)
                            /\ deserialize_payload(view.header.type, view.payload) = sent.payload
    BY DEF RoundTrip, Completed
  <2> DEFINE header == sent.header
             bytes == serialize_payload(header.type, sent.payload)
             view == deserialize_packet_view(datagram)
  <2>1. /\ header \in PacketHeader
        /\ sent.payload \in PayloadOf(header.type)
        /\ datagram = serialize_packet(header, bytes)
    BY DEF WireInv
  <2>2. /\ bytes \in Seq(Byte)
        /\ Len(bytes) \in Unsigned(2)
        /\ AcceptsPayload(header.type, bytes)
        /\ deserialize_payload(header.type, bytes) = sent.payload
    BY <2>1, SentPacket
  <2> HIDE DEF header, bytes
  <2>3. Accepts(datagram) /\ view.header = Completed(header, Len(bytes)) /\ view.payload = bytes
    BY <2>1, <2>2, PacketRoundTrip
  <2>4. Completed(header, Len(bytes)).type = header.type
    BY <2>1 DEF Completed, PacketHeader
  <2> HIDE DEF view
  <2> QED
    BY <2>2, <2>3, <2>4 DEF view, header
<1> QED
  BY <1>1, WireInvariant, PTL

\* For every sequence of bytes that reaches the socket: it is refused unless it is,
\* byte for byte, the encoding of the packet it is taken for (protocol.cpp:114-153).
THEOREM AcceptedAreCanonical == Spec => []AcceptedIsCanonical
<1>1. WireInv => AcceptedIsCanonical
  BY CanonicalDatagram DEF WireInv, AcceptedIsCanonical
<1> QED
  BY <1>1, WireInvariant, PTL

\* Whatever arrives, an ACK that is applied has a bitmap of exactly as many bytes
\* as the negotiated number of bits takes (protocol.cpp:252, client.cpp:342-347).
THEOREM AppliedAcksAreWhole == Spec => []AppliedAckIsWhole
<1>1. AppliedAckIsWhole
  <2> DEFINE view == deserialize_packet_view(datagram)
             payload == view.payload
  <2> SUFFICES ASSUME AppliesAck(view)
               PROVE  (Len(payload) - 16) * ByteBits - BitmapBits \in 0 .. ByteBits - 1
    BY DEF AppliedAckIsWhole
  <2>1. /\ Len(payload) = 16 + BitmapBytes(Read(AckRead, payload).bitmap_bits)
        /\ Read(AckRead, payload).bitmap_bits = BitmapBits
    BY DEF AppliesAck, AcceptsPayload
  <2> HIDE DEF payload
  <2>2. BitmapBits \in Nat
    BY ProtocolAssumption, UnsignedIsNat
  <2>3. BitmapBytes(BitmapBits) \in Nat
    BY <2>2, BitmapRoundsUp
  <2>4. Len(payload) - 16 = BitmapBytes(BitmapBits)
    BY <2>1, <2>3
  <2> QED
    BY <2>2, <2>4, BitmapRoundsUp
<1> QED
  BY <1>1, PTL
=============================================================================
