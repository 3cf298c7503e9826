---------------------------- MODULE LoanBookProofs ----------------------------
(***************************************************************************)
(* Theorems about LoanBook and the calculator it uses, for any principal,  *)
(* term, rate, amounts and number of sessions: the arithmetic of the       *)
(* schedule first, then the types, and then what a serializable database   *)
(* guarantees.                                                             *)
(***************************************************************************)
EXTENDS LoanBook, MCLoanCalculator, SumTheorems

-----------------------------------------------------------------------------
(* Fractions                                                                *)

Positive  == Nat \ {0}
Fractions == [num : Int, den : Nat \ {0}]
Rates     == [num : Nat, den : Nat \ {0}]

(* The operations on fractions give fractions.                               *)
LEMMA FractionsClosed ==
    /\ \A n \in Int : Whole(n) \in Fractions
    /\ \A n, d \in Int : d # 0 => Ratio(n, d) \in Fractions
    /\ \A p, q \in Fractions : /\ Plus(p, q) \in Fractions
                               /\ Minus(p, q) \in Fractions
                               /\ Times(p, q) \in Fractions
<1>1. \A a, b \in Nat \ {0} : a * b \in Nat \ {0}
  OBVIOUS
<1>2. ASSUME NEW p \in Fractions, NEW q \in Fractions
      PROVE  /\ Plus(p, q) \in Fractions
             /\ Minus(p, q) \in Fractions
             /\ Times(p, q) \in Fractions
  <2>1. /\ p.num \in Int /\ q.num \in Int
        /\ p.den \in Nat \ {0} /\ q.den \in Nat \ {0} /\ p.den * q.den \in Nat \ {0}
    BY <1>1 DEF Fractions
  <2>2. \A r \in Fractions : Plus(p, r) \in Fractions
    BY <1>1, <2>1 DEF Fractions, Plus, Frac
  <2>3. Frac(- q.num, q.den) \in Fractions
    BY <2>1 DEF Fractions, Frac
  <2>4. Times(p, q) \in Fractions
    BY <2>1 DEF Fractions, Times, Frac
  <2> QED
    BY <2>2, <2>3, <2>4 DEF Minus
<1> QED
  BY <1>2 DEF Fractions, Whole, Ratio, Frac

(* A whole number less than another leaves room for one more of anything.    *)
LEMMA RoomForOne ==
    ASSUME NEW x \in Int, NEW y \in Int, NEW d \in Positive, x < y
    PROVE  x * d \in Int /\ y * d \in Int /\ x * d + d <= y * d
<1>1. PICK z \in Nat : y = x + 1 + z
  <2>1. y - x - 1 \in Nat /\ y = x + 1 + (y - x - 1)
    OBVIOUS
  <2> QED
    BY <2>1
<1>2. d \in Nat /\ z * d \in Nat /\ x * d \in Int
  BY DEF Positive
<1>3. (x + 1 + z) * d = x * d + d + z * d
  BY <1>2
<1> QED
  BY <1>1, <1>2, <1>3

(* Multiplying keeps the order.                                              *)
LEMMA TimesGrows ==
    ASSUME NEW x \in Int, NEW y \in Int, NEW n \in Nat, x <= y
    PROVE  x * n \in Int /\ y * n \in Int /\ x * n <= y * n
<1>1. CASE x = y \/ n = 0
  BY <1>1
<1>2. CASE x < y /\ n # 0
  BY <1>2, RoomForOne DEF Positive
<1> QED
  BY <1>1, <1>2

(* A whole number of units within half a unit of zero is none.               *)
LEMMA LessThanHalf ==
    ASSUME NEW k \in Int, NEW d \in Positive, 2 * (k * d) <= d, 0 < 2 * (k * d) + d
    PROVE  k = 0
<1>1. ~ (k < 0)
  <2> SUFFICES ASSUME k < 0
               PROVE  FALSE
    OBVIOUS
  <2>1. k * d \in Int /\ k * d + d <= 0 * d /\ 0 * d = 0
    BY RoomForOne DEF Positive
  <2> QED
    BY <2>1 DEF Positive
<1>2. ~ (0 < k)
  <2> SUFFICES ASSUME 0 < k
               PROVE  FALSE
    OBVIOUS
  <2>1. k * d \in Int /\ 0 * d + d <= k * d /\ 0 * d = 0
    BY RoomForOne DEF Positive
  <2> QED
    BY <2>1 DEF Positive
<1> QED
  BY <1>1, <1>2

(* Between which halves of a cent a fraction is rounded; half a cent goes    *)
(* away from zero.                                                           *)
LEMMA CentsBetween ==
    ASSUME NEW q \in Fractions
    PROVE  LET t == 2 * (Cents(q) * q.den)
           IN  /\ Cents(q) \in Int
               /\ q.num >= 0 => t <= 2 * q.num + q.den /\ 2 * q.num < t + q.den
               /\ q.num < 0 => t < 2 * q.num + q.den /\ 2 * q.num <= t + q.den
<1>1. q.num \in Int /\ q.den \in Nat \ {0}
  BY DEF Fractions
<1> DEFINE up(n) == (2 * n + q.den) \div (2 * q.den)
<1>2. ASSUME NEW n \in Int
      PROVE  /\ up(n) \in Int /\ up(n) * q.den \in Int
             /\ 2 * (up(n) * q.den) <= 2 * n + q.den
             /\ 2 * n < 2 * (up(n) * q.den) + q.den
  <2> DEFINE a == 2 * n + q.den
             b == 2 * q.den
  <2>1. a \in Int /\ b \in Nat \ {0}
    BY <1>1
  <2> HIDE DEF a, b
  <2>2. /\ a \div b \in Int
        /\ b * (a \div b) <= a /\ a < b * ((a \div b) + 1)
    BY <2>1
  <2>3. up(n) = a \div b
    BY DEF a, b
  <2> DEFINE k == a \div b
  <2>4. k \in Int
    BY <2>2
  <2>5. (2 * q.den) * k = 2 * (k * q.den)
    <3> HIDE DEF k
    <3> QED
      BY <1>1, <2>4
  <2>6. (2 * q.den) * (k + 1) = 2 * (k * q.den) + 2 * q.den
    <3> HIDE DEF k
    <3> QED
      BY <1>1, <2>4
  <2>7. 2 * (k * q.den) <= 2 * n + q.den /\ 2 * n + q.den < 2 * (k * q.den) + 2 * q.den
    BY <2>2, <2>5, <2>6 DEF a, b
  <2>8. k * q.den \in Int
    BY <1>1, <2>4
  <2> HIDE DEF k, up
  <2> QED
    BY <1>1, <2>3, <2>4, <2>7, <2>8 DEF k
<1>3. Cents(q) = IF q.num >= 0 THEN up(q.num) ELSE - up(- q.num)
  BY DEF Cents
<1> HIDE DEF up
<1>4. CASE q.num >= 0
  <2> DEFINE k == up(q.num)
  <2>1. /\ k \in Int /\ k * q.den \in Int
        /\ 2 * (k * q.den) <= 2 * q.num + q.den
        /\ 2 * q.num < 2 * (k * q.den) + q.den
    BY <1>1, <1>2
  <2>2. Cents(q) = k
    BY <1>3, <1>4
  <2> HIDE DEF k
  <2> QED
    BY <1>1, <1>4, <2>1, <2>2
<1>5. CASE ~ (q.num >= 0)
  <2>1. - q.num \in Int
    BY <1>1
  <2> DEFINE k == up(- q.num)
  <2>2. /\ k \in Int /\ k * q.den \in Int
        /\ 2 * (k * q.den) <= 2 * (- q.num) + q.den
        /\ 2 * (- q.num) < 2 * (k * q.den) + q.den
    BY <1>2, <2>1
  <2>3. (- k) * q.den = - (k * q.den)
    <3> HIDE DEF k
    <3> QED
      BY <1>1, <2>2
  <2>4. Cents(q) = - k
    BY <1>3, <1>5
  <2> HIDE DEF k
  <2> QED
    BY <1>1, <1>5, <2>2, <2>3, <2>4
<1> QED
  BY <1>4, <1>5

(* Rounding to cents is off by half a cent at most.                          *)
LEMMA CentsNear ==
    ASSUME NEW q \in Fractions
    PROVE  /\ Cents(q) \in Int
           /\ 2 * (Cents(q) * q.den) - 2 * q.num <= q.den
           /\ 2 * q.num - 2 * (Cents(q) * q.den) <= q.den
<1> DEFINE t == Cents(q) * q.den
<1>1. q.num \in Int /\ q.den \in Nat /\ Cents(q) \in Int
  BY CentsBetween DEF Fractions
<1>2. t \in Int
  BY <1>1
<1>3. /\ q.num >= 0 => 2 * t <= 2 * q.num + q.den /\ 2 * q.num < 2 * t + q.den
      /\ q.num < 0 => 2 * t < 2 * q.num + q.den /\ 2 * q.num <= 2 * t + q.den
  BY CentsBetween
<1> HIDE DEF t
<1>4. 2 * t - 2 * q.num <= q.den /\ 2 * q.num - 2 * t <= q.den
  BY <1>1, <1>2, <1>3
<1> QED
  BY <1>1, <1>4 DEF t

(* What is more is not rounded to less.                                      *)
LEMMA CentsGrow ==
    ASSUME NEW p \in Fractions, NEW q \in Fractions, p.den = q.den, p.num <= q.num
    PROVE  Cents(p) <= Cents(q)
<1> DEFINE d == q.den
           x == Cents(p)
           y == Cents(q)
<1>1. p.num \in Int /\ q.num \in Int /\ d \in Positive /\ x \in Int /\ y \in Int
  BY CentsBetween DEF Fractions, Positive
<1>2. /\ p.num >= 0 => 2 * (x * d) <= 2 * p.num + d
      /\ p.num < 0 => 2 * (x * d) < 2 * p.num + d
      /\ q.num >= 0 => 2 * q.num < 2 * (y * d) + d
      /\ q.num < 0 => 2 * q.num <= 2 * (y * d) + d
  BY CentsBetween
<1> HIDE DEF d, x, y
<1>3. ~ (y < x)
  <2> SUFFICES ASSUME y < x
               PROVE  FALSE
    OBVIOUS
  <2>1. y * d \in Int /\ x * d \in Int /\ y * d + d <= x * d
    BY <1>1, RoomForOne
  <2> DEFINE u == x * d
             v == y * d
  <2> HIDE DEF u, v
  <2>2. v \in Int /\ u \in Int /\ v + d <= u
    BY <2>1 DEF u, v
  <2>3. /\ p.num >= 0 => 2 * u <= 2 * p.num + d
        /\ p.num < 0 => 2 * u < 2 * p.num + d
        /\ q.num >= 0 => 2 * q.num < 2 * v + d
        /\ q.num < 0 => 2 * q.num <= 2 * v + d
    BY <1>2 DEF u, v
  <2> QED
    BY <1>1, <2>2, <2>3 DEF Positive
<1> QED
  BY <1>1, <1>3 DEF x, y

(* Less a whole number of cents.                                             *)
LEMMA MinusWhole ==
    ASSUME NEW q \in Fractions, NEW k \in Int
    PROVE  /\ Minus(q, Whole(k)) \in Fractions
           /\ Minus(q, Whole(k)).den = q.den
           /\ Minus(q, Whole(k)).num = q.num - k * q.den
<1> DEFINE n == q.num
           d == q.den
<1>1. n \in Int /\ d \in Positive
  BY DEF Fractions, Positive
<1>2. Minus(q, Whole(k)) \in Fractions
  BY FractionsClosed
<1>3. Minus(q, Whole(k)) = IF d = 1 THEN Frac(n + (- k), d) ELSE Frac(n * 1 + (- k) * d, d * 1)
  BY DEF Minus, Plus, Whole, Frac
<1> HIDE DEF n, d
<1>4. d * 1 = d /\ n * 1 = n /\ (- k) * d = - (k * d) /\ k * d \in Int /\ (d = 1 => k * d = k)
  BY <1>1 DEF Positive
<1>5. Minus(q, Whole(k)).den = d /\ Minus(q, Whole(k)).num = n - k * d
  BY <1>1, <1>3, <1>4 DEF Frac
<1> QED
  BY <1>2, <1>5 DEF n, d

(* Rounding after a whole number of cents was taken away, or before, is the  *)
(* same, as long as no more than half a cent is missing.                     *)
LEMMA CentsLess ==
    ASSUME NEW q \in Fractions, NEW k \in Int, q.num >= 0,
           2 * (k * q.den) < 2 * q.num + q.den
    PROVE  /\ Cents(Minus(q, Whole(k))) = Cents(q) - k
           /\ Cents(Minus(q, Whole(k))) >= 0
<1> DEFINE n == q.num
           d == q.den
           less == Minus(q, Whole(k))
           x == Cents(q)
           y == Cents(less)
<1>1. n \in Int /\ n >= 0 /\ d \in Positive /\ x \in Int /\ y \in Int /\ 2 * (k * d) < 2 * n + d
  BY MinusWhole, CentsBetween DEF Fractions, Positive
<1>2. less \in Fractions /\ less.den = d /\ less.num = n - k * d
  BY MinusWhole
<1> DEFINE r == n - k * d
<1>3. /\ 2 * (x * d) <= 2 * n + d /\ 2 * n < 2 * (x * d) + d
      /\ r >= 0 => 2 * (y * d) <= 2 * r + d /\ 2 * r < 2 * (y * d) + d
      /\ r < 0 => 2 * (y * d) < 2 * r + d /\ 2 * r <= 2 * (y * d) + d
  <2>1. /\ q.num >= 0 => 2 * (x * q.den) <= 2 * q.num + q.den /\ 2 * q.num < 2 * (x * q.den) + q.den
        /\ less.num >= 0 => 2 * (y * less.den) <= 2 * less.num + less.den
                            /\ 2 * less.num < 2 * (y * less.den) + less.den
        /\ less.num < 0 => 2 * (y * less.den) < 2 * less.num + less.den
                           /\ 2 * less.num <= 2 * (y * less.den) + less.den
    BY <1>2, CentsBetween
  <2> HIDE DEF x, y, less
  <2> QED
    BY <1>2, <2>1
<1> HIDE DEF n, d, less, x, y
<1>4. y >= 0
  <2> SUFFICES ASSUME y < 0
               PROVE  FALSE
    BY <1>1
  <2>1. y * d \in Int /\ y * d + d <= 0 * d /\ 0 * d = 0 /\ k * d \in Int
    BY <1>1, RoomForOne DEF Positive
  <2> DEFINE u == y * d
             w == k * d
  <2>2. u \in Int /\ u + d <= 0 /\ w \in Int
    BY <2>1
  <2>3. /\ n - w >= 0 => 2 * (n - w) < 2 * u + d
        /\ n - w < 0 => 2 * (n - w) <= 2 * u + d
        /\ 2 * w < 2 * n + d
    BY <1>1, <1>3
  <2> HIDE DEF u, w
  <2> QED
    BY <1>1, <2>2, <2>3 DEF Positive
<1>5. x * d \in Int /\ y * d \in Int /\ k * d \in Int /\ (x - k) * d = x * d - k * d /\ x - k \in Int
  BY <1>1 DEF Positive
<1> DEFINE t == x * d
           u == y * d
           w == k * d
<1>6. t \in Int /\ u \in Int /\ w \in Int
  BY <1>5
<1>7. /\ 2 * t <= 2 * n + d /\ 2 * n < 2 * t + d /\ 2 * w < 2 * n + d
      /\ n - w >= 0 => 2 * u <= 2 * (n - w) + d /\ 2 * (n - w) < 2 * u + d
      /\ n - w < 0 => 2 * u < 2 * (n - w) + d /\ 2 * (n - w) <= 2 * u + d
  BY <1>1, <1>3
<1>8. ~ (y < x - k)
  <2> SUFFICES ASSUME y < x - k
               PROVE  FALSE
    OBVIOUS
  <2>1. y * d + d <= (x - k) * d
    BY <1>1, <1>5, RoomForOne
  <2>2. u + d <= t - w /\ u >= 0
    BY <1>1, <1>4, <1>5, <2>1 DEF Positive
  <2> HIDE DEF t, u, w
  <2>3. n - w < 0
    BY <1>1, <1>6, <1>7, <2>2 DEF Positive
  <2> QED
    BY <1>1, <1>6, <1>7, <2>2, <2>3 DEF Positive
<1>9. ~ (x - k < y)
  <2> SUFFICES ASSUME x - k < y
               PROVE  FALSE
    OBVIOUS
  <2>1. (x - k) * d + d <= y * d
    BY <1>1, <1>5, RoomForOne
  <2>2. t - w + d <= u
    BY <1>5, <2>1
  <2> HIDE DEF t, u, w
  <2> QED
    BY <1>1, <1>6, <1>7, <2>2 DEF Positive
<1> QED
  BY <1>1, <1>4, <1>5, <1>8, <1>9 DEF x, y, less

(* Power multiplies n with itself m times.                                   *)
LEMMA PowerIs ==
    ASSUME NEW n \in Positive, NEW m \in Nat
    PROVE  \E f \in [0 .. m -> Positive] :
               /\ Power(n, m) = f[m]
               /\ f[0] = 1
               /\ \A i \in 1 .. m : f[i] = n * f[i - 1]
<1> DEFINE Eq(f) == f = [i \in 0 .. m |-> IF i = 0 THEN 1 ELSE n * f[i - 1]]
           step == [p \in (1 .. m) \X Positive |-> n * p[2]]
           f == CHOOSE g : Eq(g)
<1>1. step \in [(1 .. m) \X Positive -> Positive]
  BY DEF Positive
<1>2. PICK g \in [0 .. m -> Positive] : Computes(g, 1, step, m)
  <2> HIDE DEF step
  <2>1. 1 \in Positive
    BY DEF Positive
  <2> QED
    BY <1>1, <2>1, CountExists
<1>3. \A i \in 0 .. m : g[i] = IF i = 0 THEN 1 ELSE n * g[i - 1]
  <2>1. \A i \in 1 .. m : step[<<i, g[i - 1]>>] = n * g[i - 1]
    <3> SUFFICES ASSUME NEW i \in 1 .. m
                 PROVE  step[<<i, g[i - 1]>>] = n * g[i - 1]
      OBVIOUS
    <3>1. i - 1 \in 0 .. m
      OBVIOUS
    <3>2. <<i, g[i - 1]>> \in (1 .. m) \X Positive
      BY <3>1
    <3> QED
      BY <3>2
  <2> HIDE DEF step
  <2>2. ASSUME NEW i \in 0 .. m
        PROVE  g[i] = IF i = 0 THEN 1 ELSE n * g[i - 1]
    <3>1. CASE i = 0
      BY <1>2, <3>1 DEF Computes
    <3>2. CASE i # 0
      <4>1. i \in 1 .. m
        BY <3>2
      <4>2. g[i] = step[<<i, g[i - 1]>>]
        BY <1>2, <3>2 DEF Computes
      <4> QED
        BY <2>1, <3>2, <4>1, <4>2
    <3> QED
      BY <3>1, <3>2
  <2> QED
    BY <2>2
<1>4. Eq(g)
  BY <1>3
<1>5. Eq(f)
  BY <1>4
<1>6. Power(n, m) = f[m]
  BY DEF Power
<1> HIDE DEF f
<1>7. f[0] = 1 /\ \A i \in 1 .. m : f[i] = n * f[i - 1]
  BY <1>5
<1>8. f[0] \in Positive /\ \A i \in 1 .. m : f[i - 1] \in Positive => f[i] \in Positive
  BY <1>7 DEF Positive
<1>9. \A i \in 0 .. m : f[i] \in Positive
  BY <1>8, CountStays
<1>10. f \in [0 .. m -> Positive]
  BY <1>5, <1>9
<1> QED
  BY <1>6, <1>7, <1>10

(* A power grows with its base.                                              *)
LEMMA PowerGrows ==
    ASSUME NEW n \in Positive, NEW k \in Positive, NEW m \in Positive
    PROVE  /\ Power(n, m) \in Positive /\ Power(n + k, m) \in Positive
           /\ Power(n + k, m) > Power(n, m)
<1>0. n + k \in Positive /\ m \in Nat
  BY DEF Positive
<1>1. PICK f \in [0 .. m -> Positive] :
          Power(n, m) = f[m] /\ f[0] = 1 /\ \A i \in 1 .. m : f[i] = n * f[i - 1]
  BY <1>0, PowerIs
<1>2. PICK g \in [0 .. m -> Positive] :
          Power(n + k, m) = g[m] /\ g[0] = 1 /\ \A i \in 1 .. m : g[i] = (n + k) * g[i - 1]
  BY <1>0, PowerIs
<1> DEFINE G == {i \in 0 .. m : g[i] >= f[i] /\ (i > 0 => g[i] > f[i])}
<1>3. 0 \in G
  BY <1>0, <1>1, <1>2
<1>4. ASSUME NEW i \in 0 .. m - 1, i \in G
      PROVE  i + 1 \in G
  <2>1. i + 1 \in 1 .. m /\ (i + 1) - 1 = i /\ i \in 0 .. m
    BY <1>0
  <2>2. f[i + 1] = n * f[i] /\ g[i + 1] = (n + k) * g[i]
    BY <1>1, <1>2, <2>1
  <2>3. f[i] \in Positive /\ g[i] \in Positive /\ g[i] >= f[i]
    BY <1>4, <2>1
  <2>4. \A a, b \in Positive : b >= a => (n + k) * b > n * a
    <3> SUFFICES ASSUME NEW a \in Positive, NEW b \in Positive, b >= a
                 PROVE  (n + k) * b > n * a
      OBVIOUS
    <3>1. PICK c \in Nat : b = a + c
      <4>1. b - a \in Nat /\ b = a + (b - a)
        BY DEF Positive
      <4> QED
        BY <4>1
    <3>2. n * b = n * a + n * c /\ n * c \in Nat /\ n * a \in Nat
      BY <3>1 DEF Positive
    <3>3. k * b \in Positive /\ (n + k) * b = n * b + k * b
      BY DEF Positive
    <3>4. \A u, v, w \in Int : v >= 0 /\ w > 0 => (u + v) + w > u
      OBVIOUS
    <3>5. n * a \in Int /\ n * c \in Int /\ n * c >= 0 /\ k * b \in Int /\ k * b > 0
      BY <3>2, <3>3 DEF Positive
    <3>6. (n + k) * b = (n * a + n * c) + k * b
      BY <3>2, <3>3
    <3> QED
      BY <3>4, <3>5, <3>6
  <2>5. g[i + 1] > f[i + 1] /\ g[i + 1] \in Positive /\ f[i + 1] \in Positive
    BY <2>1, <2>2, <2>3, <2>4
  <2> QED
    BY <2>1, <2>5 DEF Positive
<1> HIDE DEF G
<1>5. m \in G
  BY <1>0, <1>3, <1>4, Counting
<1>6. m \in 0 .. m /\ m > 0
  BY DEF Positive
<1>7. g[m] > f[m] /\ f[m] \in Positive /\ g[m] \in Positive
  BY <1>5, <1>6 DEF G
<1> QED
  BY <1>1, <1>2, <1>7

(* The annuity is a fraction.                                                *)
LEMMA InstallmentIs ==
    ASSUME NEW principal \in Fractions, NEW rate \in Rates, NEW m \in Nat \ {0}
    PROVE  Installment(principal, rate, m) \in Fractions
<1>1. CASE rate.num = 0
  <2>1. Frac(1, m) \in Fractions
    BY DEF Frac, Fractions
  <2> QED
    BY <1>1, <2>1, FractionsClosed DEF Installment
<1>2. CASE rate.num # 0
  <2> DEFINE grown == Power(rate.den + rate.num, m)
             flat == Power(rate.den, m)
  <2>1. rate.num \in Positive /\ rate.den \in Positive /\ m \in Positive
    BY <1>2 DEF Rates, Positive
  <2>2. grown \in Positive /\ flat \in Positive /\ grown > flat
    BY <2>1, PowerGrows
  <2>3. Installment(principal, rate, m)
            = Times(principal, Frac(rate.num * grown, rate.den * (grown - flat)))
    BY <1>2 DEF Installment
  <2> HIDE DEF grown, flat
  <2>4. rate.den * (grown - flat) \in Nat \ {0} /\ rate.num * grown \in Int
    BY <2>1, <2>2 DEF Positive
  <2>5. Frac(rate.num * grown, rate.den * (grown - flat)) \in Fractions
    BY <2>4 DEF Frac, Fractions
  <2> QED
    BY <2>3, <2>5, FractionsClosed
<1> QED
  BY <1>1, <1>2

(* The installment asks for more than the interest on the whole principal,   *)
(* rounded, by more than the rounding.                                       *)
LEMMA InstallmentCovers ==
    ASSUME NEW principal \in Fractions, principal.num >= 0,
           NEW rate \in Rates, NEW m \in Positive
    PROVE  LET each == Installment(principal, rate, m)
           IN  /\ each.num >= 0
               /\ 2 * (Cents(Times(principal, rate)) * each.den) < 2 * each.num + each.den
<1> DEFINE n == principal.num
           d == principal.den
           a == rate.num
           b == rate.den
           k == Cents(Times(principal, rate))
<1>1. n \in Nat /\ d \in Positive /\ a \in Nat /\ b \in Positive /\ m \in Nat \ {0}
  BY DEF Fractions, Rates, Positive
<1>2. /\ k \in Int /\ n * a \in Nat /\ d * b \in Positive
      /\ 2 * (k * (d * b)) <= 2 * (n * a) + d * b
      /\ 2 * (n * a) < 2 * (k * (d * b)) + d * b
  <2>1. rate \in Fractions
    BY DEF Rates, Fractions
  <2>2. Times(principal, rate) \in Fractions
    BY <2>1, FractionsClosed
  <2>3. Times(principal, rate).num = n * a /\ Times(principal, rate).den = d * b
    BY DEF Times, Frac
  <2>4. n * a \in Nat /\ d * b \in Positive
    BY <1>1 DEF Positive
  <2> DEFINE q == Times(principal, rate)
  <2>5. q \in Fractions /\ q.num = n * a /\ q.den = d * b /\ k = Cents(q)
    BY <2>2, <2>3
  <2> HIDE DEF q, k, n, a, d, b
  <2> QED
    BY <2>4, <2>5, CentsBetween
<1>3. CASE a = 0
  <2>1. Installment(principal, rate, m) = Times(principal, Frac(1, m))
    BY <1>3 DEF Installment
  <2>2. Times(principal, Frac(1, m)) = Frac(n * 1, d * m)
    BY DEF Times, Frac
  <2> HIDE DEF k, n, a, d, b
  <2>3. k = 0
    <3> DEFINE D == d * b
    <3>1. D \in Positive /\ k \in Int /\ 2 * (k * D) <= D /\ 0 < 2 * (k * D) + D
      BY <1>1, <1>2, <1>3
    <3> HIDE DEF D
    <3> QED
      BY <3>1, LessThanHalf
  <2>4. n * 1 = n /\ d * m \in Positive /\ 0 * (d * m) = 0
    BY <1>1 DEF Positive
  <2>5. Installment(principal, rate, m).num = n /\ Installment(principal, rate, m).den = d * m
    BY <2>1, <2>2, <2>4 DEF Frac
  <2>6. k * (d * m) = 0 /\ 0 < 2 * n + d * m
    BY <1>1, <2>3, <2>4 DEF Positive
  <2> QED
    BY <1>1, <2>5, <2>6 DEF k
<1>4. CASE a # 0
  <2> DEFINE g == Power(b + a, m)
             f == Power(b, m)
             h == g - f
             each == Installment(principal, rate, m)
             A == n * a
             D == d * b
  <2>1. g \in Positive /\ f \in Positive /\ g > f
    BY <1>1, <1>4, PowerGrows DEF Positive
  <2>2. h \in Positive /\ g = h + f
    <3> HIDE DEF g, f
    <3> QED
      BY <2>1 DEF Positive
  <2>3. each = Times(principal, Frac(a * g, b * h))
    BY <1>4 DEF Installment
  <2>4. each.num = n * (a * g) /\ each.den = d * (b * h)
    BY <2>3 DEF Times, Frac
  <2> HIDE DEF k, n, a, d, b, g, f, h, each
  <2>5. n * (a * g) = A * g /\ d * (b * h) = D * h /\ A \in Nat /\ D \in Positive
    BY <1>1, <1>2, <2>1, <2>2 DEF Positive
  <2>6. 2 * (k * D) <= 2 * A + D /\ 2 * A < 2 * (k * D) + D /\ k \in Int
    BY <1>2
  <2> HIDE DEF A, D
  <2>7. A * g = A * h + A * f /\ A * h \in Nat /\ A * f \in Nat /\ A * g \in Nat
    BY <2>1, <2>2, <2>5 DEF Positive
  <2>8. D * h \in Positive /\ k * (D * h) = (k * D) * h /\ k * D \in Int /\ (k * D) * h \in Int
    BY <2>2, <2>5, <2>6 DEF Positive
  <2>9. each.num = A * g /\ each.den = D * h
    BY <2>4, <2>5
  <2>10. ASSUME A = 0
        PROVE  each.num >= 0 /\ 2 * (k * each.den) < 2 * each.num + each.den
    <3>1. k = 0
      <4>1. 2 * (k * D) <= D /\ 0 < 2 * (k * D) + D
        BY <2>5, <2>6, <2>8, <2>10 DEF Positive
      <4> QED
        BY <2>5, <2>6, <4>1, LessThanHalf
    <3>2. k * (D * h) = 0
      BY <2>8, <3>1 DEF Positive
    <3> QED
      BY <2>7, <2>8, <2>9, <3>2 DEF Positive
  <2>11. ASSUME A # 0
         PROVE  each.num >= 0 /\ 2 * (k * each.den) < 2 * each.num + each.den
    <3>1. 2 * ((k * D) * h) <= 2 * (A * h) + D * h
      <4> DEFINE u == k * D
      <4> HIDE DEF u
      <4>1. u \in Int /\ 2 * u <= 2 * A + D
        BY <2>6, <2>8 DEF u
      <4>2. PICK z \in Nat : 2 * A + D = 2 * u + z
        <5>1. 2 * A + D - 2 * u \in Nat /\ 2 * A + D = 2 * u + (2 * A + D - 2 * u)
          BY <2>5, <4>1 DEF Positive
        <5> QED
          BY <5>1
      <4>3. (2 * A + D) * h = (2 * u + z) * h
        BY <4>2
      <4>4. (2 * A + D) * h = 2 * (A * h) + D * h /\ (2 * u + z) * h = 2 * (u * h) + z * h
        BY <2>2, <2>5, <4>1 DEF Positive
      <4>5. z * h \in Nat /\ u * h \in Int
        BY <2>2, <4>1 DEF Positive
      <4> QED
        BY <2>7, <2>8, <4>3, <4>4, <4>5 DEF u, Positive
    <3>2. A * f > 0
      BY <2>1, <2>5, <2>11 DEF Positive
    <3>3. 2 * (k * (D * h)) < 2 * (A * g) + D * h
      <4> DEFINE t == (k * D) * h
                 u == A * h
                 v == A * f
                 w == D * h
      <4>1. /\ t \in Int /\ u \in Nat /\ v \in Nat /\ w \in Nat /\ v > 0
            /\ 2 * t <= 2 * u + w /\ A * g = u + v /\ k * (D * h) = t
        BY <2>7, <2>8, <3>1, <3>2 DEF Positive
      <4> HIDE DEF t, u, v, w
      <4>2. 2 * t < 2 * (u + v) + w
        BY <4>1
      <4> QED
        BY <4>1, <4>2 DEF w
    <3> QED
      BY <2>7, <2>9, <3>3
  <2> QED
    BY <2>10, <2>11 DEF each, k
<1> QED
  BY <1>3, <1>4

(* The interest on a smaller balance is not more.                            *)
LEMMA InterestGrows ==
    ASSUME NEW p \in Fractions, NEW q \in Fractions, p.den = q.den, p.num <= q.num,
           NEW rate \in Rates
    PROVE  /\ Cents(Times(p, rate)) \in Int /\ Cents(Times(q, rate)) \in Int
           /\ Cents(Times(p, rate)) <= Cents(Times(q, rate))
<1>1. Times(p, rate) \in Fractions /\ Times(q, rate) \in Fractions
  <2>1. rate \in Fractions
    BY DEF Rates, Fractions
  <2> QED
    BY <2>1, FractionsClosed
<1>2. Times(p, rate).den = Times(q, rate).den
  BY DEF Times, Frac
<1>3. Times(p, rate).num <= Times(q, rate).num
  <2>1. p.num \in Int /\ q.num \in Int /\ rate.num \in Nat
    BY DEF Fractions, Rates
  <2>2. Times(p, rate).num = p.num * rate.num /\ Times(q, rate).num = q.num * rate.num
    BY DEF Times, Frac
  <2> QED
    BY <2>1, <2>2, TimesGrows
<1> QED
  BY <1>1, <1>2, <1>3, CentsGrow, CentsBetween

-----------------------------------------------------------------------------
(* The schedule                                                             *)

Installments == [principal : Int, interest : Int]
Progress     == [balance : Fractions, rows : Seq(Installments)]

\* what BuildSchedule makes of its progress with row i of m
OneRowMore(before, i, m, rate, each) ==
    LET row == RowOn(before.balance, each, rate, i = m)
    IN  [balance |-> Minus(before.balance, Whole(row.principal)),
         rows    |-> Append(before.rows, row)]

(* A row of the schedule is two amounts in cents.                            *)
LEMMA RowIs ==
    ASSUME NEW balance \in Fractions, NEW each \in Fractions, NEW rate \in Rates,
           NEW last \in BOOLEAN
    PROVE  RowOn(balance, each, rate, last) \in Installments
<1> DEFINE interest == Cents(Times(balance, rate))
           principal == IF last THEN Cents(balance) ELSE Cents(Minus(each, Whole(interest)))
<1>1. rate \in Fractions
  BY DEF Rates, Fractions
<1>2. interest \in Int
  BY <1>1, FractionsClosed, CentsNear
<1>3. principal \in Int
  <2> HIDE DEF interest
  <2>1. Minus(each, Whole(interest)) \in Fractions
    BY <1>2, FractionsClosed
  <2> QED
    BY <2>1, CentsNear
<1>4. RowOn(balance, each, rate, last) = [principal |-> principal, interest |-> interest]
  BY DEF RowOn
<1> HIDE DEF interest, principal
<1> QED
  BY <1>2, <1>3, <1>4 DEF Installments

(* One row more is progress.                                                 *)
LEMMA OneRowMoreIs ==
    ASSUME NEW each \in Fractions, NEW rate \in Rates, NEW m, NEW i, NEW before \in Progress
    PROVE  OneRowMore(before, i, m, rate, each) \in Progress
<1> DEFINE row == RowOn(before.balance, each, rate, i = m)
<1>1. before.balance \in Fractions /\ before.rows \in Seq(Installments)
  BY DEF Progress
<1>2. row \in Installments
  BY <1>1, RowIs
<1>3. row.principal \in Int
  BY <1>2 DEF Installments
<1>4. Minus(before.balance, Whole(row.principal)) \in Fractions
  BY <1>1, <1>3, FractionsClosed
<1>5. Append(before.rows, row) \in Seq(Installments)
  BY <1>1, <1>2
<1>6. OneRowMore(before, i, m, rate, each)
          = [balance |-> Minus(before.balance, Whole(row.principal)),
             rows |-> Append(before.rows, row)]
  BY DEF OneRowMore
<1> HIDE DEF row
<1> QED
  BY <1>4, <1>5, <1>6 DEF Progress

(* BuildSchedule adds m rows, one after the other.                           *)
LEMMA ScheduleBuilt ==
    ASSUME NEW principal \in Fractions, NEW rate \in Rates, NEW m \in Positive
    PROVE  \E f \in [0 .. m -> Progress] :
               /\ BuildSchedule(principal, rate, m) = f[m].rows
               /\ f[0] = [balance |-> principal, rows |-> << >>]
               /\ \A i \in 1 .. m :
                      f[i] = OneRowMore(f[i - 1], i, m, rate, Installment(principal, rate, m))
<1> DEFINE each == Installment(principal, rate, m)
           first == [balance |-> principal, rows |-> << >>]
           Eq(f) == f = [i \in 0 .. m |-> IF i = 0 THEN first
                                          ELSE OneRowMore(f[i - 1], i, m, rate, each)]
           step == [p \in (1 .. m) \X Progress |-> OneRowMore(p[2], p[1], m, rate, each)]
           f == CHOOSE g : Eq(g)
<1>0. m \in Nat /\ each \in Fractions
  BY InstallmentIs DEF Positive
<1>1. BuildSchedule(principal, rate, m) = f[m].rows
  BY DEF BuildSchedule, OneRowMore
<1> HIDE DEF each
<1>2. first \in Progress
  BY DEF Progress
<1> HIDE DEF first
<1>3. step \in [(1 .. m) \X Progress -> Progress]
  BY <1>0, OneRowMoreIs
<1>4. PICK g \in [0 .. m -> Progress] : Computes(g, first, step, m)
  <2> HIDE DEF step
  <2> QED
    BY <1>0, <1>2, <1>3, CountExists
<1>5. \A i \in 0 .. m : g[i] = IF i = 0 THEN first ELSE OneRowMore(g[i - 1], i, m, rate, each)
  <2> SUFFICES ASSUME NEW i \in 0 .. m, i # 0
               PROVE  g[i] = OneRowMore(g[i - 1], i, m, rate, each)
    BY <1>4 DEF Computes
  <2>1. i \in 1 .. m /\ i - 1 \in 0 .. m
    BY <1>0
  <2>2. g[i] = step[<<i, g[i - 1]>>]
    <3> HIDE DEF step
    <3> QED
      BY <1>4 DEF Computes
  <2>3. <<i, g[i - 1]>> \in (1 .. m) \X Progress
    BY <2>1
  <2> QED
    BY <2>2, <2>3
<1>6. Eq(g)
  BY <1>5
<1>7. Eq(f)
  BY <1>6
<1> HIDE DEF f
<1>8. f[0] = first /\ \A i \in 1 .. m : f[i] = OneRowMore(f[i - 1], i, m, rate, each)
  BY <1>0, <1>7
<1>9. \A i \in 0 .. m : f[i] \in Progress
  <2>1. \A i \in 1 .. m : f[i - 1] \in Progress => f[i] \in Progress
    BY <1>0, <1>8, OneRowMoreIs
  <2> QED
    BY <1>0, <1>2, <1>8, <2>1, CountStays
<1>10. f \in [0 .. m -> Progress]
  BY <1>7, <1>9
<1> QED
  BY <1>1, <1>8, <1>10 DEF each, first

(* A schedule of m months has m rows of two amounts each.                    *)
LEMMA ScheduleIs ==
    ASSUME NEW principal \in Fractions, NEW rate \in Rates, NEW m \in Positive
    PROVE  /\ BuildSchedule(principal, rate, m) \in Seq(Installments)
           /\ Len(BuildSchedule(principal, rate, m)) = m
           /\ \A i \in 1 .. m : BuildSchedule(principal, rate, m)[i] \in Installments
<1> DEFINE each == Installment(principal, rate, m)
<1>1. PICK f \in [0 .. m -> Progress] :
          /\ BuildSchedule(principal, rate, m) = f[m].rows
          /\ f[0] = [balance |-> principal, rows |-> << >>]
          /\ \A i \in 1 .. m : f[i] = OneRowMore(f[i - 1], i, m, rate, each)
  BY ScheduleBuilt
<1> HIDE DEF each
<1>0. m \in Nat /\ m \in 0 .. m
  BY DEF Positive
<1> DEFINE G == {i \in 0 .. m : Len(f[i].rows) = i}
<1>2. 0 \in G
  BY <1>0, <1>1
<1>3. ASSUME NEW i \in 0 .. m - 1, i \in G
      PROVE  i + 1 \in G
  <2>1. i + 1 \in 1 .. m /\ (i + 1) - 1 = i /\ i \in 0 .. m
    BY <1>0
  <2>2. f[i].rows \in Seq(Installments)
    BY <2>1 DEF Progress
  <2>3. PICK row : f[i + 1].rows = Append(f[i].rows, row)
    <3>1. f[i + 1] = OneRowMore(f[i], i + 1, m, rate, each)
      BY <1>1, <2>1
    <3> QED
      BY <3>1 DEF OneRowMore
  <2>4. Len(f[i + 1].rows) = Len(f[i].rows) + 1
    BY <2>2, <2>3
  <2> QED
    BY <1>3, <2>1, <2>4
<1> HIDE DEF G
<1>4. m \in G
  BY <1>0, <1>2, <1>3, Counting
<1>5. f[m].rows \in Seq(Installments) /\ Len(f[m].rows) = m
  BY <1>0, <1>4 DEF G, Progress
<1> QED
  BY <1>1, <1>5

(* Each row of a schedule is made of the balance before it.                  *)
LEMMA ScheduleRows ==
    ASSUME NEW principal \in Fractions, NEW rate \in Rates, NEW m \in Positive
    PROVE  LET each == Installment(principal, rate, m)
               rs   == BuildSchedule(principal, rate, m)
           IN  \E f \in [0 .. m -> Fractions] :
                   /\ f[0] = principal
                   /\ \A i \in 1 .. m :
                          /\ rs[i] = RowOn(f[i - 1], each, rate, i = m)
                          /\ f[i] = Minus(f[i - 1], Whole(rs[i].principal))
<1> DEFINE each == Installment(principal, rate, m)
           rs == BuildSchedule(principal, rate, m)
<1>1. PICK p \in [0 .. m -> Progress] :
          /\ rs = p[m].rows
          /\ p[0] = [balance |-> principal, rows |-> << >>]
          /\ \A i \in 1 .. m : p[i] = OneRowMore(p[i - 1], i, m, rate, each)
  BY ScheduleBuilt
<1> HIDE DEF each, rs
<1>2. m \in Nat /\ m \in 0 .. m
  BY DEF Positive
<1> DEFINE f == [i \in 0 .. m |-> p[i].balance]
           row(i) == RowOn(f[i - 1], each, rate, i = m)
<1>3. f \in [0 .. m -> Fractions] /\ f[0] = principal
  BY <1>1, <1>2 DEF Progress
<1>4. \A i \in 1 .. m : /\ p[i].rows = Append(p[i - 1].rows, row(i))
                        /\ f[i] = Minus(f[i - 1], Whole(row(i).principal))
                        /\ p[i - 1].rows \in Seq(Installments)
  <2> SUFFICES ASSUME NEW i \in 1 .. m
               PROVE  /\ p[i].rows = Append(p[i - 1].rows, row(i))
                      /\ f[i] = Minus(f[i - 1], Whole(row(i).principal))
                      /\ p[i - 1].rows \in Seq(Installments)
    OBVIOUS
  <2>1. i \in 0 .. m /\ i - 1 \in 0 .. m
    BY <1>2
  <2>2. f[i] = p[i].balance /\ f[i - 1] = p[i - 1].balance
    BY <2>1
  <2>3. p[i] = OneRowMore(p[i - 1], i, m, rate, each)
    BY <1>1
  <2> HIDE DEF f
  <2> QED
    BY <2>1, <2>2, <2>3 DEF OneRowMore, Progress
<1> HIDE DEF f, row
<1> DEFINE G == {j \in 0 .. m : Len(p[j].rows) = j /\ \A i \in 1 .. j : p[j].rows[i] = row(i)}
<1>5. 0 \in G
  BY <1>1, <1>2
<1>6. ASSUME NEW j \in 0 .. m - 1, j \in G
      PROVE  j + 1 \in G
  <2> DEFINE old == p[j].rows
             new == p[j + 1].rows
  <2>1. j + 1 \in 1 .. m /\ j + 1 \in 0 .. m /\ (j + 1) - 1 = j /\ j \in Nat
    BY <1>2
  <2>2. old \in Seq(Installments) /\ new = Append(old, row(j + 1))
    BY <1>4, <2>1
  <2>3. Len(old) = j /\ \A i \in 1 .. j : old[i] = row(i)
    BY <1>6
  <2> HIDE DEF old, new
  <2>4. Len(new) = j + 1 /\ new[j + 1] = row(j + 1) /\ \A i \in 1 .. j : new[i] = old[i]
    BY <2>1, <2>2, <2>3
  <2>5. \A i \in 1 .. j + 1 : new[i] = row(i)
    BY <2>1, <2>3, <2>4
  <2> QED
    BY <2>1, <2>4, <2>5 DEF new
<1> HIDE DEF G
<1>7. m \in G
  BY <1>2, <1>5, <1>6, Counting
<1>8. \A i \in 1 .. m : rs[i] = row(i)
  BY <1>1, <1>7 DEF G
<1>9. \A i \in 1 .. m : /\ rs[i] = row(i)
                        /\ f[i] = Minus(f[i - 1], Whole(rs[i].principal))
  BY <1>4, <1>8
<1> QED
  BY <1>3, <1>9 DEF row, each, rs

\* the principal of the first i rows
Repaid(rs, i) == SumFunctionOnSet([k \in DOMAIN rs |-> rs[k].principal], 1 .. i)

(* A row more adds its principal to what the rows repay.                     *)
LEMMA RepaidMore ==
    ASSUME NEW rs \in Seq(Installments), NEW row \in Installments, NEW i \in Nat, Len(rs) = i
    PROVE  /\ Repaid(rs, i) \in Int
           /\ Repaid(Append(rs, row), i + 1) = Repaid(rs, i) + row.principal
<1> DEFINE new == Append(rs, row)
           f == [k \in DOMAIN rs |-> rs[k].principal]
           g == [k \in DOMAIN new |-> new[k].principal]
<1>1. /\ DOMAIN rs = 1 .. i /\ DOMAIN new = 1 .. i + 1
      /\ new[i + 1] = row /\ \A k \in 1 .. i : new[k] = rs[k]
      /\ \A k \in 1 .. i : rs[k] \in Installments
  OBVIOUS
<1>2. \A k \in 1 .. i : f[k] \in Int /\ f[k] = g[k]
  <2> SUFFICES ASSUME NEW k \in 1 .. i
               PROVE  f[k] \in Int /\ f[k] = g[k]
    OBVIOUS
  <2>1. k \in 1 .. i + 1
    OBVIOUS
  <2>2. f[k] = rs[k].principal /\ g[k] = rs[k].principal
    BY <1>1, <2>1
  <2>3. rs[k].principal \in Int
    BY <1>1 DEF Installments
  <2> QED
    BY <2>2, <2>3
<1>3. g[i + 1] = row.principal /\ row.principal \in Int
  <2>1. i + 1 \in 1 .. i + 1
    OBVIOUS
  <2> QED
    BY <1>1, <2>1 DEF Installments
<1> HIDE DEF f, g
<1>4. IsFiniteSet(1 .. i) /\ i + 1 \notin 1 .. i /\ 1 .. i + 1 = (1 .. i) \cup {i + 1}
  <2>1. IsFiniteSet(1 .. i)
    BY FS_Interval
  <2>2. i + 1 \notin 1 .. i /\ 1 .. i + 1 = (1 .. i) \cup {i + 1}
    OBVIOUS
  <2> QED
    BY <2>1, <2>2
<1>5. SumFunctionOnSet(f, 1 .. i) = SumFunctionOnSet(g, 1 .. i)
  BY <1>2, <1>4, SumSame
<1>6. SumFunctionOnSet(g, (1 .. i) \cup {i + 1}) = g[i + 1] + SumFunctionOnSet(g, 1 .. i)
  <2>1. \A k \in (1 .. i) \cup {i + 1} : g[k] \in Int
    BY <1>2, <1>3
  <2> DEFINE S == 1 .. i
             x == i + 1
  <2>2. IsFiniteSet(S) /\ x \notin S /\ \A k \in S \cup {x} : g[k] \in Int
    BY <1>4, <2>1
  <2> HIDE DEF S, x
  <2>3. SumFunctionOnSet(g, S \cup {x}) = g[x] + SumFunctionOnSet(g, S)
    BY <2>2, SumAdd
  <2> QED
    BY <2>3 DEF S, x
<1>7. SumFunctionOnSet(f, 1 .. i) \in Int
  BY <1>2, <1>4, SumTerms
<1>8. Repaid(rs, i) = SumFunctionOnSet(f, 1 .. i)
  BY DEF Repaid, f
<1>9. Repaid(new, i + 1) = SumFunctionOnSet(g, (1 .. i) \cup {i + 1})
  BY <1>4 DEF Repaid, g
<1> HIDE DEF new
<1>10. Repaid(new, i + 1) = Repaid(rs, i) + row.principal
  BY <1>3, <1>5, <1>6, <1>7, <1>8, <1>9
<1> QED
  BY <1>7, <1>8, <1>10 DEF new

(* Every schedule repays its principal: what its rows ask for is the         *)
(* principal to within half a cent, and a principal in cents to the cent,    *)
(* whatever the rate and the term and however the installments were rounded  *)
(* (build_reducing_balance_schedule clears the balance with its last row).   *)
THEOREM SchedulesRepayPrincipal ==
    ASSUME NEW principal \in Fractions, NEW rate \in Rates, NEW m \in Positive
    PROVE  LET total == Repaid(BuildSchedule(principal, rate, m), m)
           IN  /\ total \in Int
               /\ 2 * (total * principal.den) - 2 * principal.num <= principal.den
               /\ 2 * principal.num - 2 * (total * principal.den) <= principal.den
<1> DEFINE each == Installment(principal, rate, m)
<1>1. PICK f \in [0 .. m -> Progress] :
          /\ BuildSchedule(principal, rate, m) = f[m].rows
          /\ f[0] = [balance |-> principal, rows |-> << >>]
          /\ \A i \in 1 .. m : f[i] = OneRowMore(f[i - 1], i, m, rate, each)
  BY ScheduleBuilt
<1>2. each \in Fractions /\ m \in Nat /\ m \in 0 .. m
  BY InstallmentIs DEF Positive
<1> HIDE DEF each
<1> DEFINE P == principal.num
           D == principal.den
           Total(i) == Repaid(f[i].rows, i)
           G == {i \in 0 .. m : /\ Len(f[i].rows) = i /\ Total(i) \in Int
                                /\ f[i].balance.den = D
                                /\ f[i].balance.num = P - Total(i) * D}
<1>3. P \in Int /\ D \in Positive
  BY DEF Fractions, Positive
<1>4. 0 \in G
  <2>1. f[0].balance = principal /\ f[0].rows = << >>
    BY <1>1
  <2>2. Total(0) = 0
    <3>1. 1 .. 0 = {}
      OBVIOUS
    <3> QED
      BY <3>1, SumEmpty DEF Repaid
  <2>3. P = P - 0 * D
    BY <1>3 DEF Positive
  <2> HIDE DEF P, D, Total
  <2>4. Len(f[0].rows) = 0 /\ f[0].balance.den = D /\ f[0].balance.num = P
    BY <2>1 DEF P, D
  <2> QED
    BY <1>2, <2>2, <2>3, <2>4
\* the step to row i + 1, and how far its principal takes the balance
<1>5. ASSUME NEW i \in 0 .. m - 1, i \in G
      PROVE  LET row == RowOn(f[i].balance, each, rate, i + 1 = m)
             IN  /\ row \in Installments
                 /\ Len(f[i + 1].rows) = i + 1
                 /\ Total(i + 1) = Total(i) + row.principal
                 /\ f[i + 1].balance.den = D
                 /\ f[i + 1].balance.num = P - Total(i + 1) * D
  <2> DEFINE row == RowOn(f[i].balance, each, rate, i + 1 = m)
             pr == row.principal
  <2>1. i + 1 \in 1 .. m /\ (i + 1) - 1 = i /\ i \in 0 .. m /\ i \in Nat
    BY <1>2
  <2>2. f[i].balance \in Fractions /\ f[i].rows \in Seq(Installments) /\ Len(f[i].rows) = i
    BY <1>5, <2>1 DEF Progress
  <2>3. row \in Installments
    BY <1>2, <2>2, RowIs
  <2>4. /\ f[i + 1].rows = Append(f[i].rows, row)
        /\ f[i + 1].balance = Minus(f[i].balance, Whole(pr))
    <3>1. f[i + 1] = OneRowMore(f[i], i + 1, m, rate, each)
      BY <1>1, <2>1
    <3> QED
      BY <3>1 DEF OneRowMore
  <2> HIDE DEF row
  <2>5. pr \in Int
    BY <2>3 DEF Installments
  <2>6. Total(i + 1) = Total(i) + pr /\ Total(i) \in Int /\ Len(f[i + 1].rows) = i + 1
    BY <2>1, <2>2, <2>3, <2>4, RepaidMore
  <2>7. f[i].balance.den = D /\ f[i].balance.num = P - Total(i) * D
    BY <1>5
  <2> HIDE DEF P, D, Total, pr
  <2>8. /\ f[i + 1].balance.den = D
        /\ f[i + 1].balance.num = (P - Total(i) * D) - pr * D
    <3>1. /\ f[i + 1].balance.den = f[i].balance.den
          /\ f[i + 1].balance.num = f[i].balance.num - pr * f[i].balance.den
      BY <2>2, <2>4, <2>5, MinusWhole, ZenonT(40)
    <3> QED
      BY <2>7, <3>1
  <2>9. (P - Total(i) * D) - pr * D = P - Total(i + 1) * D
    <3>1. (Total(i) + pr) * D = Total(i) * D + pr * D
      BY <1>3, <2>5, <2>6 DEF Positive
    <3>2. Total(i) * D \in Int /\ pr * D \in Int
      BY <1>3, <2>5, <2>6 DEF Positive
    <3> QED
      BY <1>3, <2>6, <3>1, <3>2
  <2> QED
    BY <2>3, <2>6, <2>8, <2>9 DEF row, pr
<1>6. \A i \in 0 .. m - 1 : i \in G => i + 1 \in G
  <2> SUFFICES ASSUME NEW i \in 0 .. m - 1, i \in G
               PROVE  i + 1 \in G
    OBVIOUS
  <2> DEFINE row == RowOn(f[i].balance, each, rate, i + 1 = m)
  <2>1. /\ row \in Installments /\ Len(f[i + 1].rows) = i + 1
        /\ Total(i + 1) = Total(i) + row.principal
        /\ f[i + 1].balance.den = D
        /\ f[i + 1].balance.num = P - Total(i + 1) * D
    BY <1>5
  <2>2. i + 1 \in 0 .. m /\ Total(i) \in Int
    BY <1>2
  <2> HIDE DEF row, Total, P, D
  <2>3. Total(i + 1) \in Int
    BY <2>1, <2>2 DEF Installments
  <2> QED
    BY <2>1, <2>2, <2>3
<1> HIDE DEF G
\* the last row clears the balance
<1> DEFINE k == m - 1
           last == RowOn(f[k].balance, each, rate, TRUE)
<1>7. k \in 0 .. m - 1 /\ k \in Nat /\ k + 1 = m
  BY <1>2 DEF Positive
<1>8. k \in G
  <2>1. \A i \in 0 .. k - 1 : i \in G => i + 1 \in G
    BY <1>6, <1>7
  <2> HIDE DEF k
  <2> QED
    BY <1>4, <1>7, <2>1, Counting
<1>9. Total(m) = Total(k) + last.principal
  <2>1. (k + 1 = m) = TRUE
    BY <1>7
  <2> HIDE DEF Total, P, D, k
  <2>2. Total(k + 1) = Total(k) + RowOn(f[k].balance, each, rate, k + 1 = m).principal
    BY <1>5, <1>7, <1>8
  <2> QED
    BY <1>7, <2>1, <2>2
<1>10. last.principal = Cents(f[k].balance)
  BY DEF RowOn
<1>11. /\ f[k].balance \in Fractions /\ Total(k) \in Int
       /\ f[k].balance.den = D /\ f[k].balance.num = P - Total(k) * D
  <2>1. k \in 0 .. m
    BY <1>7
  <2> QED
    BY <1>8, <2>1 DEF G, Progress
<1> DEFINE c == Cents(f[k].balance)
<1>12. /\ c \in Int
       /\ 2 * (c * D) - 2 * (P - Total(k) * D) <= D
       /\ 2 * (P - Total(k) * D) - 2 * (c * D) <= D
  <2> HIDE DEF k, P, D, Total
  <2> QED
    BY <1>11, CentsNear
<1>13. Total(m) = Total(k) + c
  BY <1>9, <1>10
<1> HIDE DEF c, k, last, P, D, Total
<1>14. Total(m) * D = Total(k) * D + c * D
  BY <1>3, <1>11, <1>12, <1>13 DEF Positive
<1>15. Total(k) * D \in Int /\ c * D \in Int /\ D \in Int
  BY <1>3, <1>11, <1>12 DEF Positive
<1>16. /\ Total(m) \in Int
       /\ 2 * (Total(m) * D) - 2 * P <= D
       /\ 2 * P - 2 * (Total(m) * D) <= D
  <2>1. \A p, d, x, y, z \in Int :
            z = x + y /\ 2 * y - 2 * (p - x) <= d /\ 2 * (p - x) - 2 * y <= d
                => 2 * z - 2 * p <= d /\ 2 * p - 2 * z <= d
    OBVIOUS
  <2>2. Total(m) * D \in Int
    BY <1>14, <1>15
  <2>3. Total(m) \in Int
    BY <1>11, <1>12, <1>13
  <2> QED
    BY <1>3, <1>12, <1>14, <1>15, <2>1, <2>2, <2>3
<1>17. Repaid(BuildSchedule(principal, rate, m), m) = Total(m)
  BY <1>1 DEF Total
<1> QED
  BY <1>16, <1>17 DEF P, D

(* A loan's first schedule, whose principal is in cents, repays exactly that.*)
LEMMA SchedulesOfCents ==
    ASSUME NEW n \in Int, NEW rate \in Rates, NEW m \in Positive
    PROVE  Repaid(BuildSchedule(Whole(n), rate, m), m) = n
<1> DEFINE total == Repaid(BuildSchedule(Whole(n), rate, m), m)
<1>1. Whole(n) \in Fractions /\ Whole(n).num = n /\ Whole(n).den = 1
  BY FractionsClosed DEF Whole, Frac
<1>2. /\ total \in Int
      /\ 2 * (total * Whole(n).den) - 2 * Whole(n).num <= Whole(n).den
      /\ 2 * Whole(n).num - 2 * (total * Whole(n).den) <= Whole(n).den
  BY <1>1, SchedulesRepayPrincipal
<1> HIDE DEF total
<1>3. total * 1 = total
  BY <1>2
<1>4. total = n
  BY <1>1, <1>2, <1>3
<1> QED
  BY <1>4 DEF total

(* A schedule is one of a reducing balance, whatever is rounded: every row   *)
(* but the last asks for the installment rounded to cents, of which its      *)
(* principal is never negative, and no row asks for more interest than the   *)
(* row before. What is rounded in each month may add up, and the last row    *)
(* asks for the rest: with a principal of few cents a month, less than zero. *)
LEMMA SchedulesReduce ==
    ASSUME NEW principal \in Fractions, principal.num >= 0,
           NEW rate \in Rates, NEW m \in Positive
    PROVE  LET rs   == BuildSchedule(principal, rate, m)
               each == Cents(Installment(principal, rate, m))
           IN  /\ \A i \in 1 .. m - 1 :
                      rs[i].principal >= 0 /\ rs[i].principal + rs[i].interest = each
               /\ \A i \in 2 .. m : rs[i].interest <= rs[i - 1].interest
<1> DEFINE each == Installment(principal, rate, m)
           rs == BuildSchedule(principal, rate, m)
<1>1. PICK f \in [0 .. m -> Fractions] :
          /\ f[0] = principal
          /\ \A i \in 1 .. m : /\ rs[i] = RowOn(f[i - 1], each, rate, i = m)
                               /\ f[i] = Minus(f[i - 1], Whole(rs[i].principal))
  BY ScheduleRows
<1>2. /\ each \in Fractions /\ each.num >= 0
      /\ 2 * (Cents(Times(principal, rate)) * each.den) < 2 * each.num + each.den
      /\ m \in Nat
  BY InstallmentIs, InstallmentCovers DEF Positive
<1> HIDE DEF each, rs
\* the balance, over the principal's denominator, does not grow
<1> DEFINE Below(i) == f[i].den = principal.den /\ f[i].num <= principal.num
           G == {i \in 0 .. m : i < m => Below(i)}
<1>3. ASSUME NEW i \in 0 .. m - 1, Below(i)
      PROVE  LET row == RowOn(f[i], each, rate, i + 1 = m)
             IN  /\ row.interest = Cents(Times(f[i], rate))
                 /\ i + 1 < m => /\ row.principal >= 0
                                 /\ row.principal + row.interest = Cents(each)
                                 /\ f[i + 1].den = f[i].den
                                 /\ f[i + 1].num <= f[i].num
  <2> DEFINE row == RowOn(f[i], each, rate, i + 1 = m)
             k == Cents(Times(f[i], rate))
  <2>1. i \in 0 .. m /\ i + 1 \in 1 .. m /\ (i + 1) - 1 = i
    BY <1>2
  <2>2. f[i] \in Fractions /\ rs[i + 1] = row /\ f[i + 1] = Minus(f[i], Whole(row.principal))
    BY <1>1, <2>1
  <2>3. row.interest = k
    BY DEF RowOn
  <2>4. /\ k \in Int /\ Cents(Times(principal, rate)) \in Int
        /\ k <= Cents(Times(principal, rate))
    BY <1>3, <2>2, InterestGrows
  <2>5. ASSUME i + 1 < m
        PROVE  /\ row.principal >= 0 /\ row.principal + row.interest = Cents(each)
               /\ f[i + 1].den = f[i].den /\ f[i + 1].num <= f[i].num
    <3> DEFINE pr == row.principal
    <3>1. pr = Cents(Minus(each, Whole(k)))
      BY <2>1, <2>5 DEF RowOn
    <3> HIDE DEF row, k
    <3>2. 2 * (k * each.den) < 2 * each.num + each.den
      <4> DEFINE top == Cents(Times(principal, rate))
      <4>1. top \in Int /\ k <= top
        BY <2>4
      <4>2. 2 * (top * each.den) < 2 * each.num + each.den
        BY <1>2
      <4>3. each.den \in Positive /\ each.num \in Int
        BY <1>2 DEF Fractions, Positive
      <4> HIDE DEF top
      <4>4. k * each.den <= top * each.den /\ k * each.den \in Int /\ top * each.den \in Int
        <5>1. CASE k = top
          BY <2>4, <4>1, <4>3, <5>1 DEF Positive
        <5>2. CASE k < top
          BY <2>4, <4>1, <4>3, <5>2, RoomForOne DEF Positive
        <5> QED
          BY <2>4, <4>1, <5>1, <5>2
      <4> QED
        BY <4>2, <4>3, <4>4 DEF Positive
    <3>3. Cents(each) \in Int /\ pr = Cents(each) - k /\ pr >= 0
      BY <1>2, <2>4, <3>1, <3>2, CentsLess, CentsBetween
    <3>4. pr \in Int
      BY <2>4, <3>3
    <3> HIDE DEF pr
    <3>5. f[i + 1].den = f[i].den /\ f[i + 1].num = f[i].num - pr * f[i].den
      <4>1. f[i + 1] = Minus(f[i], Whole(pr))
        BY <2>2 DEF pr
      <4> QED
        BY <2>2, <3>4, <4>1, MinusWhole
    <3>6. f[i].num \in Int /\ f[i].den \in Nat /\ pr * f[i].den \in Nat
      BY <2>2, <3>3, <3>4 DEF Fractions
    <3>7. f[i + 1].num <= f[i].num
      BY <3>5, <3>6
    <3>8. pr + k = Cents(each)
      BY <2>4, <3>3
    <3> QED
      BY <2>3, <3>3, <3>5, <3>7, <3>8 DEF pr
  <2> QED
    BY <2>3, <2>5
<1>4. 0 \in G
  BY <1>1, <1>2 DEF Fractions
<1>5. ASSUME NEW i \in 0 .. m - 1, i \in G
      PROVE  i + 1 \in G
  <2>1. i + 1 \in 0 .. m /\ i < m /\ Below(i) /\ i \in 0 .. m
    BY <1>2, <1>5
  <2>2. ASSUME i + 1 < m
        PROVE  Below(i + 1)
    <3>1. f[i + 1].den = f[i].den /\ f[i + 1].num <= f[i].num
      BY <1>3, <2>1, <2>2
    <3>2. f[i].num \in Int /\ f[i + 1].num \in Int /\ principal.num \in Int
      BY <2>1 DEF Fractions
    <3> QED
      BY <2>1, <3>1, <3>2
  <2> HIDE DEF Below
  <2> QED
    BY <2>1, <2>2
<1> HIDE DEF G
<1>6. m \in G /\ \A i \in 0 .. m : i \in G
  BY <1>2, <1>4, <1>5, Counting
<1>7. \A i \in 0 .. m - 1 : Below(i)
  BY <1>2, <1>6 DEF G
<1>8. ASSUME NEW i \in 1 .. m - 1
      PROVE  rs[i].principal >= 0 /\ rs[i].principal + rs[i].interest = Cents(each)
  <2> DEFINE j == i - 1
  <2>1. j \in 0 .. m - 1 /\ j + 1 = i /\ i < m /\ i \in 1 .. m
    BY <1>2
  <2>2. rs[i] = RowOn(f[j], each, rate, i = m)
    BY <1>1, <2>1
  <2> HIDE DEF j, Below
  <2> QED
    BY <1>3, <1>7, <2>1, <2>2
<1>9. ASSUME NEW i \in 2 .. m
      PROVE  rs[i].interest <= rs[i - 1].interest
  <2> DEFINE j == i - 1
             k == i - 2
  <2>1. /\ j \in 0 .. m - 1 /\ j + 1 = i /\ i \in 1 .. m
        /\ k \in 0 .. m - 1 /\ k + 1 = j /\ j < m /\ j \in 1 .. m /\ j - 1 = k
        /\ j \in 0 .. m /\ k \in 0 .. m
    BY <1>2
  <2>2. rs[i] = RowOn(f[j], each, rate, i = m) /\ rs[j] = RowOn(f[k], each, rate, j = m)
    BY <1>1, <2>1
  <2>3. f[j].den = f[k].den /\ f[j].num <= f[k].num /\ f[j] \in Fractions /\ f[k] \in Fractions
    <3> HIDE DEF j, k, Below
    <3> QED
      BY <1>3, <1>7, <2>1
  <2>4. rs[i].interest = Cents(Times(f[j], rate)) /\ rs[j].interest = Cents(Times(f[k], rate))
    BY <2>2 DEF RowOn
  <2> QED
    BY <2>3, <2>4, InterestGrows
<1> QED
  BY <1>8, <1>9 DEF each, rs

-----------------------------------------------------------------------------
(* What rounding comes to                                                   *)

\* x is within d of y
Within(x, y, d) == x - y <= d /\ y - x <= d

\* powers of n, from the first to the m-th
PowersOf(f, n, m) ==
    f \in [0 .. m -> Positive] /\ f[0] = 1 /\ \A i \in 1 .. m : f[i] = n * f[i - 1]

(* A step later: what is off has grown with the rate, and by h times the     *)
(* power p of b, which is no more than the power q of b + a.                 *)
LEMMA ErrorGrows ==
    ASSUME NEW a \in Nat, NEW b \in Nat, NEW h \in Nat, NEW k \in Nat,
           NEW p \in Nat, NEW q \in Nat, p <= q, NEW x \in Int, NEW y \in Int,
           Within(x, 0, h * (k * q)), Within(y, (b + a) * x, h * (b * p))
    PROVE  /\ b * p <= (b + a) * q
           /\ Within(y, 0, h * ((k + 1) * ((b + a) * q)))
<1> DEFINE n == b + a
           off == h * (k * q)
           r == b * p
           s == n * q
<1>1. \A c, d \in Nat : c * d \in Nat
  OBVIOUS
<1>2. n \in Nat /\ off \in Nat /\ r \in Nat /\ s \in Nat /\ h * r \in Nat /\ h * s \in Nat
  <2>1. n \in Nat
    OBVIOUS
  <2> HIDE DEF n
  <2>2. k * q \in Nat /\ r \in Nat /\ s \in Nat
    BY <1>1, <2>1
  <2> DEFINE kq == k * q
  <2> HIDE DEF kq, r, s
  <2>3. h * kq \in Nat /\ h * r \in Nat /\ h * s \in Nat
    BY <1>1, <2>2 DEF kq
  <2> QED
    BY <2>1, <2>2, <2>3 DEF kq
<1>3. r <= s
  <2> DEFINE u == p * b
             v == q * b
             w == a * q
  <2>1. u \in Int /\ v \in Int /\ u <= v
    BY TimesGrows
  <2>2. w \in Nat
    BY <1>1
  <2>3. r = u /\ s = v + w
    OBVIOUS
  <2> HIDE DEF u, v, w, r, s
  <2> QED
    BY <2>1, <2>2, <2>3
<1>4. h * r <= h * s
  <2> HIDE DEF r, s
  <2>1. r * h <= s * h
    BY <1>2, <1>3, TimesGrows
  <2>2. r * h = h * r /\ s * h = h * s
    BY <1>2
  <2> QED
    BY <2>1, <2>2
<1>5. n * x \in Int /\ n * off \in Nat /\ Within(n * x, 0, n * off)
  <2>1. Within(x, 0, off) /\ Within(y, n * x, h * r)
    OBVIOUS
  <2> HIDE DEF n, off
  <2>2. x \in Int /\ off \in Int /\ - off \in Int /\ x <= off /\ - off <= x
    BY <1>2, <2>1 DEF Within
  <2>3. x * n <= off * n /\ (- off) * n <= x * n
    BY <1>2, <2>2, TimesGrows
  <2>4. /\ n * x \in Int /\ n * off \in Nat
        /\ x * n = n * x /\ off * n = n * off /\ (- off) * n = - (n * off)
    <3>1. n * off \in Nat
      BY <1>1, <1>2
    <3>2. n * x \in Int /\ x * n = n * x /\ off * n = n * off
      BY <1>2
    <3>3. (- off) * n = - (n * off)
      BY <1>2
    <3> QED
      BY <3>1, <3>2, <3>3
  <2> DEFINE u == n * x
             v == n * off
  <2>5. u \in Int /\ v \in Nat /\ u <= v /\ - v <= u
    BY <2>3, <2>4
  <2> HIDE DEF u, v
  <2>6. Within(u, 0, v)
    BY <2>5 DEF Within
  <2> QED
    BY <2>5, <2>6 DEF u, v
<1>6. h * ((k + 1) * s) = n * off + h * s
  <2>1. n * (h * (k * q)) = h * (k * (n * q))
    <3>1. n \in Int
      BY <1>2
    <3> HIDE DEF n
    <3> QED
      BY <3>1
  <2>2. h * ((k + 1) * s) = h * (k * s) + h * s
    <3> HIDE DEF s
    <3> QED
      BY <1>2
  <2> QED
    BY <2>1, <2>2
<1> DEFINE u == n * x
           v == n * off
           w == h * r
           z == h * s
<1>7. /\ u \in Int /\ v \in Nat /\ w \in Nat /\ z \in Nat /\ w <= z
      /\ Within(u, 0, v) /\ Within(y, u, w)
  BY <1>2, <1>4, <1>5
<1>8. h * ((k + 1) * s) = v + z
  BY <1>6
<1> HIDE DEF u, v, w, z
<1>9. Within(y, 0, v + z)
  BY <1>7 DEF Within
<1>10. Within(y, 0, h * ((k + 1) * s))
  <2> HIDE DEF s
  <2> QED
    BY <1>8, <1>9
<1> QED
  BY <1>3, <1>10

(* What is off by no more than what a power of b comes to in each of m       *)
(* steps, and grows with every step by what b + a is to b, is off by no more *)
(* than m times the power of b + a in the end.                               *)
LEMMA ErrorsCompound ==
    ASSUME NEW a \in Nat, NEW b \in Positive, NEW m \in Nat, NEW h \in Nat,
           NEW f, PowersOf(f, b, m), NEW g, PowersOf(g, b + a, m),
           NEW x \in [0 .. m -> Int], x[0] = 0,
           \A i \in 1 .. m : Within(x[i], (b + a) * x[i - 1], h * f[i])
    PROVE  Within(x[m], 0, h * (m * g[m]))
<1> DEFINE G == {i \in 0 .. m : Within(x[i], 0, h * (i * g[i])) /\ f[i] <= g[i]}
<1>1. 0 \in G
  <2>1. f[0] = 1 /\ g[0] = 1
    BY DEF PowersOf
  <2>2. h * (0 * 1) = 0
    OBVIOUS
  <2>3. Within(x[0], 0, h * (0 * g[0]))
    BY <2>1, <2>2 DEF Within
  <2> QED
    BY <2>1, <2>3
<1>2. ASSUME NEW i \in 0 .. m - 1, i \in G
      PROVE  i + 1 \in G
  <2>1. /\ i \in 0 .. m /\ i + 1 \in 0 .. m /\ i + 1 \in 1 .. m /\ (i + 1) - 1 = i
        /\ i \in Nat /\ b \in Nat
    BY DEF Positive
  <2> DEFINE j == i + 1
             p == f[i]
             q == g[i]
  <2>2. p \in Nat /\ q \in Nat /\ x[i] \in Int /\ x[j] \in Int
    BY <2>1 DEF PowersOf, Positive
  <2>3. f[j] = b * p /\ g[j] = (b + a) * q
    BY <2>1 DEF PowersOf
  <2>4. p <= q /\ Within(x[i], 0, h * (i * q))
    BY <1>2
  <2>5. Within(x[j], (b + a) * x[i], h * (b * p))
    BY <2>1, <2>3
  <2> HIDE DEF p, q, G
  <2>6. /\ b * p <= (b + a) * q
        /\ Within(x[j], 0, h * (j * ((b + a) * q)))
    <3> DEFINE y == x[i]
               z == x[j]
    <3>1. y \in Int /\ z \in Int /\ Within(y, 0, h * (i * q)) /\ Within(z, (b + a) * y, h * (b * p))
      BY <2>2, <2>4, <2>5
    <3> HIDE DEF y, z
    <3>2. /\ b * p <= (b + a) * q
          /\ Within(z, 0, h * ((i + 1) * ((b + a) * q)))
      BY <2>1, <2>2, <2>4, <3>1, ErrorGrows
    <3> QED
      BY <3>2 DEF z
  <2>7. f[j] <= g[j] /\ Within(x[j], 0, h * (j * g[j]))
    BY <2>3, <2>6
  <2> QED
    BY <2>1, <2>7 DEF G
<1> HIDE DEF G
<1>3. m \in G
  BY <1>1, <1>2, Counting
<1> QED
  BY <1>3 DEF G

(* The annuity, not rounded, would clear the balance: what would be left,    *)
(* over the power of the rate's denominator and that of the annuity, is      *)
(* nothing after m months.                                                   *)
LEMMA AnnuityClears ==
    ASSUME NEW n \in Int, NEW rate \in Rates, NEW m \in Positive,
           NEW f, PowersOf(f, rate.den, m), f[m] = Power(rate.den, m),
           NEW g, PowersOf(g, rate.den + rate.num, m), g[m] = Power(rate.den + rate.num, m)
    PROVE  LET each == Installment(Whole(n), rate, m)
           IN  \E left \in [0 .. m -> Int] :
                   /\ left[0] = n * each.den /\ left[m] = 0
                   /\ \A i \in 1 .. m :
                          left[i] = (rate.den + rate.num) * left[i - 1] - f[i] * each.num
<1> DEFINE a == rate.num
           b == rate.den
           each == Installment(Whole(n), rate, m)
<1>1. a \in Nat /\ b \in Positive /\ b \in Nat /\ m \in Nat /\ m \in 0 .. m
  BY DEF Rates, Positive
<1>2. \A i \in 0 .. m : f[i] \in Nat /\ g[i] \in Nat /\ f[i] \in Int /\ g[i] \in Int
  BY DEF PowersOf, Positive
<1>3. \A i \in 1 .. m : /\ i - 1 \in 0 .. m /\ i \in 0 .. m /\ i \in Int
                        /\ f[i] = b * f[i - 1] /\ g[i] = (b + a) * g[i - 1]
  BY <1>1 DEF PowersOf
<1>4. f[0] = 1 /\ g[0] = 1 /\ f[m] = Power(b, m) /\ g[m] = Power(b + a, m)
  BY DEF PowersOf
<1>5. CASE a = 0
  <2>1. each.num = n /\ each.den = m
    <3>1. each = Frac(n * 1, 1 * m)
      BY <1>5 DEF Installment, Whole, Times, Frac
    <3>2. n * 1 = n /\ 1 * m = m
      BY <1>1
    <3> QED
      BY <3>1, <3>2 DEF Frac
  <2> HIDE DEF each, a, b
  <2> DEFINE left == [i \in 0 .. m |-> f[i] * (n * (m - i))]
  <2>2. ASSUME NEW y \in Int, NEW i \in Int
        PROVE  y * (n * (m - i)) \in Int
    <3>1. n * (m - i) \in Int
      BY <1>1, <2>2
    <3> QED
      BY <2>2, <3>1
  <2>3. left \in [0 .. m -> Int]
    <3>1. ASSUME NEW i \in 0 .. m
          PROVE  f[i] * (n * (m - i)) \in Int
      <4>1. f[i] \in Int /\ i \in Int
        BY <1>2
      <4> QED
        BY <2>2, <4>1
    <3> QED
      BY <3>1
  <2>4. left[0] = n * m /\ left[m] = 0
    <3>1. left[0] = 1 * (n * (m - 0)) /\ left[m] = f[m] * (n * (m - m))
      BY <1>1, <1>4
    <3>2. f[m] \in Int /\ \A y \in Int : y * (n * 0) = 0
      BY <1>1, <1>2
    <3> QED
      BY <1>1, <3>1, <3>2
  <2>5. ASSUME NEW i \in 1 .. m
        PROVE  left[i] = (b + a) * left[i - 1] - f[i] * n
    <3> DEFINE y == f[i - 1]
    <3>1. y \in Int /\ f[i] = b * y /\ i \in Int /\ b + a = b
      BY <1>1, <1>2, <1>3, <1>5
    <3>2. left[i] = (b * y) * (n * (m - i)) /\ left[i - 1] = y * (n * (m - (i - 1)))
      BY <1>3, <3>1
    <3> HIDE DEF y, left
    <3>3. (b * y) * (n * (m - i)) = b * (y * (n * (m - (i - 1)))) - (b * y) * n
      <4> DEFINE k == m - i
      <4>1. k \in Int /\ m - (i - 1) = k + 1
        BY <1>1, <3>1
      <4> HIDE DEF k
      <4>2. (b * y) * (n * k) = b * (y * (n * (k + 1))) - (b * y) * n
        BY <1>1, <3>1, <4>1
      <4> QED
        BY <4>1, <4>2 DEF k
    <3> QED
      BY <3>1, <3>2, <3>3
  <2> HIDE DEF left
  <2> QED
    BY <2>1, <2>3, <2>4, <2>5 DEF each, a, b
<1>6. CASE a # 0
  <2> DEFINE top == g[m]
             flat == f[m]
  <2>1. /\ top \in Int /\ flat \in Int
        /\ each.num = n * (a * top) /\ each.den = b * (top - flat)
    <3>1. each = Frac(n * (a * top), 1 * (b * (top - flat)))
      BY <1>4, <1>6 DEF Installment, Whole, Times, Frac
    <3>2. top \in Int /\ flat \in Int
      BY <1>1, <1>2
    <3> HIDE DEF top, flat, each
    <3>3. 1 * (b * (top - flat)) = b * (top - flat)
      <4>1. b * (top - flat) \in Int
        BY <1>1, <3>2
      <4> QED
        BY <4>1
    <3> QED
      BY <3>1, <3>2, <3>3 DEF Frac
  <2> DEFINE More(y, z) == b * (n * (top * y - flat * z))
             left == [i \in 0 .. m |-> More(f[i], g[i])]
  <2>2. ASSUME NEW y \in Int, NEW z \in Int
        PROVE  /\ More(y, z) \in Int
               /\ More(b * y, (b + a) * z) = (b + a) * More(y, z) - (b * y) * (n * (a * top))
    <3> HIDE DEF top, flat, a, b
    <3>1. top * y \in Int /\ flat * z \in Int
      BY <2>1, <2>2
    <3>2. n * (top * y - flat * z) \in Int
      BY <2>1, <2>2, <3>1
    <3>3. More(y, z) \in Int
      BY <1>1, <3>2
    <3>4. b * (n * (top * (b * y) - flat * ((b + a) * z)))
              = (b + a) * (b * (n * (top * y - flat * z))) - (b * y) * (n * (a * top))
      <4> USE <1>1, <2>1, <2>2
      <4> DEFINE u == top * y
                 v == flat * z
      <4>1. top * (b * y) = b * u /\ flat * ((b + a) * z) = (b + a) * v
            /\ (b * y) * (n * (a * top)) = b * (n * (a * u))
        OBVIOUS
      <4>2. u \in Int /\ v \in Int
        BY <3>1
      <4> HIDE DEF u, v
      <4>3. b * (n * (b * u - (b + a) * v)) = (b + a) * (b * (n * (u - v))) - b * (n * (a * u))
        BY <4>2
      <4> QED
        BY <4>1, <4>3 DEF u, v
    <3> QED
      BY <3>3, <3>4
  <2> HIDE DEF each, a, b
  <2>3. left \in [0 .. m -> Int]
    BY <1>2, <2>2
  <2>4. left[0] = n * each.den /\ left[m] = 0
    <3>1. left[0] = More(1, 1) /\ left[m] = More(flat, top)
      BY <1>1, <1>4
    <3> HIDE DEF left, top, flat
    <3>2. b * (n * (top * 1 - flat * 1)) = n * (b * (top - flat))
      <4>1. top * 1 = top /\ flat * 1 = flat /\ top - flat \in Int
        BY <2>1
      <4> DEFINE d == top - flat
      <4> HIDE DEF d
      <4>2. b * (n * d) = n * (b * d)
        BY <1>1, <4>1 DEF d
      <4> QED
        BY <4>1, <4>2 DEF d
    <3>3. b * (n * (top * flat - flat * top)) = 0
      <4>1. top * flat - flat * top = 0
        BY <2>1
      <4>2. b * (n * 0) = 0
        BY <1>1
      <4> QED
        BY <4>1, <4>2
    <3> QED
      BY <2>1, <3>1, <3>2, <3>3
  <2>5. ASSUME NEW i \in 1 .. m
        PROVE  left[i] = (b + a) * left[i - 1] - f[i] * (n * (a * top))
    <3>1. f[i - 1] \in Int /\ g[i - 1] \in Int
          /\ f[i] = b * f[i - 1] /\ g[i] = (b + a) * g[i - 1]
      BY <1>2, <1>3
    <3>2. left[i] = More(f[i], g[i]) /\ left[i - 1] = More(f[i - 1], g[i - 1])
      BY <1>3
    <3> HIDE DEF left, More, top
    <3> QED
      BY <2>2, <3>1, <3>2
  <2> HIDE DEF left, top
  <2> QED
    BY <2>1, <2>3, <2>4, <2>5 DEF each, a, b
<1> QED
  BY <1>5, <1>6

(* The balance of a principal in cents stays in cents, as what the           *)
(* installments, rounded, leave of it; x[m] is what the last row asks for    *)
(* less the installment.                                                     *)
LEMMA BalancesOfCents ==
    ASSUME NEW n \in Nat, NEW rate \in Rates, NEW m \in Positive
    PROVE  LET rs   == BuildSchedule(Whole(n), rate, m)
               each == Cents(Installment(Whole(n), rate, m))
           IN  \E x \in [0 .. m -> Int] :
                   /\ x[0] = n /\ rs[m].principal = x[m - 1]
                   /\ \A i \in 1 .. m :
                          /\ rs[i].interest = Cents(Times(Whole(x[i - 1]), rate))
                          /\ x[i] = x[i - 1] + rs[i].interest - each
<1> DEFINE each == Installment(Whole(n), rate, m)
           rs == BuildSchedule(Whole(n), rate, m)
           T == Cents(each)
<1>1. /\ Whole(n) \in Fractions /\ Whole(n).num = n /\ Whole(n).den = 1 /\ n \in Int
      /\ m \in Nat /\ m \in 0 .. m /\ m - 1 \in 0 .. m /\ m \in 1 .. m /\ ~ (m < m)
  BY FractionsClosed DEF Whole, Frac, Positive
<1>2. each \in Fractions /\ T \in Int
  BY <1>1, InstallmentIs, CentsBetween DEF Positive
<1>3. PICK f \in [0 .. m -> Fractions] :
          /\ f[0] = Whole(n)
          /\ \A i \in 1 .. m : /\ rs[i] = RowOn(f[i - 1], each, rate, i = m)
                               /\ f[i] = Minus(f[i - 1], Whole(rs[i].principal))
  BY <1>1, ScheduleRows
<1>4. \A i \in 1 .. m - 1 : rs[i].principal + rs[i].interest = T
  BY <1>1, SchedulesReduce
<1>5. \A i \in 1 .. m : rs[i].principal \in Int /\ rs[i].interest \in Int
  BY <1>1, ScheduleIs DEF Installments
<1> HIDE DEF each, rs, T
<1> DEFINE C == {q \in Fractions : q.den = 1}
<1>6. \A i \in 0 .. m : f[i] \in C
  <2>1. ASSUME NEW i \in 1 .. m, f[i - 1] \in C
        PROVE  f[i] \in C
    <3>1. f[i] = Minus(f[i - 1], Whole(rs[i].principal)) /\ rs[i].principal \in Int
      BY <1>3, <1>5
    <3> QED
      BY <2>1, <3>1, MinusWhole, ZenonT(40)
  <2>2. f[0] \in C
    BY <1>1, <1>3
  <2> HIDE DEF C
  <2> QED
    BY <1>1, <2>1, <2>2, CountStays
<1>7. \A i \in 0 .. m : f[i].num \in Int /\ f[i] = Whole(f[i].num)
  BY <1>6 DEF Fractions, Whole, Frac
<1>8. ASSUME NEW i \in 1 .. m
      PROVE  /\ i \in 0 .. m /\ i - 1 \in 0 .. m /\ i - 1 < m
             /\ f[i].num = f[i - 1].num - rs[i].principal
  <2>1. i \in 0 .. m /\ i - 1 \in 0 .. m /\ i - 1 < m
    BY <1>1
  <2>2. f[i] = Minus(f[i - 1], Whole(rs[i].principal)) /\ rs[i].principal \in Int
    BY <1>3, <1>5
  <2>3. f[i].num = f[i - 1].num - rs[i].principal * f[i - 1].den
    BY <1>6, <2>1, <2>2, MinusWhole
  <2>4. f[i - 1].den = 1 /\ rs[i].principal * 1 = rs[i].principal
    BY <1>6, <2>1, <2>2
  <2> QED
    BY <2>1, <2>3, <2>4
<1> DEFINE x == [i \in 0 .. m |-> IF i < m THEN f[i].num
                                  ELSE f[m - 1].num + rs[m].interest - T]
<1>9. x \in [0 .. m -> Int]
  <2>1. f[m - 1].num + rs[m].interest - T \in Int
    BY <1>1, <1>2, <1>5, <1>7
  <2> QED
    BY <1>7, <2>1
<1>10. \A i \in 1 .. m : x[i - 1] = f[i - 1].num
  BY <1>8
<1>11. x[m] = f[m - 1].num + rs[m].interest - T
  BY <1>1
<1>12. \A i \in 1 .. m - 1 : x[i] = f[i].num /\ i \in 1 .. m
  BY <1>1
<1>13. x[0] = n
  BY <1>1, <1>3, <1>10 DEF Positive
<1> HIDE DEF x
<1>14. rs[m].principal = x[m - 1]
  <2>1. rs[m] = RowOn(f[m - 1], each, rate, TRUE)
    BY <1>1, <1>3
  <2>2. rs[m].principal = Cents(f[m - 1])
    BY <2>1 DEF RowOn
  <2>3. f[m - 1] \in Fractions /\ f[m - 1].den = 1 /\ f[m - 1].num \in Int
    BY <1>1, <1>6, <1>7
  <2>4. Cents(f[m - 1]) = f[m - 1].num
    <3> DEFINE c == Cents(f[m - 1])
               k == f[m - 1].num
    <3>1. c \in Int /\ k \in Int /\ 2 * (c * 1) - 2 * k <= 1 /\ 2 * k - 2 * (c * 1) <= 1
      BY <2>3, CentsNear
    <3> HIDE DEF c, k
    <3>2. c = k
      BY <3>1
    <3> QED
      BY <3>2 DEF c, k
  <2> QED
    BY <1>1, <1>10, <2>2, <2>4
<1>15. ASSUME NEW i \in 1 .. m
       PROVE  /\ rs[i].interest = Cents(Times(Whole(x[i - 1]), rate))
              /\ x[i] = x[i - 1] + rs[i].interest - T
  <2>1. rs[i].interest = Cents(Times(f[i - 1], rate))
    <3>1. rs[i] = RowOn(f[i - 1], each, rate, i = m)
      BY <1>3
    <3> QED
      BY <3>1 DEF RowOn
  <2>2. f[i - 1] = Whole(x[i - 1])
    BY <1>7, <1>8, <1>10
  <2>3. CASE i = m
    BY <1>10, <1>11, <2>1, <2>2, <2>3
  <2>4. CASE i # m
    <3>1. i \in 1 .. m - 1
      BY <1>1, <2>4
    <3>2. x[i] = x[i - 1] - rs[i].principal
      BY <1>8, <1>10, <1>12, <3>1
    <3>3. /\ rs[i].principal + rs[i].interest = T /\ x[i - 1] \in Int
          /\ rs[i].principal \in Int /\ rs[i].interest \in Int
      BY <1>4, <1>5, <1>8, <1>9, <3>1
    <3>4. x[i] = x[i - 1] + rs[i].interest - T
      BY <3>2, <3>3
    <3> QED
      BY <2>1, <2>2, <3>4
  <2> QED
    BY <2>3, <2>4
<1> QED
  BY <1>9, <1>13, <1>14, <1>15 DEF each, rs, T

(* Twice a product of which one factor is, doubled, within a bound.          *)
LEMMA TwiceWithin ==
    ASSUME NEW e \in Int, NEW d \in Nat, NEW n \in Nat, Within(2 * e, 0, d)
    PROVE  n * e \in Int /\ d * n \in Nat /\ Within(2 * (n * e), 0, d * n)
<1>1. 2 * e <= d /\ - d <= 2 * e /\ - d \in Int /\ d \in Int /\ 2 * e \in Int
  BY DEF Within
<1>2. (2 * e) * n <= d * n /\ (- d) * n <= (2 * e) * n
  BY <1>1, TimesGrows
<1>3. /\ (2 * e) * n = 2 * (n * e) /\ (- d) * n = - (d * n)
      /\ n * e \in Int /\ d * n \in Nat
  OBVIOUS
<1> DEFINE u == n * e
           v == d * n
<1>4. u \in Int /\ v \in Nat /\ 2 * u <= v /\ - v <= 2 * u
  BY <1>2, <1>3
<1> HIDE DEF u, v
<1>5. Within(2 * u, 0, v)
  BY <1>4 DEF Within
<1> QED
  BY <1>4, <1>5 DEF u, v

(* A month rounds the interest on balance p to k, within half a cent, and    *)
(* takes t, which is the annuity within half a cent: together no more than a *)
(* cent is added to what the balance is off.                                 *)
LEMMA MonthRounds ==
    ASSUME NEW a \in Nat, NEW b \in Nat, NEW p \in Int, NEW k \in Int, NEW t \in Int,
           NEW en \in Int, NEW ed \in Nat, NEW q \in Nat, NEW left \in Int,
           Within(2 * (k * b), 2 * (p * a), b), Within(2 * (t * ed), 2 * en, ed)
    PROVE  Within(((p + k - t) * (b * q)) * ed - ((b + a) * left - (b * q) * en),
                  (b + a) * ((p * q) * ed - left),
                  ed * (b * q))
<1> DEFINE e1 == k * b - p * a
           e2 == t * ed - en
           s == q * ed
           r == b * q
           now == ((p + k - t) * r) * ed - ((b + a) * left - r * en)
           was == (b + a) * ((p * q) * ed - left)
<1>1. /\ e1 \in Int /\ e2 \in Int /\ s \in Nat /\ r \in Nat
      /\ Within(2 * e1, 0, b) /\ Within(2 * e2, 0, ed)
  <2>1. k * b \in Int /\ p * a \in Int /\ t * ed \in Int /\ s \in Nat /\ r \in Nat
    OBVIOUS
  <2> DEFINE kb == k * b
             pa == p * a
             te == t * ed
  <2>2. /\ kb \in Int /\ pa \in Int /\ te \in Int
        /\ Within(2 * kb, 2 * pa, b) /\ Within(2 * te, 2 * en, ed)
    BY <2>1
  <2> HIDE DEF kb, pa, te
  <2>3. /\ kb - pa \in Int /\ te - en \in Int
        /\ Within(2 * (kb - pa), 0, b) /\ Within(2 * (te - en), 0, ed)
    BY <2>2 DEF Within
  <2> QED
    BY <2>1, <2>3 DEF kb, pa, te
<1>2. /\ s * e1 \in Int /\ b * s \in Nat /\ Within(2 * (s * e1), 0, b * s)
      /\ r * e2 \in Int /\ ed * r \in Nat /\ Within(2 * (r * e2), 0, ed * r)
  <2> HIDE DEF e1, e2, s, r
  <2> QED
    BY <1>1, TwiceWithin
<1>3. b * s = ed * r
  OBVIOUS
<1>4. now \in Int /\ was \in Int /\ now = was + s * e1 - r * e2
  <2>1. /\ ((p + k - t) * r) * ed = (p * r) * ed + (k * r) * ed - (t * r) * ed
        /\ (p * r) * ed \in Int /\ (k * r) * ed \in Int /\ (t * r) * ed \in Int
    <3>1. (p + k - t) * r = p * r + k * r - t * r /\ p * r \in Int /\ k * r \in Int /\ t * r \in Int
      <4> HIDE DEF r
      <4> QED
        BY <1>1
    <3> DEFINE u == p * r
               v == k * r
               w == t * r
    <3>2. u \in Int /\ v \in Int /\ w \in Int /\ (p + k - t) * r = u + v - w
      BY <3>1
    <3> HIDE DEF u, v, w
    <3>3. (u + v - w) * ed = u * ed + v * ed - w * ed
          /\ u * ed \in Int /\ v * ed \in Int /\ w * ed \in Int
      BY <3>2
    <3> QED
      BY <3>2, <3>3 DEF u, v, w
  <2>2. (b + a) * ((p * q) * ed - left)
            = b * ((p * q) * ed) + a * ((p * q) * ed) - (b + a) * left
        /\ b * ((p * q) * ed) \in Int /\ a * ((p * q) * ed) \in Int /\ (b + a) * left \in Int
    <3> DEFINE u == (p * q) * ed
    <3>1. u \in Int
      OBVIOUS
    <3> HIDE DEF u
    <3>2. (b + a) * (u - left) = b * u + a * u - (b + a) * left
          /\ b * u \in Int /\ a * u \in Int /\ (b + a) * left \in Int
      BY <3>1
    <3> QED
      BY <3>2 DEF u
  <2>3. /\ (p * r) * ed = b * ((p * q) * ed)
        /\ s * e1 = (k * r) * ed - a * ((p * q) * ed)
        /\ r * e2 = (t * r) * ed - r * en /\ r * en \in Int
    <3>1. (p * r) * ed = b * ((p * q) * ed)
      OBVIOUS
    <3>2. s * e1 = (k * r) * ed - a * ((p * q) * ed)
      OBVIOUS
    <3>3. r * e2 = (t * r) * ed - r * en /\ r * en \in Int
      OBVIOUS
    <3> QED
      BY <3>1, <3>2, <3>3
  <2> DEFINE A == (p * r) * ed
             B == (k * r) * ed
             C == (t * r) * ed
             D == a * ((p * q) * ed)
             L == (b + a) * left
             N == r * en
             X == s * e1
             Y == r * e2
  <2>4. /\ now = (A + B - C) - (L - N) /\ was = A + D - L /\ X = B - D /\ Y = C - N
        /\ A \in Int /\ B \in Int /\ C \in Int /\ D \in Int /\ L \in Int /\ N \in Int
    BY <2>1, <2>2, <2>3
  <2> HIDE DEF A, B, C, D, L, N, X, Y, now, was
  <2>5. now \in Int /\ was \in Int /\ now = was + X - Y
    BY <2>4
  <2> QED
    BY <2>5 DEF X, Y
<1> DEFINE x == s * e1
           y == r * e2
           d == ed * r
<1>5. /\ x \in Int /\ y \in Int /\ d \in Nat /\ Within(2 * x, 0, d) /\ Within(2 * y, 0, d)
      /\ now \in Int /\ was \in Int /\ now = was + x - y
  BY <1>2, <1>3, <1>4
<1> HIDE DEF x, y, d, now, was
<1>6. Within(now, was, d)
  BY <1>5 DEF Within
<1> QED
  BY <1>6 DEF now, was, d

(* The last row asks for an installment, to within the cent a month that was *)
(* rounded, compounded until the end.                                        *)
LEMMA LastIsNear ==
    ASSUME NEW n \in Nat, NEW rate \in Rates, NEW m \in Positive
    PROVE  LET last == BuildSchedule(Whole(n), rate, m)[m]
               each == Cents(Installment(Whole(n), rate, m))
           IN  Within((last.principal + last.interest - each) * Power(rate.den, m), 0,
                      m * Power(rate.den + rate.num, m))
<1> DEFINE a == rate.num
           b == rate.den
           each == Installment(Whole(n), rate, m)
           en == each.num
           ed == each.den
           t == Cents(each)
           rs == BuildSchedule(Whole(n), rate, m)
<1>1. /\ a \in Nat /\ b \in Positive /\ b \in Nat /\ b + a \in Positive /\ n \in Int
      /\ m \in Nat /\ m \in 0 .. m /\ 0 \in 0 .. m /\ m \in 1 .. m
  BY DEF Rates, Positive
<1>2. /\ each \in Fractions /\ en \in Int /\ ed \in Nat /\ ed \in Positive /\ t \in Int
      /\ Within(2 * (t * ed), 2 * en, ed)
  <2>1. each \in Fractions
    BY <1>1, FractionsClosed, InstallmentIs DEF Positive
  <2> HIDE DEF each
  <2> QED
    BY <2>1, CentsNear DEF Fractions, Positive, Within
<1>3. PICK x \in [0 .. m -> Int] :
          /\ x[0] = n /\ rs[m].principal = x[m - 1]
          /\ \A i \in 1 .. m : /\ rs[i].interest = Cents(Times(Whole(x[i - 1]), rate))
                               /\ x[i] = x[i - 1] + rs[i].interest - t
  BY BalancesOfCents, ZenonT(40)
<1>4. PICK f \in [0 .. m -> Positive] :
          Power(b, m) = f[m] /\ f[0] = 1 /\ \A i \in 1 .. m : f[i] = b * f[i - 1]
  BY <1>1, PowerIs
<1>5. PICK g \in [0 .. m -> Positive] :
          Power(b + a, m) = g[m] /\ g[0] = 1 /\ \A i \in 1 .. m : g[i] = (b + a) * g[i - 1]
  BY <1>1, PowerIs
<1>6. PowersOf(f, b, m) /\ PowersOf(g, b + a, m)
  BY <1>4, <1>5 DEF PowersOf
<1>7. PICK left \in [0 .. m -> Int] :
          /\ left[0] = n * ed /\ left[m] = 0
          /\ \A i \in 1 .. m : left[i] = (b + a) * left[i - 1] - f[i] * en
  <2> DEFINE F == f
             G == g
  <2>1. /\ PowersOf(F, rate.den, m) /\ F[m] = Power(rate.den, m)
        /\ PowersOf(G, rate.den + rate.num, m) /\ G[m] = Power(rate.den + rate.num, m)
    BY <1>4, <1>5, <1>6
  <2> HIDE DEF F, G
  <2>2. \E left \in [0 .. m -> Int] :
            /\ left[0] = n * ed /\ left[m] = 0
            /\ \A i \in 1 .. m : left[i] = (b + a) * left[i - 1] - F[i] * en
    BY <1>1, <2>1, AnnuityClears, ZenonT(40)
  <2> QED
    BY <2>2 DEF F
<1>8. \A i \in 1 .. m : rs[i].principal \in Int /\ rs[i].interest \in Int
  BY <1>1, FractionsClosed, ScheduleIs DEF Installments
<1> HIDE DEF each, en, ed, t, rs
<1>9. \A i \in 0 .. m : f[i] \in Nat /\ f[i] \in Int
  BY DEF Positive
\* what the balance is off, over f[i] and the annuity's denominator
<1> DEFINE Off(i) == (x[i] * f[i]) * ed - left[i]
           off == [i \in 0 .. m |-> Off(i)]
<1>10. off \in [0 .. m -> Int]
  <2>1. \A y, z, l \in Int : (y * z) * ed - l \in Int
    <3> SUFFICES ASSUME NEW y \in Int, NEW z \in Int, NEW l \in Int
                 PROVE  (y * z) * ed - l \in Int
      OBVIOUS
    <3>1. y * z \in Int
      OBVIOUS
    <3>2. (y * z) * ed \in Int
      BY <1>2, <3>1
    <3> QED
      BY <3>2
  <2>2. \A i \in 0 .. m : x[i] \in Int /\ f[i] \in Int /\ left[i] \in Int
    BY <1>9
  <2> QED
    BY <2>1, <2>2
<1>11. off[0] = 0
  <2>1. off[0] = (n * 1) * ed - n * ed
    BY <1>1, <1>3, <1>4, <1>7
  <2>2. (n * 1) * ed - n * ed = 0
    BY <1>2
  <2> QED
    BY <2>1, <2>2
<1>12. ASSUME NEW i \in 1 .. m
       PROVE  Within(off[i], (b + a) * off[i - 1], ed * f[i])
  <2> DEFINE p == x[i - 1]
             k == rs[i].interest
             q == f[i - 1]
             l == left[i - 1]
  <2>1. i \in 0 .. m /\ i - 1 \in 0 .. m
    BY <1>1
  <2>2. /\ p \in Int /\ k \in Int /\ q \in Nat /\ l \in Int
        /\ x[i] = p + k - t /\ f[i] = b * q /\ left[i] = (b + a) * l - (b * q) * en
        /\ k = Cents(Times(Whole(p), rate))
    BY <1>3, <1>4, <1>7, <1>8, <1>9, <2>1
  <2>3. off[i] = (x[i] * f[i]) * ed - left[i] /\ off[i - 1] = (p * q) * ed - l
    BY <2>1
  <2> HIDE DEF p, k, q, l, off
  <2>4. Within(2 * (k * b), 2 * (p * a), b)
    <3> DEFINE due == Times(Whole(p), rate)
    <3>1. due \in Fractions
      <4>1. Whole(p) \in Fractions /\ rate \in Fractions
        BY <2>2, FractionsClosed DEF Rates, Fractions
      <4> QED
        BY <4>1, FractionsClosed
    <3>2. due.num = p * a /\ due.den = b
      <4>1. due.num = p * a /\ due.den = 1 * b
        BY DEF Times, Whole, Frac
      <4> QED
        BY <1>1, <4>1
    <3> HIDE DEF due
    <3>3. /\ 2 * (Cents(due) * due.den) - 2 * due.num <= due.den
          /\ 2 * due.num - 2 * (Cents(due) * due.den) <= due.den
      BY <3>1, CentsNear
    <3>4. Cents(due) = k
      BY <2>2 DEF due
    <3> HIDE DEF a, b
    <3> QED
      BY <3>2, <3>3, <3>4 DEF Within
  <2> HIDE DEF a, b
  <2>5. Within(((p + k - t) * (b * q)) * ed - ((b + a) * l - (b * q) * en),
               (b + a) * ((p * q) * ed - l), ed * (b * q))
    BY <1>1, <1>2, <2>2, <2>4, MonthRounds
  <2> QED
    BY <2>2, <2>3, <2>5
<1> DEFINE y == x[m] * f[m]
           d == m * g[m]
<1>13. Within(off[m], 0, ed * d)
  <2> HIDE DEF off, a, b
  <2> QED
    BY <1>1, <1>2, <1>6, <1>10, <1>11, <1>12, ErrorsCompound
<1>14. off[m] = y * ed /\ y \in Int /\ d \in Nat
  <2>1. x[m] \in Int /\ f[m] \in Int /\ g[m] \in Nat /\ \A u, v \in Int : u * v \in Int
    BY <1>1, <1>9 DEF Positive
  <2>2. \A u, v \in Nat : u * v \in Nat
    OBVIOUS
  <2>3. y \in Int /\ d \in Nat
    BY <1>1, <2>1, <2>2
  <2>4. off[m] = y * ed - 0
    BY <1>1, <1>7
  <2>5. y * ed \in Int
    BY <1>2, <2>1, <2>3
  <2> QED
    BY <2>3, <2>4, <2>5
<1>15. Within(y, 0, d)
  <2> HIDE DEF off, y, d
  <2>1. Within(y * ed, 0, ed * d) /\ ed * d = d * ed /\ y * ed \in Int /\ d * ed \in Int
    BY <1>2, <1>13, <1>14
  <2>2. ~ (d < y)
    <3> SUFFICES ASSUME d < y
                 PROVE  FALSE
      OBVIOUS
    <3>1. d * ed + ed <= y * ed
      BY <1>2, <1>14, RoomForOne
    <3> DEFINE u == d * ed
               v == y * ed
    <3>2. u \in Int /\ v \in Int /\ u + ed <= v /\ Within(v, 0, u) /\ ed \in Int /\ ed > 0
      BY <1>2, <2>1, <3>1 DEF Positive
    <3> HIDE DEF u, v
    <3> QED
      BY <3>2 DEF Within
  <2>3. ~ (y < - d)
    <3> SUFFICES ASSUME y < - d
                 PROVE  FALSE
      OBVIOUS
    <3>1. y * ed + ed <= (- d) * ed /\ (- d) * ed = - (d * ed)
      BY <1>2, <1>14, RoomForOne
    <3> DEFINE u == d * ed
               v == y * ed
    <3>2. u \in Int /\ v \in Int /\ v + ed <= - u /\ Within(v, 0, u) /\ ed \in Int /\ ed > 0
      BY <1>2, <2>1, <3>1 DEF Positive
    <3> HIDE DEF u, v
    <3> QED
      BY <3>2 DEF Within
  <2> QED
    BY <1>14, <2>2, <2>3 DEF Within
<1>16. x[m] = rs[m].principal + rs[m].interest - t
  BY <1>1, <1>3
<1> QED
  BY <1>4, <1>5, <1>15, <1>16 DEF each, t, rs

(* No interest on nothing, nor on less.                                      *)
LEMMA NoInterest ==
    ASSUME NEW n \in Int, n <= 0, NEW rate \in Rates
    PROVE  Cents(Times(Whole(n), rate)) \in Int /\ Cents(Times(Whole(n), rate)) <= 0
<1> DEFINE none == Times(Whole(0), rate)
<1>1. /\ Whole(n) \in Fractions /\ Whole(0) \in Fractions /\ rate \in Fractions
      /\ Whole(n).den = Whole(0).den /\ Whole(n).num <= Whole(0).num
  BY FractionsClosed DEF Rates, Fractions, Whole, Frac
<1>2. none \in Fractions /\ none.num = 0 /\ none.den \in Positive
  <2>1. none \in Fractions
    BY <1>1, FractionsClosed
  <2>2. none.num = 0 * rate.num
    BY DEF Times, Whole, Frac
  <2> HIDE DEF none
  <2> QED
    BY <2>1, <2>2 DEF Fractions, Positive, Rates
<1>3. Cents(none) = 0
  <2> DEFINE c == Cents(none)
             d == none.den
             t == c * d
  <2>1. c \in Int /\ d \in Positive /\ 2 * t <= 2 * 0 + d /\ 2 * 0 < 2 * t + d
    BY <1>2, CentsBetween
  <2> HIDE DEF c, d
  <2>2. 2 * (c * d) <= d /\ 0 < 2 * (c * d) + d
    BY <2>1 DEF Positive
  <2> QED
    BY <2>1, <2>2, LessThanHalf DEF c
<1> QED
  BY <1>1, <1>3, InterestGrows

(* The last row's principal is not negative if an installment is at least    *)
(* what rounding may come to.                                                *)
LEMMA LastRepays ==
    ASSUME NEW n \in Nat, NEW rate \in Rates, NEW m \in Positive,
           Cents(Installment(Whole(n), rate, m)) * Power(rate.den, m)
               >= m * Power(rate.den + rate.num, m)
    PROVE  BuildSchedule(Whole(n), rate, m)[m].principal >= 0
<1> DEFINE t == Cents(Installment(Whole(n), rate, m))
           rs == BuildSchedule(Whole(n), rate, m)
           last == rs[m]
           flat == Power(rate.den, m)
           d == m * Power(rate.den + rate.num, m)
<1>1. /\ rate.num \in Nat /\ rate.den \in Positive /\ rate.den + rate.num \in Positive
      /\ m \in Nat /\ m \in 1 .. m /\ m - 1 \in 0 .. m /\ n \in Int
  BY DEF Rates, Positive
<1>2. /\ flat \in Positive /\ Power(rate.den + rate.num, m) \in Positive
  <2>1. \A b \in Positive : Power(b, m) \in Positive
    <3> SUFFICES ASSUME NEW b \in Positive
                 PROVE  Power(b, m) \in Positive
      OBVIOUS
    <3>1. PICK f \in [0 .. m -> Positive] : Power(b, m) = f[m]
      BY <1>1, PowerIs
    <3> QED
      BY <1>1, <3>1
  <2> QED
    BY <1>1, <2>1
<1>3. d \in Nat /\ flat \in Nat
  <2>1. \A u, v \in Positive : u * v \in Nat
    BY DEF Positive
  <2> QED
    BY <1>2, <2>1 DEF Positive
<1>4. Within((last.principal + last.interest - t) * flat, 0, d)
  BY LastIsNear
<1>5. t \in Int /\ last.principal \in Int /\ last.interest \in Int
  <2>1. Whole(n) \in Fractions
    BY <1>1, FractionsClosed
  <2>2. Installment(Whole(n), rate, m) \in Fractions /\ last \in Installments
    BY <1>1, <2>1, InstallmentIs, ScheduleIs DEF Positive
  <2> HIDE DEF last
  <2> QED
    BY <2>2, CentsBetween DEF Installments
<1>6. PICK x \in [0 .. m -> Int] :
          /\ last.principal = x[m - 1]
          /\ last.interest = Cents(Times(Whole(x[m - 1]), rate))
  BY <1>1, BalancesOfCents
<1> SUFFICES ASSUME last.principal < 0
             PROVE  FALSE
  BY <1>5
<1>7. last.interest <= 0
  <2> DEFINE p == x[m - 1]
  <2>1. p \in Int /\ p <= 0
    BY <1>1, <1>6
  <2>2. last.interest = Cents(Times(Whole(p), rate))
    BY <1>6
  <2> HIDE DEF p, last
  <2> QED
    BY <2>1, <2>2, NoInterest
<1>8. t * flat >= d
  OBVIOUS
<1> DEFINE z == last.principal + last.interest - t
<1>9. z \in Int /\ z < - t /\ - t \in Int
  BY <1>5, <1>7
<1> HIDE DEF t, flat, d, z, last
<1>10. z * flat \in Int /\ z * flat + flat <= (- t) * flat
  BY <1>2, <1>5, <1>9, RoomForOne
<1>11. (- t) * flat = - (t * flat) /\ t * flat \in Int
  BY <1>3, <1>5
<1> DEFINE u == z * flat
           v == t * flat
<1>12. u \in Int /\ v \in Int /\ u + flat <= - v /\ v >= d /\ Within(u, 0, d) /\ flat > 0
  BY <1>2, <1>4, <1>8, <1>10, <1>11 DEF z, Positive
<1> HIDE DEF u, v
<1> QED
  BY <1>3, <1>12 DEF Within

(* Every schedule of a principal in cents adds up                            *)
(* (build_reducing_balance_schedule), whatever the rate and the term: its    *)
(* principal is the loan's, its installments are level but for the last,     *)
(* which takes up what was rounded and compounded, and its balance reduces.  *)
THEOREM SchedulesAddUp == QuerySpec => []ScheduleAddsUp
<1>1. ASSUME query \in Queries
      PROVE  ScheduleAddsUp
  <2> DEFINE n == query.principal
             m == query.months
             rate == query.rate
             rs == BuildSchedule(Whole(n), rate, m)
             t == Cents(Installment(Whole(n), rate, m))
             flat == Power(rate.den, m)
             d == m * Power(rate.den + rate.num, m)
  <2>1. /\ n \in Nat /\ n \in Int /\ n >= 0 /\ m \in Positive /\ m \in Nat /\ m \in 1 .. m
        /\ rate \in Rates
    BY <1>1, QueriesAssumption DEF Queries, Positive, Rates
  <2>2. Quoted = rs /\ Flat = flat /\ Drift = d
    BY DEF Quoted, Flat, Drift
  <2> HIDE DEF n, m, rate
  <2>3. Whole(n) \in Fractions /\ Whole(n).num >= 0
    BY <2>1, FractionsClosed DEF Whole, Frac
  <2>4. /\ rs \in Seq(Installments) /\ Len(rs) = m
        /\ \A i \in 1 .. m : rs[i].principal \in Int /\ rs[i].interest \in Int
    <3>1. rs \in Seq(Installments) /\ Len(rs) = m /\ \A i \in 1 .. m : rs[i] \in Installments
      BY <2>1, <2>3, ScheduleIs
    <3> QED
      BY <3>1 DEF Installments
  <2>5. /\ \A i \in 1 .. m - 1 : rs[i].principal >= 0 /\ rs[i].principal + rs[i].interest = t
        /\ \A i \in 2 .. m : rs[i].interest <= rs[i - 1].interest
    BY <2>1, <2>3, SchedulesReduce
  <2>6. Within((rs[m].principal + rs[m].interest - t) * flat, 0, d)
    BY <2>1, LastIsNear
  <2>7. t * flat >= d => rs[m].principal >= 0
    BY <2>1, LastRepays
  <2>8. m = 1 => rs[m].principal >= 0
    <3>1. PICK x \in [0 .. m -> Int] :
              /\ x[0] = n /\ rs[m].principal = x[m - 1]
              /\ \A i \in 1 .. m : /\ rs[i].interest = Cents(Times(Whole(x[i - 1]), rate))
                                   /\ x[i] = x[i - 1] + rs[i].interest - t
      BY <2>1, BalancesOfCents, ZenonT(40)
    <3> HIDE DEF rs, t
    <3> QED
      BY <2>1, <3>1
  <2>9. Repaid(rs, m) = n
    BY <2>1, SchedulesOfCents
  <2>10. t \in Int /\ flat \in Int /\ d \in Int
    <3>1. Installment(Whole(n), rate, m) \in Fractions
      BY <2>1, <2>3, InstallmentIs DEF Positive
    <3>2. \A b \in Positive : Power(b, m) \in Int
      <4> SUFFICES ASSUME NEW b \in Positive
                   PROVE  Power(b, m) \in Int
        OBVIOUS
      <4>1. PICK f \in [0 .. m -> Positive] : Power(b, m) = f[m]
        BY <2>1, PowerIs
      <4>2. m \in 0 .. m
        BY <2>1
      <4> QED
        BY <4>1, <4>2 DEF Positive
    <3>3. rate.den \in Positive /\ rate.den + rate.num \in Positive
      BY <2>1 DEF Rates, Positive
    <3>4. \A u, v \in Int : u * v \in Int
      OBVIOUS
    <3>5. flat \in Int /\ Power(rate.den + rate.num, m) \in Int
      BY <3>2, <3>3
    <3>6. d \in Int
      BY <2>1, <3>4, <3>5
    <3>7. t \in Int
      BY <3>1, CentsBetween
    <3> QED
      BY <3>5, <3>6, <3>7
  <2> HIDE DEF rs, t, flat, d
  <2>11. PrincipalIsRepaid
    <3> DEFINE p == [i \in 1 .. m |-> rs[i].principal]
    <3>1. p = [i \in DOMAIN rs |-> rs[i].principal]
      BY <2>4
    <3>2. PrincipalIsRepaid <=> SumFunctionOnSet(p, 1 .. m) = n
      BY <2>2 DEF PrincipalIsRepaid, n, m
    <3> QED
      BY <2>9, <3>1, <3>2 DEF Repaid
  <2>12. InstallmentsAreLevel
    <3> SUFFICES ASSUME NEW i \in 1 .. m - 1
                 PROVE  /\ Asked(i) = Asked(1)
                        /\ (Asked(m) - Asked(i)) * Flat <= Drift
                        /\ (Asked(i) - Asked(m)) * Flat <= Drift
      BY DEF InstallmentsAreLevel, m
    <3>1. 1 \in 1 .. m - 1
      BY <2>1
    <3>2. Asked(i) = t /\ Asked(1) = t /\ Asked(m) = rs[m].principal + rs[m].interest
      BY <2>2, <2>5, <3>1 DEF Asked
    <3> DEFINE z == rs[m].principal + rs[m].interest
    <3>3. z \in Int
      BY <2>1, <2>4
    <3> HIDE DEF z
    <3>4. Within((z - t) * flat, 0, d)
      <4>1. rs[m].principal + rs[m].interest - t = z - t
        BY <2>1, <2>4, <2>10 DEF z
      <4> QED
        BY <2>6, <4>1
    <3>5. (t - z) * flat = - ((z - t) * flat) /\ (z - t) * flat \in Int
      BY <2>10, <3>3
    <3> DEFINE u == (z - t) * flat
    <3>6. u \in Int /\ (t - z) * flat = - u /\ Within(u, 0, d)
      BY <3>4, <3>5
    <3>7. u <= d /\ - u <= d
      <4> HIDE DEF u
      <4> QED
        BY <2>10, <3>6 DEF Within
    <3>8. (z - t) * flat <= d /\ (t - z) * flat <= d
      BY <3>6, <3>7
    <3> QED
      BY <2>2, <3>2, <3>8 DEF z
  <2>13. BalanceReduces
    <3>1. \A i \in 1 .. m - 1 : Quoted[i].principal >= 0
      BY <2>2, <2>5
    <3>2. \A i \in 2 .. m : Quoted[i].interest <= Quoted[i - 1].interest
      BY <2>2, <2>5
    <3>3. ASSUME Asked(1) * Flat >= Drift
          PROVE  Quoted[m].principal >= 0
      <4>1. CASE m = 1
        BY <2>2, <2>8, <4>1
      <4>2. CASE m # 1
        <5>1. 1 \in 1 .. m - 1
          BY <2>1, <4>2 DEF Positive
        <5>2. Asked(1) = t
          BY <2>2, <2>5, <5>1 DEF Asked
        <5> QED
          BY <2>2, <2>7, <3>3, <5>2
      <4> QED
        BY <4>1, <4>2
    <3> QED
      BY <3>1, <3>2, <3>3 DEF BalanceReduces, m
  <2> QED
    BY <2>11, <2>12, <2>13 DEF ScheduleAddsUp
<1>2. QueryInit => query \in Queries
  BY DEF QueryInit
<1>3. query \in Queries /\ [QueryNext]_query => (query \in Queries)'
  BY DEF QueryNext
<1> QED
  BY <1>1, <1>2, <1>3, PTL DEF QuerySpec

-----------------------------------------------------------------------------
(* Rows                                                                     *)

Rows     == [Ids -> Row]
Views    == [status : States, rows : Rows]
Outcomes == [status : States, rows : Rows, added : Seq(Row), debit : Int, took : Int]

(* The constants, as the lemmas ask for them.                                *)
LEMMA ConstantsAre ==
    /\ Principal \in Int /\ Months \in Positive /\ PenaltyPct \in Int /\ Rate \in Rates
    /\ Amounts \subseteq Positive /\ Terms \subseteq Positive /\ MaxRows \in Nat
  BY TermsAssumption, InstanceAssumption DEF Positive, Rates

(* The ids of rows are finitely many numbers.                                *)
LEMMA IdsAre == Ids \subseteq Nat /\ IsFiniteSet(Ids)
  BY ConstantsAre, FS_Interval DEF Ids

(* What a row asks for is an amount in cents.                                *)
LEMMA DuesAre == \A row \in Row : Due(row) \in Int /\ Outstanding(row) \in Int
  BY DEF Row, Due, Outstanding

(* There are rows of no loan.                                                *)
LEMMA BlankIs == Blank \in Row /\ NoRows \in Rows
  BY DEF Blank, Row, NoRows, Rows

(* The principal that is left on a row is a fraction.                        *)
LEMMA UncoveredIs == \A row \in Row : Uncovered(row) \in Fractions
<1> SUFFICES ASSUME NEW row \in Row
             PROVE  Uncovered(row) \in Fractions
  OBVIOUS
<1>1. Due(row) \in Int /\ Outstanding(row) \in Int /\ row.principal \in Int
  BY DuesAre DEF Row
<1>2. row.principal * Outstanding(row) \in Int
  BY <1>1
<1> QED
  BY <1>1, <1>2, FractionsClosed DEF Uncovered

(* PrincipalLeft adds what is uncovered on the unpaid rows, one at a time.   *)
LEMMA LeftFolds ==
    ASSUME NEW rs \in Rows
    PROVE  \E it : /\ PrincipalLeft(rs) = it[Unpaid(rs)]
                   /\ it[{}] = Whole(0)
                   /\ \A s \in SUBSET Unpaid(rs) : s # {} =>
                         it[s] = Plus(it[s \ {OneOf(s)}], Uncovered(rs[OneOf(s)]))
<1> DEFINE U == Unpaid(rs)
           next(s, it) == Plus(it[s \ {OneOf(s)}], Uncovered(rs[OneOf(s)]))
           Eq(it) == it = [s \in SUBSET U |-> IF s = {} THEN Whole(0) ELSE next(s, it)]
           step == [p \in U \X Fractions |-> Plus(p[2], Uncovered(rs[p[1]]))]
           pick == [s \in SUBSET U |-> OneOf(s)]
           it == CHOOSE g : Eq(g)
<1>1. U \subseteq Ids /\ IsFiniteSet(U)
  BY IdsAre, FS_Subset DEF Unpaid, Live
<1>2. PrincipalLeft(rs) = it[U]
  BY DEF PrincipalLeft, FoldSet, MapThenFoldSet, OneOf
<1> HIDE DEF U
<1>3. Whole(0) \in Fractions
  BY FractionsClosed
<1>4. \A i \in U : Uncovered(rs[i]) \in Fractions
  BY <1>1, UncoveredIs DEF Rows
<1>5. step \in [U \X Fractions -> Fractions]
  BY <1>4, FractionsClosed
<1>6. \A s \in SUBSET U : s # {} => pick[s] \in s
  BY OneOfIn
<1>7. PICK g \in [SUBSET U -> Fractions] : Folds(g, Whole(0), step, pick, SUBSET U)
  <2> HIDE DEF step, pick
  <2> QED
    BY <1>1, <1>3, <1>5, <1>6, FoldExists
<1>8. ASSUME NEW s \in SUBSET U
      PROVE  g[s] = IF s = {} THEN Whole(0) ELSE next(s, g)
  <2>1. CASE s = {}
    BY <1>7, <2>1 DEF Folds
  <2>2. CASE s # {}
    <3>1. OneOf(s) \in s /\ s \ {OneOf(s)} \in SUBSET U
      BY <2>2, OneOfIn
    <3>2. g[s] = step[<<OneOf(s), g[s \ {OneOf(s)}]>>]
      <4> HIDE DEF step
      <4> QED
        BY <1>7, <2>2 DEF Folds
    <3>3. <<OneOf(s), g[s \ {OneOf(s)}]>> \in U \X Fractions
      BY <3>1
    <3> QED
      BY <2>2, <3>2, <3>3
  <2> QED
    BY <2>1, <2>2
<1>9. Eq(g)
  <2> HIDE DEF next
  <2> QED
    BY <1>8
<1>10. Eq(it)
  BY <1>9
<1> HIDE DEF it
<1>11. it[{}] = Whole(0) /\ \A s \in SUBSET U : s # {} => it[s] = next(s, it)
  <2> HIDE DEF next
  <2> QED
    BY <1>10
<1> QED
  BY <1>2, <1>11 DEF U

(* The principal left on a schedule is a fraction.                           *)
LEMMA PrincipalLeftIs == \A rs \in Rows : PrincipalLeft(rs) \in Fractions
<1> SUFFICES ASSUME NEW rs \in Rows
             PROVE  PrincipalLeft(rs) \in Fractions
  OBVIOUS
<1> DEFINE U == Unpaid(rs)
<1>1. PICK it : /\ PrincipalLeft(rs) = it[U]
                /\ it[{}] = Whole(0)
                /\ \A s \in SUBSET U : s # {} =>
                      it[s] = Plus(it[s \ {OneOf(s)}], Uncovered(rs[OneOf(s)]))
  BY LeftFolds
<1>2. IsFiniteSet(U) /\ \A i \in U : Uncovered(rs[i]) \in Fractions
  <2>1. U \subseteq Ids /\ IsFiniteSet(U)
    BY IdsAre, FS_Subset DEF Unpaid, Live
  <2> QED
    BY <2>1, UncoveredIs DEF Rows
<1> HIDE DEF U
<1>3. it[{}] \in Fractions
  BY <1>1, FractionsClosed
<1>4. ASSUME NEW s \in SUBSET U, s # {}
      PROVE  \E i \in s : it[s \ {i}] \in Fractions => it[s] \in Fractions
  <2> DEFINE i == OneOf(s)
  <2>1. i \in s /\ it[s] = Plus(it[s \ {i}], Uncovered(rs[i]))
    BY <1>1, <1>4, OneOfIn
  <2> HIDE DEF i
  <2>2. it[s \ {i}] \in Fractions => it[s] \in Fractions
    BY <1>2, <2>1, FractionsClosed
  <2> QED
    BY <2>1, <2>2
<1>5. it[U] \in Fractions
  BY <1>2, <1>3, <1>4, FoldStays
<1> QED
  BY <1>1, <1>5

(* The last of some rows is one of them.                                     *)
LEMMA LatestIs ==
    ASSUME NEW rs \in Rows, NEW S \in SUBSET Ids, S # {}
    PROVE  Latest(rs, S) \in S
<1>1. \A T \in SUBSET Int : IsFiniteSet(T) /\ T # {} => Max(T) \in T
  <2> SUFFICES ASSUME NEW T \in SUBSET Int, IsFiniteSet(T), T # {}
               PROVE  Max(T) \in T
    OBVIOUS
  <2>1. \E x \in T : \A y \in T : y <= x
    BY HasGreatest
  <2>2. \E x \in T : \A y \in T : x >= y
    BY <2>1
  <2> QED
    BY <2>2 DEF Max
<1> DEFINE numbers == {rs[i].number : i \in S}
           last == {i \in S : rs[i].number = Max(numbers)}
<1>2. IsFiniteSet(S)
  BY IdsAre, FS_Subset
<1>3. IsFiniteSet(numbers)
  <2> DEFINE f == [i \in S |-> rs[i].number]
  <2>1. \A x \in numbers : \E i \in S : f[i] = x
    OBVIOUS
  <2>2. f \in Surjection(S, numbers)
    BY <2>1 DEF Surjection
  <2> QED
    BY <1>2, <2>2, FS_Surjection
<1>4. numbers \subseteq Int /\ numbers # {}
  BY DEF Rows, Row
<1>5. Max(numbers) \in numbers
  <2> HIDE DEF numbers
  <2> QED
    BY <1>1, <1>3, <1>4
<1>6. last \subseteq S /\ last # {} /\ IsFiniteSet(last) /\ last \subseteq Int
  <2>1. last \subseteq S /\ last # {}
    BY <1>5
  <2>2. IsFiniteSet(last)
    BY <1>2, <2>1, FS_Subset
  <2> HIDE DEF last
  <2>3. last \subseteq Int
    BY <2>1, IdsAre
  <2> QED
    BY <2>1, <2>2, <2>3
<1>7. Latest(rs, S) = Max(last)
  BY DEF Latest
<1> HIDE DEF last
<1> QED
  BY <1>1, <1>6, <1>7

-----------------------------------------------------------------------------
(* Repayments                                                               *)

\* the row with other amounts and mark
Marked(row, penalty, paid, isPaid) ==
    [live |-> row.live, number |-> row.number, due |-> row.due, principal |-> row.principal,
     interest |-> row.interest, penalty |-> penalty, paid |-> paid, isPaid |-> isPaid]

\* a payment leaves the row as it was, or adds to what is paid on it, up to
\* all that it asks for, and marks it as paid when nothing is left
Settles(old, new) ==
    \/ new = old
    \/ /\ old.live /\ ~ old.isPaid
       /\ new = Marked(old, old.penalty, new.paid, new.isPaid)
       /\ new.paid > old.paid
       /\ Outstanding(new) >= 0
       /\ new.isPaid <=> Outstanding(new) = 0

\* the schedule rs after a part of x has been applied to it
Paying(rs, x) ==
    {acc \in [left : Nat, rows : Rows, principal : Fractions] :
        /\ PaidOn(acc.rows, Ids) = PaidOn(rs, Ids) + x - acc.left
        /\ \A i \in Ids : Settles(rs[i], acc.rows[i])}

\* what Repay makes of the schedule that its loop left behind
Repayment(v, x, paid) ==
    [status |-> IF Live(v.rows) # {} /\ Unpaid(paid.rows) = {} THEN "closed" ELSE v.status,
     rows |-> paid.rows, added |-> << >>,
     debit |-> RepaymentGl(paid.principal), took |-> x - paid.left]

(* What an update of a row's amounts makes of it.                            *)
LEMMA RowMarked ==
    ASSUME NEW row \in Row, NEW n \in Nat, NEW b \in BOOLEAN
    PROVE  /\ [row EXCEPT !.penalty = n] = Marked(row, n, row.paid, row.isPaid)
           /\ [row EXCEPT !.isPaid = b] = Marked(row, row.penalty, row.paid, b)
           /\ [row EXCEPT !.paid = n, !.isPaid = b] = Marked(row, row.penalty, n, b)
           /\ row = Marked(row, row.penalty, row.paid, row.isPaid)
<1>1. [row EXCEPT !.penalty = n] = Marked(row, n, row.paid, row.isPaid)
  BY DEF Row, Marked
<1>2. [row EXCEPT !.isPaid = b] = Marked(row, row.penalty, row.paid, b)
  BY DEF Row, Marked
<1>3. [row EXCEPT !.paid = n] = Marked(row, row.penalty, n, row.isPaid)
  BY DEF Row, Marked
<1>4. [Marked(row, row.penalty, n, row.isPaid) EXCEPT !.isPaid = b] = Marked(row, row.penalty, n, b)
  BY DEF Marked
<1>5. row = Marked(row, row.penalty, row.paid, row.isPaid)
  BY DEF Row, Marked
<1>6. [row EXCEPT !.paid = n, !.isPaid = b] = Marked(row, row.penalty, n, b)
  BY ONLY <1>3, <1>4
<1> QED
  BY ONLY <1>1, <1>2, <1>5, <1>6

(* A row with other amounts is a row, with the fields of the first.          *)
LEMMA MarkedIs ==
    ASSUME NEW row \in Row, NEW q \in Nat, NEW n \in Nat, NEW b \in BOOLEAN
    PROVE  /\ Marked(row, q, n, b) \in Row
           /\ Marked(row, q, n, b).live = row.live
           /\ Marked(row, q, n, b).penalty = q
           /\ Marked(row, q, n, b).paid = n
           /\ Marked(row, q, n, b).isPaid = b
           /\ Due(Marked(row, q, n, b)) = Due(row) - row.penalty + q
  BY DEF Row, Marked, Due

(* The sum of what is paid on rows is an amount.                             *)
LEMMA PaidIs ==
    ASSUME NEW rs \in Rows, NEW S \in SUBSET Ids
    PROVE  IsFiniteSet(S) /\ PaidOn(rs, S) \in Nat
<1> DEFINE f == [i \in Ids |-> rs[i].paid]
<1>1. IsFiniteSet(S)
  BY IdsAre, FS_Subset
<1>2. \A i \in S : f[i] \in Nat
  BY DEF Rows, Row
<1> HIDE DEF f
<1>3. SumFunctionOnSet(f, S) \in Nat
  BY <1>1, <1>2, SumNat
<1> QED
  BY <1>1, <1>3 DEF PaidOn, f

(* One installment's turn: nothing, or a part payment of it.                 *)
LEMMA PayRowIs ==
    ASSUME NEW acc \in [left : Nat, rows : Rows, principal : Fractions], NEW i \in Ids
    PROVE  LET row == acc.rows[i] IN
           \/ PayRow(acc, i) = acc
           \/ /\ row.isPaid = FALSE
              /\ \E applied \in Nat :
                    /\ applied > 0 /\ applied <= acc.left /\ applied <= Outstanding(row)
                    /\ PayRow(acc, i) =
                          [left |-> acc.left - applied,
                           rows |-> [acc.rows EXCEPT ![i] =
                                       Marked(row, row.penalty, row.paid + applied, applied = Outstanding(row))],
                           principal |-> Plus(acc.principal, PrincipalShare(row, applied))]
<1> DEFINE row == acc.rows[i]
           out == Outstanding(row)
           applied == IF acc.left <= out THEN acc.left ELSE out
           one == Marked(row, row.penalty, row.paid + applied, Covered(row, applied))
           new == [left |-> acc.left - applied,
                   rows |-> [acc.rows EXCEPT ![i] = one],
                   principal |-> Plus(acc.principal, PrincipalShare(row, applied))]
<1>1. CASE row.isPaid \/ acc.left <= 0 \/ out <= 0
  BY <1>1 DEF PayRow
<1>2. CASE ~ (row.isPaid \/ acc.left <= 0 \/ out <= 0)
  <2>1. row \in Row /\ row.paid \in Nat /\ row.isPaid = FALSE
    BY <1>2 DEF Rows, Row
  <2>2. out \in Int /\ Due(row) \in Int /\ out = Due(row) - row.paid /\ acc.left \in Nat
    BY <2>1, DuesAre DEF Outstanding
  <2>3. acc.rows \in Rows
    OBVIOUS
  <2> HIDE DEF row, out
  <2>4. applied \in Nat /\ applied > 0 /\ applied <= acc.left /\ applied <= out
    BY <1>2, <2>2
  <2>5. PayRow(acc, i) = new
    <3>1. row.paid + applied \in Nat /\ Covered(row, applied) \in BOOLEAN
      BY <2>1, <2>4 DEF Covered
    <3>2. [row EXCEPT !.paid = row.paid + applied, !.isPaid = Covered(row, applied)] = one
      BY <2>1, <3>1, RowMarked, ZenonT(40)
    <3>3. [acc.rows EXCEPT ![i].paid = @ + applied, ![i].isPaid = Covered(row, applied)]
              = [acc.rows EXCEPT ![i] = [row EXCEPT !.paid = row.paid + applied, !.isPaid = Covered(row, applied)]]
      BY <2>3, Zenon DEF row, Rows
    <3>4. PayRow(acc, i) = [left |-> acc.left - applied,
                            rows |-> [acc.rows EXCEPT ![i].paid = @ + applied,
                                                      ![i].isPaid = Covered(row, applied)],
                            principal |-> Plus(acc.principal, PrincipalShare(row, applied))]
      BY <1>2, Zenon DEF PayRow, row, out, applied
    <3> QED
      BY <3>2, <3>3, <3>4, Zenon
  <2>6. Covered(row, applied) = (applied = out)
    BY <2>1, <2>2, <2>4 DEF Covered
  <2> HIDE DEF applied
  <2>7. PayRow(acc, i) = [left |-> acc.left - applied,
                          rows |-> [acc.rows EXCEPT ![i] =
                                      Marked(row, row.penalty, row.paid + applied, applied = out)],
                          principal |-> Plus(acc.principal, PrincipalShare(row, applied))]
    BY <2>5, <2>6, Zenon
  <2> QED
    BY <2>1, <2>4, <2>7 DEF row, out
<1> QED
  BY <1>1, <1>2

(* One installment's turn applies what it can, and no more.                  *)
LEMMA PayRowStays ==
    ASSUME NEW rs \in Rows, NEW x \in Nat, NEW acc \in Paying(rs, x), NEW i \in Live(rs)
    PROVE  PayRow(acc, i) \in Paying(rs, x)
<1>1. i \in Ids /\ rs[i].live /\ rs[i] \in Row
  BY DEF Live, Rows
<1>2. /\ acc \in [left : Nat, rows : Rows, principal : Fractions]
      /\ PaidOn(acc.rows, Ids) = PaidOn(rs, Ids) + x - acc.left
      /\ \A k \in Ids : Settles(rs[k], acc.rows[k])
  BY DEF Paying
<1> DEFINE row == acc.rows[i]
           out == Outstanding(row)
           after(applied) == [left |-> acc.left - applied,
                              rows |-> [acc.rows EXCEPT ![i] =
                                          Marked(row, row.penalty, row.paid + applied, applied = out)],
                              principal |-> Plus(acc.principal, PrincipalShare(row, applied))]
<1>3. CASE PayRow(acc, i) = acc
  BY <1>3
<1>4. ASSUME row.isPaid = FALSE,
             NEW applied \in Nat, applied > 0, applied <= acc.left, applied <= out,
             PayRow(acc, i) = after(applied)
      PROVE  PayRow(acc, i) \in Paying(rs, x)
  <2> DEFINE full == applied = out
             one == Marked(row, row.penalty, row.paid + applied, full)
             new == after(applied)
  <2>1. row \in Row /\ row.paid \in Nat /\ row.principal \in Int
    BY <1>1, <1>2 DEF Rows, Row
  <2>2. out \in Int /\ Due(row) \in Int /\ out = Due(row) - row.paid
    BY <2>1, DuesAre DEF Outstanding
  <2>3. acc.left \in Nat
    BY <1>2
  <2> HIDE DEF row, out
  <2>4. full \in BOOLEAN /\ (full <=> applied = out)
    OBVIOUS
  <2> HIDE DEF full
  <2>5. /\ one \in Row /\ one.paid = row.paid + applied /\ (one.isPaid <=> applied = out)
        /\ Due(one) = Due(row) /\ one.live = row.live
    <3>1. row.paid + applied \in Nat /\ row.penalty \in Nat
      BY <2>1 DEF Row
    <3>2. Due(one) = Due(row) - row.penalty + row.penalty
      <4>1. \A q, n \in Nat, b \in BOOLEAN :
               Due(Marked(row, q, n, b)) = Due(row) - row.penalty + q
        BY <2>1, MarkedIs
      <4> QED
        BY <2>4, <3>1, <4>1
    <3>3. /\ one \in Row /\ one.live = row.live /\ one.paid = row.paid + applied
          /\ one.isPaid = full
      <4>1. one \in Row
        BY <2>1, <2>4, <3>1, MarkedIs
      <4> QED
        BY <4>1 DEF Marked
    <3> HIDE DEF one
    <3> QED
      BY <2>2, <2>4, <3>1, <3>2, <3>3
  <2>6. Outstanding(one) = out - applied
    BY <1>4, <2>1, <2>2, <2>5 DEF Outstanding
  <2>7. Settles(rs[i], one)
    <3>1. Settles(rs[i], row)
      BY <1>1, <1>2 DEF row
    <3>2. row = Marked(rs[i], rs[i].penalty, row.paid, row.isPaid)
      <4>1. rs[i] = Marked(rs[i], rs[i].penalty, rs[i].paid, rs[i].isPaid)
        BY <1>1, RowMarked
      <4> QED
        BY <3>1, <4>1 DEF Settles
    <3>3. /\ ~ rs[i].isPaid /\ rs[i].paid \in Nat /\ row.paid >= rs[i].paid
          /\ row.penalty = rs[i].penalty
      <4>1. rs[i].paid \in Nat /\ rs[i].penalty \in Nat
        BY <1>1 DEF Row
      <4>2. row.penalty = rs[i].penalty
        BY ONLY <3>2 DEF Marked
      <4> QED
        BY <1>1, <1>4, <2>1, <3>1, <4>1, <4>2 DEF Settles
    <3>4. one = Marked(rs[i], rs[i].penalty, one.paid, one.isPaid)
      <4>1. one = Marked(Marked(rs[i], rs[i].penalty, row.paid, row.isPaid),
                         rs[i].penalty, one.paid, one.isPaid)
        <5>1. one.paid = row.paid + applied /\ one.isPaid = full
          BY DEF Marked
        <5> QED
          BY ONLY <3>2, <3>3, <5>1 DEF one
      <4> HIDE DEF one
      <4> QED
        BY <4>1 DEF Marked
    <3> HIDE DEF one
    <3> QED
      <4>1. one.paid > rs[i].paid
        BY <1>4, <2>1, <2>5, <3>3
      <4>2. Outstanding(one) >= 0 /\ (one.isPaid <=> Outstanding(one) = 0)
        BY <1>4, <2>2, <2>5, <2>6
      <4> QED
        BY <1>1, <3>3, <3>4, <4>1, <4>2, Zenon DEF Settles
  <2>8. new.rows = [acc.rows EXCEPT ![i] = one]
    BY DEF full
  <2>9. new.rows \in Rows /\ new.left \in Nat
    <3>1. [acc.rows EXCEPT ![i] = one] \in Rows
      BY <1>2, <2>5 DEF Rows
    <3> QED
      BY <1>4, <2>3, <2>8, <3>1
  <2>10. new.principal \in Fractions
    <3>1. Due(row) \in Nat \ {0}
      BY <1>4, <2>1, <2>2
    <3>2. applied * row.principal \in Int
      BY <1>4, <2>1
    <3>3. PrincipalShare(row, applied) \in Fractions
      BY <3>1, <3>2 DEF PrincipalShare, Frac, Fractions
    <3> QED
      BY <1>2, <3>3, FractionsClosed
  <2>11. PaidOn(new.rows, Ids) = PaidOn(acc.rows, Ids) + applied
    <3> DEFINE f == [k \in Ids |-> acc.rows[k].paid]
               g == [k \in Ids |-> new.rows[k].paid]
    <3>1. \A k \in Ids : f[k] \in Int /\ g[k] \in Int
      BY <1>2, <2>9 DEF Rows, Row
    <3>2. \A k \in Ids \ {i} : f[k] = g[k]
      BY <1>2, <2>8 DEF Rows
    <3>3. f[i] = row.paid /\ g[i] = one.paid
      BY <1>1, <1>2, <2>8 DEF Rows, row
    <3>4. PaidOn(acc.rows, Ids) = SumFunctionOnSet(f, Ids) /\ PaidOn(new.rows, Ids) = SumFunctionOnSet(g, Ids)
      BY DEF PaidOn
    <3>5. PaidOn(acc.rows, Ids) \in Nat
      BY <1>2, PaidIs
    <3> HIDE DEF f, g
    <3>6. SumFunctionOnSet(g, Ids) = SumFunctionOnSet(f, Ids) + g[i] - f[i]
      BY <1>1, <3>1, <3>2, IdsAre, SumChange, ZenonT(40)
    <3> QED
      BY <1>4, <2>1, <2>5, <3>3, <3>4, <3>5, <3>6
  <2>12. \A k \in Ids : Settles(rs[k], new.rows[k])
    BY <1>2, <2>7, <2>8 DEF Rows
  <2>13. new.left = acc.left - applied
    OBVIOUS
  <2>14. PaidOn(new.rows, Ids) = PaidOn(rs, Ids) + x - new.left
    <3>1. PaidOn(rs, Ids) \in Nat
      BY PaidIs
    <3> HIDE DEF new
    <3> QED
      BY <1>2, <1>4, <2>3, <2>11, <2>13, <3>1
  <2>15. new \in [left : Nat, rows : Rows, principal : Fractions]
    BY <2>9, <2>10
  <2>16. PayRow(acc, i) = new
    BY <1>4
  <2> HIDE DEF new
  <2> QED
    BY <2>12, <2>14, <2>15, <2>16 DEF Paying
<1> QED
  BY <1>1, <1>2, <1>3, <1>4, PayRowIs

(* apply_loan_repayment: the schedule and the principal that are left in the *)
(* end are in every set that holds the schedule as it was and that no        *)
(* installment's turn leaves.                                                *)
LEMMA RepayStays ==
    ASSUME NEW v \in Views, NEW x \in Nat, NEW V,
           [left |-> x, rows |-> v.rows, principal |-> Whole(0)] \in V,
           \A acc \in V : \A i \in Live(v.rows) : PayRow(acc, i) \in V
    PROVE  \E paid \in V : Repay(v, x) = Repayment(v, x, paid)
<1> DEFINE L == Live(v.rows)
           base == [left |-> x, rows |-> v.rows, principal |-> Whole(0)]
           last(s) == Latest(v.rows, s)
           next(s, it) == PayRow(it[s \ {last(s)}], last(s))
           Eq(it) == it = [s \in SUBSET L |-> IF s = {} THEN base ELSE next(s, it)]
           step == [p \in L \X V |-> PayRow(p[2], p[1])]
           pick == [s \in SUBSET L |-> last(s)]
           it == CHOOSE g : Eq(g)
<1>1. L \subseteq Ids /\ IsFiniteSet(L) /\ v.rows \in Rows
  BY IdsAre, FS_Subset DEF Live, Views
<1>2. Repay(v, x) = Repayment(v, x, it[L])
  BY DEF Repay, Repayment, MapThenFoldSet
<1>3. base \in V
  OBVIOUS
<1>4. \A p \in L \X V : PayRow(p[2], p[1]) \in V
  OBVIOUS
<1>5. step \in [L \X V -> V]
  <2> HIDE DEF L
  <2> QED
    BY <1>4
<1>6. \A s \in SUBSET L : s # {} => last(s) \in s
  BY <1>1, LatestIs
<1> HIDE DEF L, base, last
<1>7. PICK g \in [SUBSET L -> V] : Folds(g, base, step, pick, SUBSET L)
  <2>1. \A s \in SUBSET L : s # {} => pick[s] \in s
    BY <1>6
  <2> HIDE DEF step, pick
  <2> QED
    BY <1>1, <1>3, <1>5, <2>1, FoldExists
<1>8. ASSUME NEW s \in SUBSET L
      PROVE  g[s] = IF s = {} THEN base ELSE next(s, g)
  <2>1. CASE s = {}
    BY <1>7, <2>1 DEF Folds
  <2>2. CASE s # {}
    <3>1. last(s) \in s /\ s \ {last(s)} \in SUBSET L /\ pick[s] = last(s)
      BY <1>6, <2>2
    <3>2. g[s] = step[<<last(s), g[s \ {last(s)}]>>]
      <4> HIDE DEF step, pick
      <4> QED
        BY <1>7, <2>2, <3>1 DEF Folds
    <3>3. <<last(s), g[s \ {last(s)}]>> \in L \X V
      BY <3>1
    <3> QED
      BY <2>2, <3>2, <3>3
  <2> QED
    BY <2>1, <2>2
<1>9. Eq(g)
  <2> HIDE DEF next
  <2> QED
    BY <1>8
<1>10. Eq(it)
  BY <1>9
<1> HIDE DEF it
<1>11. it[{}] \in V
  <2> HIDE DEF next
  <2> QED
    BY <1>3, <1>10
<1>12. ASSUME NEW s \in SUBSET L, s # {}, it[s \ {last(s)}] \in V
       PROVE  it[s] \in V
  <2>1. it[s] = next(s, it)
    <3> HIDE DEF next
    <3> QED
      BY <1>10, <1>12
  <2>2. last(s) \in L
    BY <1>6, <1>12
  <2>3. <<last(s), it[s \ {last(s)}]>> \in L \X V
    BY <1>12, <2>2
  <2> QED
    BY <1>4, <2>1, <2>3
<1>13. \A s \in SUBSET L : s # {} => \E i \in s : it[s \ {i}] \in V => it[s] \in V
  BY <1>6, <1>12
<1>14. it[L] \in V
  BY <1>1, <1>11, <1>13, FoldStays
<1> QED
  BY <1>2, <1>14

(* Rows are only paid on.                                                    *)
LEMMA RepayIs ==
    ASSUME NEW v \in Views, NEW x \in Nat
    PROVE  \E paid \in Paying(v.rows, x) : Repay(v, x) = Repayment(v, x, paid)
<1> DEFINE base == [left |-> x, rows |-> v.rows, principal |-> Whole(0)]
<1>1. v.rows \in Rows
  BY DEF Views
<1>2. base \in Paying(v.rows, x)
  <2>1. PaidOn(v.rows, Ids) \in Nat
    BY <1>1, PaidIs
  <2>2. Whole(0) \in Fractions
    BY FractionsClosed
  <2>3. base \in [left : Nat, rows : Rows, principal : Fractions]
    BY <1>1, <2>2
  <2>4. PaidOn(base.rows, Ids) = PaidOn(v.rows, Ids) + x - base.left
    BY <2>1
  <2> QED
    BY <2>3, <2>4 DEF Paying, Settles
<1>3. \A acc \in Paying(v.rows, x) : \A i \in Live(v.rows) : PayRow(acc, i) \in Paying(v.rows, x)
  BY <1>1, PayRowStays
<1> QED
  BY <1>2, <1>3, RepayStays

-----------------------------------------------------------------------------
(* What a request makes of what it read                                     *)

Requests == {j \in [kind : Kinds, amount : Nat, month : Nat] : j.amount \in Inputs(j.kind)}

\* rows nobody has paid on yet
Opened(added) ==
    \A i \in 1 .. Len(added) :
        added[i].live /\ ~ added[i].isPaid /\ added[i].paid = 0 /\ added[i].penalty = 0

(* The rows of a new schedule: as many as asked for, all of them open, each  *)
(* with the principal and the interest of its installment.                   *)
LEMMA NewRowsAre ==
    ASSUME NEW principal \in Fractions, NEW m \in Positive, NEW n \in Nat, NEW today \in Nat
    PROVE  /\ NewRows(principal, m, n, today) \in Seq(Row)
           /\ Len(NewRows(principal, m, n, today)) = m
           /\ Opened(NewRows(principal, m, n, today))
           /\ \A i \in 1 .. m : Due(NewRows(principal, m, n, today)[i])
                  = BuildSchedule(principal, Rate, m)[i].principal
                      + BuildSchedule(principal, Rate, m)[i].interest
<1> DEFINE built == BuildSchedule(principal, Rate, m)
           row(i) == [live |-> TRUE, number |-> n + i, due |-> today + i,
                      principal |-> built[i].principal, interest |-> built[i].interest,
                      penalty |-> 0, paid |-> 0, isPaid |-> FALSE]
           new == [i \in 1 .. m |-> row(i)]
<1>1. m \in Nat /\ \A i \in 1 .. m : built[i].principal \in Int /\ built[i].interest \in Int
  <2>1. \A i \in 1 .. m : built[i] \in Installments
    BY ConstantsAre, ScheduleIs
  <2> HIDE DEF built
  <2> QED
    BY <2>1 DEF Installments, Positive
<1>2. NewRows(principal, m, n, today) = new
  BY DEF NewRows
<1> HIDE DEF built
<1>3. ASSUME NEW i \in 1 .. m
      PROVE  /\ row(i) \in Row
             /\ row(i).live /\ ~ row(i).isPaid /\ row(i).paid = 0 /\ row(i).penalty = 0
             /\ Due(row(i)) = built[i].principal + built[i].interest
  <2>2. i \in Nat /\ n + i \in Nat /\ today + i \in Nat
    BY <1>1
  <2>3. built[i].principal \in Int /\ built[i].interest \in Int
    BY <1>1
  <2> QED
    BY <2>2, <2>3 DEF Row, Due
<1> HIDE DEF row
<1>4. new \in Seq(Row) /\ Len(new) = m
  BY <1>1, <1>3
<1>5. \A i \in 1 .. m : new[i] = row(i)
  OBVIOUS
<1> HIDE DEF new
<1> QED
  BY <1>2, <1>3, <1>4, <1>5 DEF Opened, built

(* The number of the last installment that is paid.                          *)
LEMMA LastPaidIs == \A rs \in Rows : LastPaid(rs) \in Nat
<1> SUFFICES ASSUME NEW rs \in Rows
             PROVE  LastPaid(rs) \in Nat
  OBVIOUS
<1> DEFINE S == Live(rs) \ Unpaid(rs)
           some == {rs[i].number : i \in S}
           numbers == some \cup {0}
           f == [i \in S |-> rs[i].number]
<1>1. S \subseteq Ids
  BY DEF Live
<1>2. IsFiniteSet(S)
  BY <1>1, PaidIs
<1>3. LastPaid(rs) = CHOOSE n \in numbers : \A k \in numbers : k <= n
  BY DEF LastPaid
<1> HIDE DEF S
<1>4. some \subseteq Nat
  BY <1>1 DEF Rows, Row
<1>5. IsFiniteSet(some)
  <2>1. \A x \in some : \E i \in S : f[i] = x
    OBVIOUS
  <2>2. f \in Surjection(S, some)
    BY <2>1 DEF Surjection
  <2> QED
    BY <1>2, <2>2, FS_Surjection
<1> HIDE DEF some
<1>6. IsFiniteSet(numbers) /\ numbers \subseteq Int /\ numbers # {} /\ numbers \subseteq Nat
  BY <1>4, <1>5, FS_AddElement
<1> HIDE DEF numbers
<1>7. \E n \in numbers : \A k \in numbers : k <= n
  BY <1>6, HasGreatest
<1> QED
  BY <1>3, <1>6, <1>7

(* What a write-off credits is an amount.                                    *)
LEMMA WriteOffAmountIs == \A rs \in Rows : WriteOffAmount(rs) \in Nat
<1> SUFFICES ASSUME NEW rs \in Rows
             PROVE  WriteOffAmount(rs) \in Nat
  OBVIOUS
<1> DEFINE f == [i \in Ids |-> IF Outstanding(rs[i]) > 0 THEN Outstanding(rs[i]) ELSE 0]
<1>1. Unpaid(rs) \in SUBSET Ids
  BY DEF Unpaid, Live
<1>2. IsFiniteSet(Unpaid(rs))
  BY <1>1, PaidIs
<1>3. \A i \in Ids : Outstanding(rs[i]) \in Int
  BY DuesAre DEF Rows
<1>4. \A i \in Unpaid(rs) : f[i] \in Nat
  BY <1>1, <1>3
<1>5. WriteOffAmount(rs) = SumFunctionOnSet(f, Unpaid(rs))
  BY DEF WriteOffAmount
<1> HIDE DEF f
<1> QED
  BY <1>2, <1>4, <1>5, SumNat

(* A penalty is an amount, and Penalize adds it only where it is positive.   *)
LEMMA PenaltyIs == \A row \in Row : Penalty(row) \in Int
<1> SUFFICES ASSUME NEW row \in Row
             PROVE  Penalty(row) \in Int
  OBVIOUS
<1> DEFINE n == (row.principal + row.interest - row.paid) * PenaltyPct
<1>1. row.principal + row.interest - row.paid \in Int
  BY DEF Row
<1>2. n \in Int
  BY <1>1, ConstantsAre
<1>3. Penalty(row) = Cents(Frac(n, 100))
  BY DEF Penalty
<1> HIDE DEF n
<1>4. Frac(n, 100) \in Fractions
  BY <1>2 DEF Frac, Fractions
<1> QED
  BY <1>3, <1>4, CentsNear

(* Entries are in cents.                                                     *)
LEMMA EntriesAre ==
    /\ DisbursementGl \in Int
    /\ \A p \in Fractions : RepaymentGl(p) \in Int
    /\ \A n \in Nat : WriteOffGl(n) \in Int
<1>1. \A p \in Fractions : RepaymentGl(p) \in Int
  BY CentsNear DEF RepaymentGl
<1> QED
  BY <1>1, ConstantsAre DEF DisbursementGl, WriteOffGl

\* rows that do not exist ask for nothing and have nothing paid on them
Tidy(rs) == \A i \in Ids : rs[i].live \/ rs[i] = Blank

\* rows of v that new deletes
Deleted(v, new) == {i \in Live(v.rows) : ~ new.rows[i].live}

\* a row that new marks as paid is covered, or was marked before
MarksCovered(v, new) ==
    \A i \in Ids : new.rows[i].live /\ new.rows[i].isPaid =>
        \/ Outstanding(new.rows[i]) <= 0
        \/ v.rows[i].live /\ v.rows[i].isPaid /\ new.rows[i] = v.rows[i]

\* what is true of every request of kind k
Effect(k, v, new) ==
    /\ new \in Outcomes
    /\ Opened(new.added)
    /\ \A i \in Ids : new.rows[i].live => v.rows[i].live
    /\ Tidy(v.rows) => Tidy(new.rows)
    /\ \A i \in Ids : v.rows[i].penalty > 0 => new.rows[i].penalty \in {v.rows[i].penalty, 0}
    /\ k # "write_off" => MarksCovered(v, new)
    /\ Tidy(v.rows) =>
           PaidOn(new.rows, Ids)
               = PaidOn(v.rows, Ids) + new.took - PaidOn(v.rows, Deleted(v, new))

(* A row that does not exist has nothing on it.                              *)
LEMMA BlankHas == /\ Blank.live = FALSE /\ Blank.isPaid = FALSE
                  /\ Blank.paid = 0 /\ Blank.penalty = 0 /\ Due(Blank) = 0
  BY DEF Blank, Due

(* A request that leaves what is paid on the rows alone takes away only what *)
(* was on the rows that it deletes.                                          *)
LEMMA PaidKept ==
    ASSUME NEW v \in Views, NEW new, new.rows \in Rows, Tidy(v.rows),
           \A i \in Ids : new.rows[i].live => v.rows[i].live,
           \A i \in Ids : new.rows[i].paid = IF new.rows[i].live THEN v.rows[i].paid ELSE 0
    PROVE  /\ PaidOn(new.rows, Ids) = PaidOn(v.rows, Ids) - PaidOn(v.rows, Deleted(v, new))
           /\ PaidOn(v.rows, Ids) \in Int /\ PaidOn(v.rows, Deleted(v, new)) \in Int
<1> DEFINE f == [i \in Ids |-> v.rows[i].paid]
           g == [i \in Ids |-> new.rows[i].paid]
           D == Deleted(v, new)
           K == Ids \ D
           F(S) == SumFunctionOnSet(f, S)
           G(S) == SumFunctionOnSet(g, S)
<1>1. v.rows \in Rows /\ D \in SUBSET Ids /\ K \in SUBSET Ids /\ D \cap K = {} /\ D \cup K = Ids
  BY DEF Views, Deleted, Live
<1>2. \A i \in D : new.rows[i].live = FALSE
  BY <1>1 DEF Deleted, Rows, Row
<1>3. \A i \in K : ~ new.rows[i].live => v.rows[i].paid = 0
  BY BlankHas DEF Deleted, Live, Tidy
<1> HIDE DEF D, K
<1>4. IsFiniteSet(D) /\ IsFiniteSet(K)
  BY <1>1, PaidIs
<1>5. \A i \in Ids : f[i] \in Int /\ g[i] \in Int
  BY <1>1 DEF Rows, Row
<1>6. \A i \in D : g[i] = 0
  BY <1>1, <1>2
<1>7. \A i \in K : g[i] = f[i]
  BY <1>1, <1>3
<1>8. /\ PaidOn(new.rows, Ids) = G(D \cup K) /\ PaidOn(v.rows, Ids) = F(D \cup K)
      /\ PaidOn(v.rows, D) = F(D)
  BY <1>1 DEF PaidOn
<1> HIDE DEF f, g
<1>9. \A i \in D \cup K : f[i] \in Int /\ g[i] \in Int
  BY <1>1, <1>5
<1>10. F(D \cup K) = F(D) + F(K)
  BY <1>1, <1>4, <1>9, SumUnion
<1>11. G(D \cup K) = G(D) + G(K)
  BY <1>1, <1>4, <1>9, SumUnion
<1>12. G(D) = 0
  BY <1>4, <1>6, SumZero
<1>13. G(K) = F(K)
  BY <1>4, <1>7, <1>9, SumSame
<1>14. F(D) \in Int /\ F(K) \in Int /\ F(D \cup K) \in Int
  BY <1>4, <1>9, <1>10, SumTerms
<1> HIDE DEF F, G
<1> QED
  BY <1>8, <1>10, <1>11, <1>12, <1>13, <1>14 DEF D

(* disburse_loan.                                                            *)
LEMMA DisburseIs ==
    ASSUME NEW v \in Views, NEW today \in Nat
    PROVE  /\ Effect("disburse", v, Disburse(v, today))
           /\ Disburse(v, today).status = "active"
           /\ Disburse(v, today).rows = NoRows
           /\ Disburse(v, today).added = NewRows(Whole(Principal), Months, 0, today)
<1> DEFINE add == NewRows(Whole(Principal), Months, 0, today)
           new == [status |-> "active", rows |-> NoRows, added |-> add,
                   debit |-> DisbursementGl, took |-> 0]
<1>1. Disburse(v, today) = new
  BY DEF Disburse
<1>2. add \in Seq(Row) /\ Opened(add)
  <2>1. Whole(Principal) \in Fractions /\ Months \in Positive
    BY ConstantsAre, FractionsClosed
  <2> QED
    BY <2>1, NewRowsAre
<1> HIDE DEF add
<1>3. new \in Outcomes
  BY <1>2, BlankIs, EntriesAre DEF Outcomes, States
<1>4. \A i \in Ids : new.rows[i] = Blank
  BY DEF NoRows
<1>5. new.rows \in Rows /\ new.took = 0 /\ new.added = add /\ new.status = "active" /\ new.rows = NoRows
  BY BlankIs
<1> HIDE DEF new
<1>6. ASSUME Tidy(v.rows)
      PROVE  PaidOn(new.rows, Ids) = PaidOn(v.rows, Ids) + new.took - PaidOn(v.rows, Deleted(v, new))
  <2>1. /\ \A i \in Ids : new.rows[i].live => v.rows[i].live
        /\ \A i \in Ids : new.rows[i].paid = IF new.rows[i].live THEN v.rows[i].paid ELSE 0
    BY <1>4, BlankHas
  <2>2. /\ PaidOn(new.rows, Ids) = PaidOn(v.rows, Ids) - PaidOn(v.rows, Deleted(v, new))
        /\ PaidOn(v.rows, Ids) \in Int /\ PaidOn(v.rows, Deleted(v, new)) \in Int
    BY <1>5, <1>6, <2>1, PaidKept
  <2> QED
    BY <1>5, <2>2
<1>7. /\ \A i \in Ids : new.rows[i].live => v.rows[i].live
      /\ Tidy(new.rows)
      /\ \A i \in Ids : new.rows[i].penalty = 0
      /\ MarksCovered(v, new)
  BY <1>4, BlankHas DEF Tidy, MarksCovered
<1>8. Effect("disburse", v, new)
  BY <1>2, <1>3, <1>5, <1>6, <1>7 DEF Effect
<1> QED
  BY <1>1, <1>5, <1>8 DEF add

(* An update of the rows alone, that leaves the rows which do not exist      *)
(* alone, and on the others what is paid and whether they are paid.          *)
LEMMA UpdateIs ==
    ASSUME NEW k, NEW v \in Views, NEW rs \in Rows,
           \A i \in Ids : \/ rs[i] = v.rows[i]
                          \/ /\ v.rows[i].live /\ ~ v.rows[i].isPaid
                             /\ \E n \in Nat :
                                    /\ rs[i] = Marked(v.rows[i], n, v.rows[i].paid, v.rows[i].isPaid)
                                    /\ v.rows[i].penalty > 0 => n = 0
    PROVE  Effect(k, v, [Nothing(v) EXCEPT !.rows = rs])
<1> DEFINE new == [status |-> v.status, rows |-> rs, added |-> << >>, debit |-> 0, took |-> 0]
<1>1. [Nothing(v) EXCEPT !.rows = rs] = new
  BY DEF Nothing
<1>2. v.rows \in Rows /\ v.status \in States
  BY DEF Views
<1>3. new \in Outcomes /\ new.rows = rs /\ new.took = 0 /\ Opened(new.added)
  BY <1>2 DEF Outcomes, Opened
<1> HIDE DEF new
<1>4. ASSUME NEW i \in Ids
      PROVE  /\ rs[i].live = v.rows[i].live /\ rs[i].isPaid = v.rows[i].isPaid
             /\ rs[i].paid = v.rows[i].paid
             /\ rs[i].isPaid => rs[i] = v.rows[i]
             /\ ~ v.rows[i].live => rs[i] = v.rows[i]
             /\ v.rows[i].penalty > 0 => rs[i].penalty \in {v.rows[i].penalty, 0}
  <2>1. CASE rs[i] = v.rows[i]
    BY <2>1
  <2>2. CASE rs[i] # v.rows[i]
    <3>1. PICK n \in Nat : /\ rs[i] = Marked(v.rows[i], n, v.rows[i].paid, v.rows[i].isPaid)
                           /\ v.rows[i].penalty > 0 => n = 0
      BY <2>2
    <3>2. v.rows[i].live /\ ~ v.rows[i].isPaid
      BY <2>2
    <3>3. /\ rs[i].live = v.rows[i].live /\ rs[i].isPaid = v.rows[i].isPaid
          /\ rs[i].paid = v.rows[i].paid /\ rs[i].penalty = n
      BY ONLY <3>1 DEF Marked
    <3> QED
      BY <3>1, <3>2, <3>3
  <2> QED
    BY <2>1, <2>2
<1>5. ASSUME Tidy(v.rows)
      PROVE  PaidOn(new.rows, Ids) = PaidOn(v.rows, Ids) + new.took - PaidOn(v.rows, Deleted(v, new))
  <2>1. /\ \A i \in Ids : new.rows[i].live => v.rows[i].live
        /\ \A i \in Ids : new.rows[i].paid = IF new.rows[i].live THEN v.rows[i].paid ELSE 0
    BY <1>3, <1>4, <1>5, BlankHas DEF Tidy
  <2>2. /\ PaidOn(new.rows, Ids) = PaidOn(v.rows, Ids) - PaidOn(v.rows, Deleted(v, new))
        /\ PaidOn(v.rows, Ids) \in Int /\ PaidOn(v.rows, Deleted(v, new)) \in Int
    BY <1>3, <1>5, <2>1, PaidKept
  <2> QED
    BY <1>3, <2>2
<1>6. /\ \A i \in Ids : new.rows[i].live => v.rows[i].live
      /\ Tidy(v.rows) => Tidy(new.rows)
      /\ MarksCovered(v, new)
      /\ \A i \in Ids : v.rows[i].penalty > 0 => new.rows[i].penalty \in {v.rows[i].penalty, 0}
  BY <1>3, <1>4 DEF Tidy, MarksCovered
<1>7. Effect(k, v, new)
  BY <1>3, <1>5, <1>6 DEF Effect
<1> QED
  BY <1>1, <1>7

(* apply_loan_repayment: rows are only paid on.                              *)
LEMMA RepayDoes ==
    ASSUME NEW k, NEW v \in Views, NEW x \in Nat
    PROVE  /\ Effect(k, v, Repay(v, x))
           /\ Repay(v, x).added = << >>
           /\ \A i \in Ids : Settles(v.rows[i], Repay(v, x).rows[i])
           /\ Repay(v, x).status
                  = IF Live(v.rows) # {} /\ Unpaid(Repay(v, x).rows) = {} THEN "closed" ELSE v.status
<1>1. PICK paid \in Paying(v.rows, x) : Repay(v, x) = Repayment(v, x, paid)
  BY RepayIs
<1> DEFINE new == Repayment(v, x, paid)
<1>2. v.rows \in Rows /\ v.status \in States
  BY DEF Views
<1>3. /\ paid \in [left : Nat, rows : Rows, principal : Fractions]
      /\ PaidOn(paid.rows, Ids) = PaidOn(v.rows, Ids) + x - paid.left
      /\ \A i \in Ids : Settles(v.rows[i], paid.rows[i])
  BY DEF Paying
<1>4. /\ new.rows = paid.rows /\ new.took = x - paid.left /\ new.added = << >>
      /\ new.debit = RepaymentGl(paid.principal)
      /\ new.status = IF Live(v.rows) # {} /\ Unpaid(paid.rows) = {} THEN "closed" ELSE v.status
  BY DEF Repayment
<1>5. new \in Outcomes
  <2>1. RepaymentGl(paid.principal) \in Int /\ x - paid.left \in Int /\ paid.rows \in Rows
    BY <1>3, EntriesAre
  <2> QED
    BY <1>2, <2>1 DEF Repayment, Outcomes, States
<1> HIDE DEF new
<1>6. ASSUME NEW i \in Ids
      PROVE  /\ new.rows[i].live = v.rows[i].live
             /\ new.rows[i].penalty = v.rows[i].penalty
             /\ new.rows[i] = v.rows[i] \/ (v.rows[i].live /\ (new.rows[i].isPaid => Outstanding(new.rows[i]) <= 0))
  <2>1. new.rows[i] \in Row
    BY <1>5 DEF Outcomes, Rows
  <2>2. CASE new.rows[i] = v.rows[i]
    BY <2>2
  <2>3. CASE new.rows[i] # v.rows[i]
    <3>1. /\ new.rows[i] = Marked(v.rows[i], v.rows[i].penalty, new.rows[i].paid, new.rows[i].isPaid)
          /\ v.rows[i].live
          /\ new.rows[i].isPaid <=> Outstanding(new.rows[i]) = 0
      BY <1>3, <1>4, <2>3 DEF Settles
    <3>2. new.rows[i].live = v.rows[i].live /\ new.rows[i].penalty = v.rows[i].penalty
      <4>1. new.rows[i] = Marked(v.rows[i], v.rows[i].penalty, new.rows[i].paid, new.rows[i].isPaid)
        BY <3>1
      <4>2. new.rows[i].live = v.rows[i].live
        BY ONLY <4>1 DEF Marked
      <4>3. new.rows[i].penalty = v.rows[i].penalty
        BY ONLY <4>1 DEF Marked
      <4> QED
        BY <4>2, <4>3
    <3> QED
      BY <3>1, <3>2
  <2> QED
    BY <2>2, <2>3
<1>7. Deleted(v, new) = {}
  BY <1>6 DEF Deleted, Live
<1>8. PaidOn(new.rows, Ids) = PaidOn(v.rows, Ids) + new.took - PaidOn(v.rows, Deleted(v, new))
  <2>1. PaidOn(v.rows, {}) = 0
    BY SumEmpty DEF PaidOn
  <2>2. PaidOn(v.rows, Ids) \in Nat
    BY <1>2, PaidIs
  <2> QED
    BY <1>3, <1>4, <1>7, <2>1, <2>2
<1>9. /\ \A i \in Ids : new.rows[i].live => v.rows[i].live
      /\ Tidy(v.rows) => Tidy(new.rows)
      /\ MarksCovered(v, new)
      /\ \A i \in Ids : v.rows[i].penalty > 0 => new.rows[i].penalty \in {v.rows[i].penalty, 0}
      /\ Opened(new.added)
  BY <1>4, <1>6 DEF Tidy, MarksCovered, Opened
<1>10. Effect(k, v, new)
  BY <1>5, <1>8, <1>9 DEF Effect
<1> QED
  BY <1>1, <1>3, <1>4, <1>10 DEF new

(* apply_overdue_penalties: only penalties change, and only from nothing.    *)
LEMMA PenalizeIs ==
    ASSUME NEW v \in Views, NEW today \in Nat
    PROVE  /\ Effect("penalties", v, Penalize(v, today))
           /\ Penalize(v, today).status = v.status /\ Penalize(v, today).added = << >>
           /\ \A i \in Ids :
                  \/ Penalize(v, today).rows[i] = v.rows[i]
                  \/ \E n \in Nat : Penalize(v, today).rows[i]
                         = Marked(v.rows[i], v.rows[i].penalty + n, v.rows[i].paid, v.rows[i].isPaid)
<1> DEFINE overdue == Overdue(v.rows, today)
           rs == [i \in Ids |-> IF i \in overdue THEN [v.rows[i] EXCEPT !.penalty = Penalty(v.rows[i])]
                                ELSE v.rows[i]]
           charge == [Nothing(v) EXCEPT !.rows = rs]
           new == Penalize(v, today)
<1>1. v.rows \in Rows
  BY DEF Views
<1>2. CASE v.status # "active"
  <2>1. new = Nothing(v) /\ Nothing(v).rows = v.rows /\ Nothing(v).status = v.status /\ Nothing(v).added = << >>
    BY <1>2 DEF Penalize, Nothing
  <2>2. [Nothing(v) EXCEPT !.rows = v.rows] = Nothing(v)
    BY DEF Nothing
  <2>3. Effect("penalties", v, [Nothing(v) EXCEPT !.rows = v.rows])
    BY <1>1, UpdateIs
  <2> HIDE DEF new
  <2> QED
    BY <2>1, <2>2, <2>3 DEF new
<1>3. CASE v.status = "active"
  <2>1. new = charge
    BY <1>3 DEF Penalize
  <2>2. charge.rows = rs /\ charge.status = v.status /\ charge.added = << >>
    BY DEF Nothing
  <2>3. ASSUME NEW i \in Ids
        PROVE  \/ rs[i] = v.rows[i]
               \/ /\ v.rows[i].live /\ ~ v.rows[i].isPaid /\ v.rows[i].penalty = 0
                  /\ Penalty(v.rows[i]) \in Nat
                  /\ rs[i] = Marked(v.rows[i], Penalty(v.rows[i]), v.rows[i].paid, v.rows[i].isPaid)
    <3>1. CASE i \notin overdue
      BY <3>1
    <3>2. CASE i \in overdue
      <4>1. /\ v.rows[i].live /\ ~ v.rows[i].isPaid /\ v.rows[i].penalty = 0
            /\ Penalty(v.rows[i]) > 0
        BY <3>2 DEF Overdue, Unpaid, Live
      <4>2. v.rows[i] \in Row
        BY <1>1 DEF Rows
      <4>3. Penalty(v.rows[i]) \in Nat
        BY <4>1, <4>2, PenaltyIs
      <4>4. rs[i] = [v.rows[i] EXCEPT !.penalty = Penalty(v.rows[i])]
        BY <3>2
      <4> HIDE DEF rs
      <4>5. [v.rows[i] EXCEPT !.penalty = Penalty(v.rows[i])]
                = Marked(v.rows[i], Penalty(v.rows[i]), v.rows[i].paid, v.rows[i].isPaid)
        BY <4>2, <4>3, RowMarked
      <4> QED
        BY <4>1, <4>3, <4>4, <4>5
    <3> QED
      BY <3>1, <3>2
  <2>4. rs \in Rows
    <3>1. \A i \in Ids : rs[i] \in Row
      <4> SUFFICES ASSUME NEW i \in Ids
                   PROVE  rs[i] \in Row
        OBVIOUS
      <4>1. v.rows[i] \in Row /\ v.rows[i].paid \in Nat /\ v.rows[i].isPaid \in BOOLEAN
        BY <1>1 DEF Rows, Row
      <4> HIDE DEF rs
      <4> QED
        BY <2>3, <4>1, MarkedIs
    <3> QED
      BY <3>1 DEF Rows
  <2> HIDE DEF rs
  <2>5. Effect("penalties", v, charge)
    <3>1. \A i \in Ids : \/ rs[i] = v.rows[i]
                         \/ /\ v.rows[i].live /\ ~ v.rows[i].isPaid
                            /\ \E n \in Nat :
                                  /\ rs[i] = Marked(v.rows[i], n, v.rows[i].paid, v.rows[i].isPaid)
                                  /\ v.rows[i].penalty > 0 => n = 0
      BY <2>3
    <3> QED
      BY <2>4, <3>1, UpdateIs
  <2>6. \A i \in Ids : \/ rs[i] = v.rows[i]
                       \/ \E n \in Nat : rs[i]
                              = Marked(v.rows[i], v.rows[i].penalty + n, v.rows[i].paid, v.rows[i].isPaid)
    <3> SUFFICES ASSUME NEW i \in Ids, rs[i] # v.rows[i]
                 PROVE  \E n \in Nat : rs[i]
                            = Marked(v.rows[i], v.rows[i].penalty + n, v.rows[i].paid, v.rows[i].isPaid)
      OBVIOUS
    <3>1. /\ v.rows[i].penalty = 0 /\ Penalty(v.rows[i]) \in Nat
          /\ rs[i] = Marked(v.rows[i], Penalty(v.rows[i]), v.rows[i].paid, v.rows[i].isPaid)
      BY <2>3
    <3>2. v.rows[i].penalty + Penalty(v.rows[i]) = Penalty(v.rows[i])
      BY <3>1
    <3> QED
      BY <3>1, <3>2
  <2> HIDE DEF charge, new
  <2> QED
    BY <2>1, <2>2, <2>5, <2>6 DEF new
<1> QED
  BY <1>2, <1>3

(* waive_loan_penalties: penalties of unpaid rows become nothing.            *)
LEMMA WaiveIs ==
    ASSUME NEW v \in Views
    PROVE  /\ Effect("waive", v, Waive(v))
           /\ Waive(v).status = v.status /\ Waive(v).added = << >>
           /\ Penalized(v.rows) = {} => Waive(v).rows = v.rows
<1> DEFINE rs == [i \in Ids |-> IF i \in Penalized(v.rows) THEN [v.rows[i] EXCEPT !.penalty = 0]
                                ELSE v.rows[i]]
<1>1. v.rows \in Rows
  BY DEF Views
<1>2. Waive(v) = [Nothing(v) EXCEPT !.rows = rs]
  BY DEF Waive
<1>3. /\ [Nothing(v) EXCEPT !.rows = rs].rows = rs
      /\ [Nothing(v) EXCEPT !.rows = rs].status = v.status
      /\ [Nothing(v) EXCEPT !.rows = rs].added = << >>
  BY DEF Nothing
<1>4. ASSUME NEW i \in Ids
      PROVE  \/ rs[i] = v.rows[i]
             \/ /\ v.rows[i].live /\ ~ v.rows[i].isPaid
                /\ rs[i] = Marked(v.rows[i], 0, v.rows[i].paid, v.rows[i].isPaid)
  <2>1. CASE i \notin Penalized(v.rows)
    BY <2>1
  <2>2. CASE i \in Penalized(v.rows)
    <3>1. v.rows[i].live /\ ~ v.rows[i].isPaid /\ v.rows[i] \in Row
      BY <1>1, <2>2 DEF Penalized, Unpaid, Live, Rows
    <3>2. rs[i] = [v.rows[i] EXCEPT !.penalty = 0]
      BY <2>2
    <3> HIDE DEF rs
    <3> QED
      BY <3>1, <3>2, RowMarked
  <2> QED
    BY <2>1, <2>2
<1>5. rs \in Rows
  <2>1. \A i \in Ids : rs[i] \in Row
    <3> SUFFICES ASSUME NEW i \in Ids
                 PROVE  rs[i] \in Row
      OBVIOUS
    <3>1. v.rows[i] \in Row /\ v.rows[i].paid \in Nat /\ v.rows[i].isPaid \in BOOLEAN
      BY <1>1 DEF Rows, Row
    <3> HIDE DEF rs
    <3> QED
      BY <1>4, <3>1, MarkedIs
  <2> QED
    BY <2>1 DEF Rows
<1>6. Penalized(v.rows) = {} => rs = v.rows
  BY <1>1 DEF Rows
<1> HIDE DEF rs
<1>7. \A i \in Ids : \/ rs[i] = v.rows[i]
                     \/ /\ v.rows[i].live /\ ~ v.rows[i].isPaid
                        /\ \E n \in Nat :
                              /\ rs[i] = Marked(v.rows[i], n, v.rows[i].paid, v.rows[i].isPaid)
                              /\ v.rows[i].penalty > 0 => n = 0
  BY <1>4
<1>8. Effect("waive", v, [Nothing(v) EXCEPT !.rows = rs])
  BY <1>5, <1>7, UpdateIs
<1> QED
  BY <1>2, <1>3, <1>6, <1>8

(* write_off_loan: every row is marked as paid.                              *)
LEMMA WriteOffIs ==
    ASSUME NEW v \in Views
    PROVE  /\ Effect("write_off", v, WriteOff(v))
           /\ WriteOff(v).status = "defaulted" /\ WriteOff(v).added = << >>
<1> DEFINE rs == [i \in Ids |-> IF i \in Live(v.rows) THEN [v.rows[i] EXCEPT !.isPaid = TRUE]
                                ELSE Blank]
           amount == WriteOffAmount(v.rows)
           new == [status |-> "defaulted", rows |-> rs, added |-> << >>,
                   debit |-> WriteOffGl(amount), took |-> 0]
<1>1. v.rows \in Rows
  BY DEF Views
<1>2. WriteOff(v) = new
  BY DEF WriteOff
<1>3. ASSUME NEW i \in Ids
      PROVE  /\ rs[i] \in Row
             /\ v.rows[i].live => /\ rs[i].live /\ rs[i].paid = v.rows[i].paid
                                  /\ rs[i].penalty = v.rows[i].penalty
             /\ ~ v.rows[i].live => rs[i] = Blank
  <2>1. v.rows[i] \in Row /\ v.rows[i].paid \in Nat /\ v.rows[i].penalty \in Nat
    BY <1>1 DEF Rows, Row
  <2>2. CASE v.rows[i].live
    <3>1. rs[i] = [v.rows[i] EXCEPT !.isPaid = TRUE]
      BY <2>2 DEF Live
    <3> HIDE DEF rs
    <3>2. \A b \in BOOLEAN : [v.rows[i] EXCEPT !.isPaid = b]
              = Marked(v.rows[i], v.rows[i].penalty, v.rows[i].paid, b)
      BY <2>1, RowMarked
    <3>3. \E b \in BOOLEAN : rs[i] = Marked(v.rows[i], v.rows[i].penalty, v.rows[i].paid, b)
      BY <3>1, <3>2
    <3>4. PICK b \in BOOLEAN : rs[i] = Marked(v.rows[i], v.rows[i].penalty, v.rows[i].paid, b)
      BY <3>3
    <3>5. rs[i] \in Row
      BY <2>1, <3>4, MarkedIs, SMTT(30)
    <3>6. /\ rs[i].live = v.rows[i].live /\ rs[i].paid = v.rows[i].paid
          /\ rs[i].penalty = v.rows[i].penalty
      BY <3>4 DEF Marked
    <3> QED
      BY <2>2, <3>5, <3>6
  <2>3. CASE ~ v.rows[i].live
    BY <2>3, BlankIs DEF Live
  <2> QED
    BY <2>2, <2>3
<1>4. rs \in Rows
  <2>1. \A i \in Ids : rs[i] \in Row
    BY <1>3
  <2> QED
    BY <2>1 DEF Rows
<1> HIDE DEF rs
<1>5. WriteOffGl(amount) \in Int
  BY <1>1, WriteOffAmountIs, EntriesAre
<1> HIDE DEF amount
<1>6. /\ new \in Outcomes /\ new.rows = rs /\ new.took = 0 /\ new.added = << >>
      /\ new.status = "defaulted" /\ Opened(new.added)
  BY <1>4, <1>5 DEF Outcomes, States, Opened
<1> HIDE DEF new
<1>7. /\ \A i \in Ids : new.rows[i].live => v.rows[i].live
      /\ \A i \in Ids : new.rows[i].paid = IF new.rows[i].live THEN v.rows[i].paid ELSE 0
  BY <1>3, <1>6, BlankHas
<1>8. Tidy(new.rows)
  BY <1>3, <1>6 DEF Tidy
<1>9. \A i \in Ids : v.rows[i].penalty > 0 => new.rows[i].penalty \in {v.rows[i].penalty, 0}
  BY <1>3, <1>6, BlankHas
<1>10. ASSUME Tidy(v.rows)
       PROVE  PaidOn(new.rows, Ids) = PaidOn(v.rows, Ids) + new.took - PaidOn(v.rows, Deleted(v, new))
  <2>1. /\ PaidOn(new.rows, Ids) = PaidOn(v.rows, Ids) - PaidOn(v.rows, Deleted(v, new))
        /\ PaidOn(v.rows, Ids) \in Int /\ PaidOn(v.rows, Deleted(v, new)) \in Int
    BY <1>4, <1>6, <1>7, <1>10, PaidKept
  <2> QED
    BY <1>6, <2>1
<1>11. Effect("write_off", v, new)
  BY <1>6, <1>7, <1>8, <1>9, <1>10 DEF Effect
<1> QED
  BY <1>2, <1>6, <1>11

(* reschedule_loan: what is not paid is deleted and asked for anew.          *)
LEMMA RescheduleIs ==
    ASSUME NEW v \in Views, NEW m \in Positive, NEW today \in Nat
    PROVE  /\ Effect("reschedule", v, Reschedule(v, m, today))
           /\ Reschedule(v, m, today).status = v.status
           /\ Len(Reschedule(v, m, today).added) = m
<1> DEFINE rs == [i \in Ids |-> IF i \in Unpaid(v.rows) THEN Blank ELSE v.rows[i]]
           add == NewRows(PrincipalLeft(v.rows), m, LastPaid(v.rows), today)
           new == [status |-> v.status, rows |-> rs, added |-> add, debit |-> 0, took |-> 0]
<1>1. v.rows \in Rows /\ v.status \in States
  BY DEF Views
<1>2. Reschedule(v, m, today) = new
  BY DEF Reschedule
<1>3. add \in Seq(Row) /\ Len(add) = m /\ Opened(add)
  <2>1. PrincipalLeft(v.rows) \in Fractions /\ LastPaid(v.rows) \in Nat
    BY <1>1, PrincipalLeftIs, LastPaidIs
  <2> QED
    BY <2>1, NewRowsAre
<1> HIDE DEF add
<1>4. \A i \in Ids : /\ rs[i] \in Row
                     /\ rs[i] = Blank \/ (rs[i] = v.rows[i] /\ (v.rows[i].live => v.rows[i].isPaid))
  BY <1>1, BlankIs DEF Rows, Unpaid, Live
<1>5. rs \in Rows
  BY <1>4 DEF Rows
<1> HIDE DEF rs
<1>6. /\ new \in Outcomes /\ new.rows = rs /\ new.took = 0 /\ new.added = add
      /\ new.status = v.status
  BY <1>1, <1>3, <1>5 DEF Outcomes
<1> HIDE DEF new
<1>7. /\ \A i \in Ids : new.rows[i].live => v.rows[i].live
      /\ Tidy(v.rows) => Tidy(new.rows)
      /\ \A i \in Ids : v.rows[i].penalty > 0 => new.rows[i].penalty \in {v.rows[i].penalty, 0}
      /\ MarksCovered(v, new)
  BY <1>4, <1>6, BlankHas DEF Tidy, MarksCovered
<1>8. ASSUME Tidy(v.rows)
      PROVE  PaidOn(new.rows, Ids) = PaidOn(v.rows, Ids) + new.took - PaidOn(v.rows, Deleted(v, new))
  <2>1. \A i \in Ids : new.rows[i].paid = IF new.rows[i].live THEN v.rows[i].paid ELSE 0
    BY <1>4, <1>6, <1>8, BlankHas DEF Tidy
  <2>2. /\ PaidOn(new.rows, Ids) = PaidOn(v.rows, Ids) - PaidOn(v.rows, Deleted(v, new))
        /\ PaidOn(v.rows, Ids) \in Int /\ PaidOn(v.rows, Deleted(v, new)) \in Int
    BY <1>5, <1>6, <1>7, <1>8, <2>1, PaidKept
  <2> QED
    BY <1>6, <2>2
<1>9. Effect("reschedule", v, new)
  BY <1>3, <1>6, <1>7, <1>8 DEF Effect
<1> QED
  BY <1>2, <1>3, <1>6, <1>9

(* Every request, on whatever it read.                                       *)
LEMMA AfterIs ==
    ASSUME NEW v \in Views, NEW j \in Requests
    PROVE  Effect(j.kind, v, After(j, v))
<1>1. j.kind \in Kinds /\ j.amount \in Nat /\ j.month \in Nat /\ j.amount \in Inputs(j.kind)
  BY DEF Requests
<1>2. CASE j.kind = "disburse"
  BY <1>1, <1>2, DisburseIs DEF After
<1>3. CASE j.kind \in {"repay", "payroll"}
  BY <1>1, <1>3, RepayDoes DEF After
<1>4. CASE j.kind = "penalties"
  BY <1>1, <1>4, PenalizeIs DEF After
<1>5. CASE j.kind = "waive"
  BY <1>1, <1>5, WaiveIs DEF After
<1>6. CASE j.kind = "write_off"
  BY <1>1, <1>6, WriteOffIs DEF After
<1>7. CASE j.kind = "reschedule"
  <2>1. j.amount \in Positive
    BY <1>1, <1>7, ConstantsAre DEF Inputs
  <2> QED
    BY <1>1, <1>7, <2>1, RescheduleIs DEF After
<1> QED
  BY <1>1, <1>2, <1>3, <1>4, <1>5, <1>6, <1>7 DEF Kinds

-----------------------------------------------------------------------------
(* Types                                                                    *)

\* a session works on what its request's guard accepted
WorkIsAccepted ==
    \A s \in Sessions : phase[s] = "working" =>
        /\ job[s] \in Requests /\ job[s].kind \in Operations
        /\ Accepts(job[s].kind, view[s])

Typed == TypeOK /\ WorkIsAccepted

(* A row after a commit: what the commit changed, and the rest as it was.    *)
LEMMA MergeIs ==
    ASSUME NEW a \in Row, NEW b \in Row, NEW c \in Row
    PROVE  Merge(a, b, c) \in Row /\ Merge(a, b, a) = b
<1> DEFINE f == Merge(a, b, c)
           g == Merge(a, b, a)
           fields == {"live", "number", "due", "principal", "interest", "penalty", "paid", "isPaid"}
<1>1. DOMAIN a = fields /\ DOMAIN b = fields /\ DOMAIN c = fields
  BY DEF Row
<1>2. /\ f = [d \in fields |-> IF b[d] # a[d] THEN b[d] ELSE c[d]]
      /\ g = [d \in fields |-> IF b[d] # a[d] THEN b[d] ELSE a[d]]
  BY <1>1 DEF Merge
<1>3. f = [live |-> f["live"], number |-> f["number"], due |-> f["due"],
           principal |-> f["principal"], interest |-> f["interest"],
           penalty |-> f["penalty"], paid |-> f["paid"], isPaid |-> f["isPaid"]]
  BY <1>2
<1> QED
  BY <1>1, <1>2, <1>3 DEF Row

(* What a request may carry is an amount.                                    *)
LEMMA InputsAre == \A k \in Kinds : Inputs(k) \subseteq Nat
  BY TermsAssumption DEF Inputs, Kinds

(* The program starts with a loan that has no rows yet.                      *)
LEMMA TypedInit == Init => Typed
<1> SUFFICES ASSUME Init
             PROVE  Typed
  OBVIOUS
<1>1. TypeOK
  <2>1. /\ status \in States /\ used \in 0 .. MaxRows /\ receivable \in Int /\ taken \in Int
        /\ dropped \in Int /\ repayments \in Nat /\ waived \subseteq Ids /\ writtenOff \in BOOLEAN
        /\ month \in 0 .. LastMonth /\ ops \in 0 .. MaxOps
    <3>1. 0 \in 0 .. MaxRows /\ 0 \in 0 .. LastMonth /\ 0 \in 0 .. MaxOps
      BY InstanceAssumption
    <3>2. used \in 0 .. MaxRows /\ month \in 0 .. LastMonth /\ ops \in 0 .. MaxOps
      BY <3>1, Zenon DEF Init
    <3>3. receivable \in Int /\ taken \in Int /\ dropped \in Int /\ repayments \in Nat
      BY DEF Init
    <3>4. waived \subseteq Ids /\ writtenOff \in BOOLEAN
      BY DEF Init
    <3>5. status \in States
      BY DEF Init, States
    <3> QED
      BY <3>2, <3>3, <3>4, <3>5
  <2>2. rows \in [Ids -> Row]
    BY BlankIs DEF Init, Rows
  <2>3. phase \in [Sessions -> {"idle", "working"}] /\ stale \in [Sessions -> BOOLEAN]
    BY DEF Init
  <2>4. NoJob \in [kind : Kinds, amount : Nat, month : 0 .. LastMonth]
    BY InstanceAssumption DEF NoJob, Kinds
  <2>5. Unread \in [status : States, rows : [Ids -> Row]]
    BY BlankIs DEF Unread, States, Rows
  <2>6. /\ job \in [Sessions -> [kind : Kinds, amount : Nat, month : 0 .. LastMonth]]
        /\ view \in [Sessions -> [status : States, rows : [Ids -> Row]]]
    BY <2>4, <2>5 DEF Init
  <2> QED
    BY <2>1, <2>2, <2>3, <2>6 DEF TypeOK
<1>2. \A s \in Sessions : phase[s] # "working"
  BY DEF Init
<1> QED
  BY <1>1, <1>2 DEF Typed, WorkIsAccepted

(* A request that begins reads the loan as it is.                            *)
LEMMA TypedBegin ==
    ASSUME Typed, NEW s \in Sessions, NEW k \in Operations, NEW x \in Inputs(k), Begin(s, k, x)
    PROVE  Typed'
<1>1. k \in Kinds /\ x \in Nat
  BY InputsAre, InstanceAssumption
<1>2. month \in 0 .. LastMonth /\ ops \in 0 .. MaxOps /\ MaxOps \in Nat /\ LastMonth \in Nat
  BY InstanceAssumption DEF Typed, TypeOK
<1> DEFINE now == [kind |-> k, amount |-> x, month |-> month]
<1>3. now \in [kind : Kinds, amount : Nat, month : 0 .. LastMonth] /\ now \in Requests
  <2>1. 0 .. LastMonth \subseteq Nat
    BY <1>2
  <2> QED
    BY <1>1, <1>2, <2>1 DEF Requests
<1>4. Current \in [status : States, rows : [Ids -> Row]]
  BY DEF Typed, TypeOK, Current
<1>5. /\ phase' = [phase EXCEPT ![s] = "working"] /\ job' = [job EXCEPT ![s] = now]
      /\ view' = [view EXCEPT ![s] = Current] /\ ops' = ops + 1 /\ ops < MaxOps
      /\ UNCHANGED <<books, month, stale>> /\ Accepts(k, Current)
  BY DEF Begin
<1>6. now.kind = k
  OBVIOUS
<1> HIDE DEF now
<1>7. ops' \in 0 .. MaxOps
  BY <1>2, <1>5
<1>8. TypeOK'
  <2>1. phase' \in [Sessions -> {"idle", "working"}]
    BY <1>5 DEF Typed, TypeOK
  <2>2. job' \in [Sessions -> [kind : Kinds, amount : Nat, month : 0 .. LastMonth]]
    BY <1>3, <1>5 DEF Typed, TypeOK
  <2>3. view' \in [Sessions -> [status : States, rows : [Ids -> Row]]]
    BY <1>4, <1>5 DEF Typed, TypeOK
  <2> QED
    BY <1>5, <1>7, <2>1, <2>2, <2>3 DEF Typed, TypeOK, books
<1>9. ASSUME NEW q \in Sessions, phase'[q] = "working"
      PROVE  job'[q] \in Requests /\ job'[q].kind \in Operations /\ Accepts(job'[q].kind, view'[q])
  <2>1. CASE q = s
    <3>1. job'[q] = now /\ view'[q] = Current
      BY <1>5, <2>1 DEF Typed, TypeOK
    <3> QED
      BY <1>3, <1>5, <1>6, <3>1
  <2>2. CASE q # s
    <3>1. job'[q] = job[q] /\ view'[q] = view[q] /\ phase'[q] = phase[q]
      BY <1>5, <2>2 DEF Typed, TypeOK
    <3> QED
      BY <1>9, <3>1 DEF Typed, WorkIsAccepted
  <2> QED
    BY <2>1, <2>2
<1> QED
  BY <1>8, <1>9 DEF Typed, WorkIsAccepted, Accepts

(* A session that ends reads and does nothing.                               *)
LEMMA TypedEnd ==
    ASSUME Typed, NEW s \in Sessions, End(s)
    PROVE  /\ phase' \in [Sessions -> {"idle", "working"}]
           /\ job' \in [Sessions -> [kind : Kinds, amount : Nat, month : 0 .. LastMonth]]
           /\ view' \in [Sessions -> [status : States, rows : [Ids -> Row]]]
           /\ WorkIsAccepted'
<1>1. NoJob \in [kind : Kinds, amount : Nat, month : 0 .. LastMonth]
  BY InstanceAssumption DEF NoJob, Kinds
<1>2. Unread \in [status : States, rows : [Ids -> Row]]
  BY BlankIs DEF Unread, States, Rows
<1>3. /\ phase' = [phase EXCEPT ![s] = "idle"] /\ job' = [job EXCEPT ![s] = NoJob]
      /\ view' = [view EXCEPT ![s] = Unread]
  BY DEF End
<1>4. phase' \in [Sessions -> {"idle", "working"}]
  BY <1>3 DEF Typed, TypeOK
<1>5. job' \in [Sessions -> [kind : Kinds, amount : Nat, month : 0 .. LastMonth]]
  BY <1>1, <1>3 DEF Typed, TypeOK
<1>6. view' \in [Sessions -> [status : States, rows : [Ids -> Row]]]
  BY <1>2, <1>3 DEF Typed, TypeOK
<1>7. ASSUME NEW q \in Sessions, phase'[q] = "working"
      PROVE  job'[q] \in Requests /\ job'[q].kind \in Operations /\ Accepts(job'[q].kind, view'[q])
  <2>1. q # s
    BY <1>3, <1>7 DEF Typed, TypeOK
  <2>2. job'[q] = job[q] /\ view'[q] = view[q] /\ phase'[q] = phase[q]
    BY <1>3, <2>1 DEF Typed, TypeOK
  <2> QED
    BY <1>7, <2>2 DEF Typed, WorkIsAccepted
<1> QED
  BY <1>4, <1>5, <1>6, <1>7 DEF WorkIsAccepted, Accepts

(* What a commit makes of the books.                                         *)
LEMMA TypedCommit ==
    ASSUME Typed, NEW s \in Sessions, Commit(s)
    PROVE  Typed'
<1> DEFINE j == job[s]
           v == view[s]
           new == After(j, v)
           deleted == {i \in Live(v.rows) : ~ new.rows[i].live}
<1>1. /\ phase[s] = "working" /\ used + Len(new.added) <= MaxRows
      /\ status' = IF new.status # v.status THEN new.status ELSE status
      /\ rows' = [i \in Ids |->
            IF i \in deleted THEN Blank
            ELSE IF i > used /\ i <= used + Len(new.added) THEN new.added[i - used]
            ELSE Merge(v.rows[i], new.rows[i], rows[i])]
      /\ used' = used + Len(new.added)
      /\ receivable' = receivable + new.debit
      /\ taken' = taken + new.took
      /\ dropped' = dropped + PaidOn(v.rows, deleted)
      /\ repayments' = IF j.kind \in {"repay", "payroll", "reschedule"} THEN repayments + 1
                       ELSE repayments
      /\ waived' = IF j.kind = "waive" THEN waived \cup Penalized(v.rows) ELSE waived
      /\ writtenOff' = (writtenOff \/ j.kind = "write_off")
      /\ stale' = [q \in Sessions |->
            /\ q # s
            /\ \/ stale[q]
               \/ phase[q] = "working" /\ (status' # status \/ rows' # rows)]
      /\ End(s) /\ UNCHANGED <<month, ops>>
  BY DEF Commit, MayCommit
<1>2. j \in Requests /\ v \in Views
  BY <1>1 DEF Typed, TypeOK, WorkIsAccepted, Views, Rows
<1> HIDE DEF j, v
<1>3. /\ new.status \in States /\ new.rows \in Rows /\ new.added \in Seq(Row)
      /\ new.debit \in Int /\ new.took \in Int /\ v.rows \in Rows /\ v.status \in States
  <2>1. new \in Outcomes
    BY <1>2, AfterIs DEF Effect
  <2> HIDE DEF new
  <2> QED
    BY <1>2, <2>1 DEF Outcomes, Views
<1> HIDE DEF new
<1>4. deleted \in SUBSET Ids /\ PaidOn(v.rows, deleted) \in Nat
  <2>1. deleted \in SUBSET Ids
    BY DEF Live
  <2> HIDE DEF deleted
  <2> QED
    BY <1>3, <2>1, PaidIs
<1> HIDE DEF deleted
<1>5. /\ status \in States /\ rows \in Rows /\ used \in Nat /\ receivable \in Int /\ taken \in Int
      /\ dropped \in Int /\ repayments \in Nat /\ waived \subseteq Ids /\ writtenOff \in BOOLEAN
      /\ month \in 0 .. LastMonth /\ ops \in 0 .. MaxOps /\ MaxRows \in Nat
      /\ used <= MaxRows
  BY ConstantsAre DEF Typed, TypeOK, Rows
<1>6. rows' \in [Ids -> Row]
  <2>1. \A i \in Ids : Merge(v.rows[i], new.rows[i], rows[i]) \in Row
    BY <1>3, <1>5, MergeIs DEF Rows
  <2>2. \A i \in Ids : i > used /\ i <= used + Len(new.added) => new.added[i - used] \in Row
    <3> SUFFICES ASSUME NEW i \in Ids, i > used, i <= used + Len(new.added)
                 PROVE  new.added[i - used] \in Row
      OBVIOUS
    <3>1. i \in Nat /\ Len(new.added) \in Nat
      BY <1>3, IdsAre
    <3>2. i - used \in 1 .. Len(new.added)
      BY <1>5, <3>1
    <3> QED
      BY <1>3, <3>2
  <2> QED
    BY <1>1, <2>1, <2>2, BlankIs
<1>7. used' \in 0 .. MaxRows
  <2>1. Len(new.added) \in Nat
    BY <1>3
  <2> QED
    BY <1>1, <1>5, <2>1
<1>8. Penalized(v.rows) \subseteq Ids
  BY DEF Penalized, Unpaid, Live
<1>9. /\ status' \in States /\ receivable' \in Int /\ taken' \in Int /\ dropped' \in Int
      /\ repayments' \in Nat
  <2>1. status' \in States
    BY <1>1, <1>3, <1>5, Zenon
  <2>2. receivable' \in Int /\ taken' \in Int
    BY <1>1, <1>3, <1>5, SMTT(30)
  <2>3. dropped' \in Int
    <3>1. dropped' = dropped + PaidOn(v.rows, deleted)
      BY <1>1
    <3> QED
      BY <1>4, <1>5, <3>1
  <2>4. repayments' = repayments + 1 \/ repayments' = repayments
    BY <1>1, Zenon
  <2>5. repayments' \in Nat
    BY <1>5, <2>4
  <2> QED
    BY <2>1, <2>2, <2>3, <2>5
<1>10. waived' \subseteq Ids /\ writtenOff' \in BOOLEAN
  BY <1>1, <1>5, <1>8
<1>11. stale' \in [Sessions -> BOOLEAN]
  BY <1>1 DEF Typed, TypeOK
<1>12. /\ phase' \in [Sessions -> {"idle", "working"}]
       /\ job' \in [Sessions -> [kind : Kinds, amount : Nat, month : 0 .. LastMonth]]
       /\ view' \in [Sessions -> [status : States, rows : [Ids -> Row]]]
       /\ WorkIsAccepted'
  BY <1>1, TypedEnd
<1>13. month' = month /\ ops' = ops
  BY <1>1
<1> QED
  BY <1>5, <1>6, <1>7, <1>9, <1>10, <1>11, <1>12, <1>13 DEF Typed, TypeOK

(* Every step.                                                               *)
LEMMA TypedStep == Typed /\ [Next]_vars => Typed'
<1> SUFFICES ASSUME Typed, [Next]_vars
             PROVE  Typed'
  OBVIOUS
<1>1. CASE UNCHANGED vars
  BY <1>1 DEF vars, books, sessions, Typed, TypeOK, WorkIsAccepted, Accepts
<1>2. ASSUME NEW s \in Sessions, NEW k \in Operations, NEW x \in Inputs(k), Begin(s, k, x)
      PROVE  Typed'
  BY <1>2, TypedBegin
<1>3. ASSUME NEW s \in Sessions, Commit(s)
      PROVE  Typed'
  BY <1>3, TypedCommit
<1>4. ASSUME NEW s \in Sessions, Fail(s)
      PROVE  Typed'
  <2>1. End(s) /\ stale' = [stale EXCEPT ![s] = FALSE] /\ UNCHANGED <<books, month, ops>>
    BY <1>4 DEF Fail
  <2>2. stale' \in [Sessions -> BOOLEAN]
    BY <2>1 DEF Typed, TypeOK
  <2>3. /\ phase' \in [Sessions -> {"idle", "working"}]
        /\ job' \in [Sessions -> [kind : Kinds, amount : Nat, month : 0 .. LastMonth]]
        /\ view' \in [Sessions -> [status : States, rows : [Ids -> Row]]]
        /\ WorkIsAccepted'
    BY <2>1, TypedEnd
  <2> QED
    BY <2>1, <2>2, <2>3 DEF Typed, TypeOK, books
<1>5. CASE MonthPasses
  <2>1. month' \in 0 .. LastMonth
    BY <1>5, InstanceAssumption DEF MonthPasses, Typed, TypeOK
  <2>2. UNCHANGED <<books, sessions>>
    BY <1>5 DEF MonthPasses
  <2> QED
    BY <2>1, <2>2 DEF books, sessions, Typed, TypeOK, WorkIsAccepted, Accepts
<1> QED
  BY <1>1, <1>2, <1>3, <1>4, <1>5 DEF Next

(* The types hold at either isolation level.                                 *)
LEMMA TypedAlways == Spec => []Typed
<1>1. Typed /\ [Next]_vars => Typed'
  BY TypedStep
<1> QED
  BY <1>1, TypedInit, PTL DEF Spec

(* Columns keep their types, at either isolation level: amounts stay in      *)
(* whole cents, what is paid and what is charged as a penalty never becomes  *)
(* negative, and a commit that merges its columns into a row which another   *)
(* session changed still leaves a row.                                       *)
THEOREM TypesHold == Spec => []TypeOK
<1>1. Typed => TypeOK
  BY DEF Typed
<1> QED
  BY <1>1, TypedAlways, PTL

-----------------------------------------------------------------------------
(* A serializable database                                                  *)

\* a session that may still commit works on the loan as it is
Fresh ==
    \A s \in Sessions : phase[s] = "working" /\ ~ stale[s] => view[s] = Current

\* ids are handed out in order
InTurn == Tidy(rows) /\ \A i \in Ids : i > used => rows[i] = Blank

\* what repayments took is on the rows, or went with those that were deleted
AllKept == taken = dropped + PaidOn(rows, Ids)

Sound == Typed /\ Fresh /\ InTurn /\ AllKept /\ PaidMeansCovered

\* the commit of the request j, which makes new of the loan
Commits(j, new) ==
    /\ j \in Requests /\ j.kind \in Operations /\ Accepts(j.kind, Current)
    /\ Effect(j.kind, Current, new)
    /\ status' = new.status
    /\ \A i \in Ids : rows'[i] = IF i > used /\ i <= used + Len(new.added)
                                 THEN new.added[i - used] ELSE new.rows[i]
    /\ rows' \in Rows
    /\ \A i \in Ids : i > used => new.rows[i] = Blank
    /\ used' = used + Len(new.added)
    /\ taken' = taken + new.took
    /\ dropped' = dropped + PaidOn(rows, Deleted(Current, new))
    /\ waived' = IF j.kind = "waive" THEN waived \cup Penalized(rows) ELSE waived
    /\ writtenOff' = (writtenOff \/ j.kind = "write_off")

(* A commit in a serializable database replaces the loan by what the request *)
(* makes of it.                                                              *)
LEMMA CommitIs ==
    ASSUME Isolation = "serializable", Typed, Fresh, InTurn, NEW s \in Sessions, Commit(s)
    PROVE  Commits(job[s], After(job[s], Current))
<1> DEFINE j == job[s]
           v == view[s]
           new == After(j, v)
           deleted == {i \in Live(v.rows) : ~ new.rows[i].live}
<1>1. /\ phase[s] = "working" /\ (Isolation = "serializable" => ~ stale[s])
      /\ status' = IF new.status # v.status THEN new.status ELSE status
      /\ rows' = [i \in Ids |->
            IF i \in deleted THEN Blank
            ELSE IF i > used /\ i <= used + Len(new.added) THEN new.added[i - used]
            ELSE Merge(v.rows[i], new.rows[i], rows[i])]
      /\ used' = used + Len(new.added)
      /\ taken' = taken + new.took
      /\ dropped' = dropped + PaidOn(v.rows, deleted)
      /\ waived' = IF j.kind = "waive" THEN waived \cup Penalized(v.rows) ELSE waived
      /\ writtenOff' = (writtenOff \/ j.kind = "write_off")
  BY DEF Commit, MayCommit
<1>2. j \in Requests /\ j.kind \in Operations /\ Accepts(j.kind, v) /\ v \in Views
  BY <1>1 DEF Typed, TypeOK, WorkIsAccepted, Views, Rows
<1>3. v = Current
  BY <1>1 DEF Fresh
<1> HIDE DEF j, v
<1>4. Effect(j.kind, v, new)
  BY <1>2, AfterIs
<1> HIDE DEF new
<1>5. v.rows = rows /\ v.status = status /\ rows \in Rows
  BY <1>3 DEF Current, Typed, TypeOK, Rows
<1>6. deleted = Deleted(v, new)
  BY DEF Deleted
<1>7. /\ Tidy(new.rows) /\ new.rows \in Rows
      /\ \A i \in Ids : new.rows[i].live => rows[i].live
  BY <1>4, <1>5 DEF Effect, InTurn, Outcomes
<1>8. \A i \in deleted : i \in Ids /\ i <= used /\ new.rows[i] = Blank
  <2> SUFFICES ASSUME NEW i \in deleted
               PROVE  i \in Ids /\ i <= used /\ new.rows[i] = Blank
    OBVIOUS
  <2>1. i \in Ids /\ rows[i].live /\ ~ new.rows[i].live
    BY <1>5 DEF Live
  <2>2. rows[i] # Blank
    BY <2>1, BlankHas
  <2>3. i \in Nat /\ used \in Nat
    BY <2>1, IdsAre DEF Typed, TypeOK
  <2>4. ~ (i > used)
    BY <2>1, <2>2 DEF InTurn
  <2> QED
    BY <1>7, <2>1, <2>3, <2>4 DEF Tidy
<1> HIDE DEF deleted
<1>9. \A i \in Ids : Merge(v.rows[i], new.rows[i], rows[i]) = new.rows[i]
  <2> SUFFICES ASSUME NEW i \in Ids
               PROVE  Merge(rows[i], new.rows[i], rows[i]) = new.rows[i]
    BY <1>5
  <2>1. rows[i] \in Row /\ new.rows[i] \in Row
    BY <1>5, <1>7 DEF Rows
  <2> QED
    BY <2>1, MergeIs
<1>10. ASSUME NEW i \in Ids
       PROVE  rows'[i] = IF i > used /\ i <= used + Len(new.added)
                         THEN new.added[i - used] ELSE new.rows[i]
  <2>1. rows'[i] = IF i \in deleted THEN Blank
                   ELSE IF i > used /\ i <= used + Len(new.added) THEN new.added[i - used]
                   ELSE Merge(v.rows[i], new.rows[i], rows[i])
    BY <1>1
  <2>2. CASE i \in deleted
    <3>1. i \in Nat /\ used \in Nat
      BY IdsAre DEF Typed, TypeOK
    <3>2. ~ (i > used) /\ new.rows[i] = Blank
      BY <1>8, <2>2, <3>1
    <3> QED
      BY <2>1, <2>2, <3>2
  <2>3. CASE i \notin deleted
    BY <1>9, <2>1, <2>3
  <2> QED
    BY <2>2, <2>3
<1>11. \A i \in Ids : i > used => new.rows[i] = Blank
  <2> SUFFICES ASSUME NEW i \in Ids, i > used
               PROVE  new.rows[i] = Blank
    OBVIOUS
  <2>1. ~ rows[i].live
    BY BlankHas DEF InTurn
  <2> QED
    BY <1>7, <2>1 DEF Tidy
<1>12. status' = new.status
  BY <1>1, <1>5, Zenon
<1>13. rows' \in Rows
  BY TypedCommit DEF Typed, TypeOK, Rows
<1>14. dropped' = dropped + PaidOn(rows, Deleted(v, new))
  BY <1>1, <1>5, <1>6
<1>15. waived' = IF j.kind = "waive" THEN waived \cup Penalized(rows) ELSE waived
  BY <1>1, <1>5
<1> QED
  BY <1>1, <1>2, <1>3, <1>4, <1>10, <1>11, <1>12, <1>13, <1>14, <1>15 DEF Commits, new, j

(* Before the first request, and after each commit, the rows are sound.      *)
LEMMA SoundInit == Init => Sound
<1> SUFFICES ASSUME Init
             PROVE  Sound
  OBVIOUS
<1>1. Typed
  BY TypedInit
<1>2. Fresh
  BY DEF Init, Fresh
<1>3. \A i \in Ids : rows[i] = Blank
  BY DEF Init, NoRows
<1>4. InTurn /\ PaidMeansCovered
  BY <1>3, BlankHas DEF InTurn, Tidy, PaidMeansCovered, Live
<1>5. AllKept
  <2> DEFINE f == [i \in Ids |-> rows[i].paid]
  <2>1. \A i \in Ids : f[i] = 0
    BY <1>3, BlankHas
  <2>2. PaidOn(rows, Ids) = SumFunctionOnSet(f, Ids)
    BY DEF PaidOn
  <2> HIDE DEF f
  <2>3. PaidOn(rows, Ids) = 0
    BY <2>1, <2>2, IdsAre, SumZero
  <2>4. taken = 0 /\ dropped = 0
    BY DEF Init
  <2> QED
    BY <2>3, <2>4 DEF AllKept
<1> QED
  BY <1>1, <1>2, <1>4, <1>5 DEF Sound

(* A row that a commit added, or changed.                                    *)
LEMMA CommittedRow ==
    ASSUME Typed, InTurn, NEW j, NEW new, Commits(j, new), NEW i \in Ids
    PROVE  \/ /\ i > used /\ i <= used' /\ new.rows[i] = Blank
              /\ i - used \in 1 .. Len(new.added) /\ rows'[i] = new.added[i - used]
              /\ rows'[i].live /\ ~ rows'[i].isPaid /\ rows'[i].paid = 0 /\ rows'[i].penalty = 0
           \/ /\ ~ (i > used /\ i <= used') /\ rows'[i] = new.rows[i]
<1>1. i \in Nat /\ used \in Nat
  BY IdsAre DEF Typed, TypeOK
<1>2. /\ used' = used + Len(new.added) /\ Opened(new.added)
      /\ rows'[i] = IF i > used /\ i <= used + Len(new.added) THEN new.added[i - used] ELSE new.rows[i]
      /\ i > used => new.rows[i] = Blank
      /\ new \in Outcomes
  BY DEF Commits, Effect
<1>3. Len(new.added) \in Nat
  BY <1>2 DEF Outcomes
<1>4. CASE i > used /\ i <= used'
  <2>1. i - used \in 1 .. Len(new.added)
    BY <1>1, <1>2, <1>3, <1>4
  <2>2. rows'[i] = new.added[i - used]
    BY <1>2, <1>4
  <2>3. LET row == new.added[i - used] IN row.live /\ ~ row.isPaid /\ row.paid = 0 /\ row.penalty = 0
    BY <1>2, <2>1 DEF Opened
  <2> QED
    BY <1>2, <1>4, <2>1, <2>2, <2>3
<1>5. CASE ~ (i > used /\ i <= used')
  BY <1>2, <1>5
<1> QED
  BY <1>4, <1>5

(* A commit keeps the rows sound.                                            *)
LEMMA SoundCommit ==
    ASSUME Isolation = "serializable", Sound, NEW s \in Sessions, Commit(s)
    PROVE  Sound'
<1> DEFINE j == job[s]
           new == After(j, Current)
<1>1. Commits(j, new) /\ Typed /\ InTurn
  BY CommitIs DEF Sound
<1>2. Typed'
  BY TypedCommit DEF Sound
<1>3. Fresh'
  <2>1. /\ End(s)
        /\ stale' = [q \in Sessions |->
              /\ q # s
              /\ \/ stale[q]
                 \/ phase[q] = "working" /\ (status' # status \/ rows' # rows)]
    BY DEF Commit
  <2> SUFFICES ASSUME NEW q \in Sessions, phase'[q] = "working", ~ stale'[q]
               PROVE  view'[q] = Current'
    BY DEF Fresh
  <2>2. phase' = [phase EXCEPT ![s] = "idle"] /\ view' = [view EXCEPT ![s] = Unread]
    BY <2>1 DEF End
  <2>3. q # s /\ phase[q] = "working" /\ view'[q] = view[q]
    BY <1>1, <2>2 DEF Typed, TypeOK
  <2>4. ~ stale[q] /\ status' = status /\ rows' = rows
    BY <2>1, <2>3
  <2> QED
    BY <2>3, <2>4 DEF Sound, Fresh, Current
<1> HIDE DEF j, new
<1>4. /\ Effect(j.kind, Current, new) /\ new \in Outcomes /\ Current.rows = rows
      /\ new.rows \in Rows /\ Tidy(new.rows) /\ new.added \in Seq(Row)
  <2>1. Effect(j.kind, Current, new) /\ Current.rows = rows
    BY <1>1 DEF Commits, Current
  <2> QED
    BY <1>1, <2>1 DEF Effect, InTurn, Outcomes
<1>5. used \in Nat /\ used' \in Nat /\ used' >= used
  <2>1. Len(new.added) \in Nat
    BY <1>4
  <2> QED
    BY <1>1, <2>1 DEF Typed, TypeOK, Commits
<1>6. InTurn'
  <2>1. ASSUME NEW i \in Ids
        PROVE  (rows'[i].live \/ rows'[i] = Blank) /\ (i > used' => rows'[i] = Blank)
    <3>1. i \in Nat
      BY IdsAre
    <3>2. i > used' => i > used /\ new.rows[i] = Blank
      BY <1>1, <1>5, <3>1 DEF Commits
    <3>3. new.rows[i].live \/ new.rows[i] = Blank
      BY <1>4 DEF Tidy
    <3>4. i <= used' => ~ (i > used')
      BY <1>5, <3>1
    <3> QED
      BY <1>1, <3>2, <3>3, <3>4, CommittedRow
  <2> QED
    BY <2>1 DEF InTurn, Tidy
<1>7. AllKept'
  <2> DEFINE f == [i \in Ids |-> new.rows[i].paid]
             g == [i \in Ids |-> rows'[i].paid]
             D == PaidOn(rows, Deleted(Current, new))
  <2>1. \A i \in Ids : f[i] = g[i]
    BY <1>1, CommittedRow, BlankHas
  <2>2. \A i \in Ids : f[i] \in Int
    BY <1>4 DEF Rows, Row
  <2>3. PaidOn(new.rows, Ids) = SumFunctionOnSet(f, Ids) /\ PaidOn(rows', Ids) = SumFunctionOnSet(g, Ids)
    BY DEF PaidOn
  <2> HIDE DEF f, g
  <2>4. PaidOn(new.rows, Ids) = PaidOn(rows', Ids)
    BY <2>1, <2>2, <2>3, IdsAre, SumSame
  <2>5. PaidOn(new.rows, Ids) = PaidOn(rows, Ids) + new.took - D
    BY <1>1, <1>4 DEF Effect, InTurn
  <2>6. D \in Nat /\ PaidOn(rows, Ids) \in Nat
    <3>1. Deleted(Current, new) \in SUBSET Ids /\ rows \in Rows
      BY <1>1 DEF Deleted, Live, Typed, TypeOK, Rows
    <3> QED
      BY <3>1, PaidIs
  <2>7. taken' = taken + new.took /\ dropped' = dropped + D
    BY <1>1 DEF Commits
  <2>8. new.took \in Int /\ dropped \in Int /\ taken \in Int
    BY <1>1, <1>4 DEF Outcomes, Typed, TypeOK
  <2>9. taken = dropped + PaidOn(rows, Ids)
    BY DEF Sound, AllKept
  <2> HIDE DEF D
  <2> QED
    BY <2>4, <2>5, <2>6, <2>7, <2>8, <2>9 DEF AllKept
<1>8. PaidMeansCovered'
  <2> SUFFICES ASSUME ~ writtenOff', NEW i \in Ids, rows'[i].live, rows'[i].isPaid
               PROVE  Outstanding(rows'[i]) <= 0
    BY DEF PaidMeansCovered, Live, Outstanding, Due
  <2>1. ~ writtenOff /\ j.kind # "write_off"
    BY <1>1 DEF Commits
  <2>2. rows'[i] = new.rows[i]
    BY <1>1, CommittedRow
  <2>3. \/ Outstanding(new.rows[i]) <= 0
        \/ rows[i].live /\ rows[i].isPaid /\ new.rows[i] = rows[i]
    BY <1>4, <2>1, <2>2 DEF Effect, MarksCovered
  <2> QED
    BY <2>1, <2>2, <2>3 DEF Sound, PaidMeansCovered, Live
<1> QED
  BY <1>2, <1>3, <1>6, <1>7, <1>8 DEF Sound

(* Every step keeps the rows sound.                                          *)
LEMMA SoundStep ==
    ASSUME Isolation = "serializable"
    PROVE  Sound /\ [Next]_vars => Sound'
<1> SUFFICES ASSUME Sound, [Next]_vars
             PROVE  Sound'
  OBVIOUS
<1>1. Typed'
  BY TypedStep DEF Sound
<1>2. ASSUME UNCHANGED books, Fresh'
      PROVE  Sound'
  BY <1>1, <1>2 DEF Sound, books, InTurn, Tidy, AllKept, PaidMeansCovered, Live, PaidOn
<1>3. CASE UNCHANGED vars
  <2>1. UNCHANGED books /\ Fresh'
    BY <1>3 DEF vars, sessions, books, Sound, Fresh, Current
  <2> QED
    BY <1>2, <2>1
<1>4. ASSUME NEW s \in Sessions, NEW k \in Operations, NEW x \in Inputs(k), Begin(s, k, x)
      PROVE  Sound'
  <2>1. /\ phase' = [phase EXCEPT ![s] = "working"] /\ view' = [view EXCEPT ![s] = Current]
        /\ UNCHANGED books /\ stale' = stale /\ Current' = Current
    BY <1>4 DEF Begin, books, Current
  <2>2. ASSUME NEW q \in Sessions, phase'[q] = "working", ~ stale'[q]
        PROVE  view'[q] = Current'
    <3>1. CASE q = s
      BY <2>1, <3>1 DEF Sound, Typed, TypeOK
    <3>2. CASE q # s
      <4>1. phase'[q] = phase[q] /\ view'[q] = view[q]
        BY <2>1, <3>2 DEF Sound, Typed, TypeOK
      <4> QED
        BY <2>1, <2>2, <4>1 DEF Sound, Fresh
    <3> QED
      BY <3>1, <3>2
  <2> QED
    BY <1>2, <2>1, <2>2 DEF Fresh
<1>5. ASSUME NEW s \in Sessions, Commit(s)
      PROVE  Sound'
  BY <1>5, SoundCommit
<1>6. ASSUME NEW s \in Sessions, Fail(s)
      PROVE  Sound'
  <2>1. /\ phase' = [phase EXCEPT ![s] = "idle"] /\ view' = [view EXCEPT ![s] = Unread]
        /\ stale' = [stale EXCEPT ![s] = FALSE] /\ UNCHANGED books /\ Current' = Current
    BY <1>6 DEF Fail, End, books, Current
  <2>2. ASSUME NEW q \in Sessions, phase'[q] = "working", ~ stale'[q]
        PROVE  view'[q] = Current'
    <3>1. q # s
      BY <2>1, <2>2 DEF Sound, Typed, TypeOK
    <3>2. phase'[q] = phase[q] /\ view'[q] = view[q] /\ stale'[q] = stale[q]
      BY <2>1, <3>1 DEF Sound, Typed, TypeOK
    <3> QED
      BY <2>1, <2>2, <3>2 DEF Sound, Fresh
  <2> QED
    BY <1>2, <2>1, <2>2 DEF Fresh
<1>7. CASE MonthPasses
  <2>1. UNCHANGED books /\ Fresh'
    BY <1>7 DEF MonthPasses, sessions, books, Sound, Fresh, Current
  <2> QED
    BY <1>2, <2>1
<1> QED
  BY <1>3, <1>4, <1>5, <1>6, <1>7 DEF Next

(* The rows stay sound.                                                      *)
LEMMA SoundAlways == ASSUME Isolation = "serializable" PROVE Spec => []Sound
<1>1. Sound /\ [Next]_vars => Sound'
  BY SoundStep
<1> QED
  BY <1>1, SoundInit, PTL DEF Spec

(* What members paid stays paid: concurrent repayments do not overwrite each *)
(* other's amount_paid, a rescheduling accounts for what it deletes, and no  *)
(* penalty lands on a row that was settled.                                  *)
THEOREM PaymentsAreKept ==
    ASSUME Isolation = "serializable"
    PROVE  Spec => []PaymentsStay
<1>1. ASSUME Sound
      PROVE  PaymentsStay
  <2> DEFINE f == [i \in Ids |-> rows[i].paid]
  <2>1. rows \in Rows /\ Live(rows) \in SUBSET Ids
    BY <1>1 DEF Sound, Typed, TypeOK, Rows, Live
  <2>2. \A i \in Ids : f[i] \in Int
    BY <2>1 DEF Rows, Row
  <2>3. \A i \in Ids \ Live(rows) : f[i] = 0
    BY <1>1, BlankHas DEF Sound, InTurn, Tidy, Live
  <2>4. /\ PaidOn(rows, Ids) = SumFunctionOnSet(f, Ids)
        /\ PaidOn(rows, Live(rows)) = SumFunctionOnSet(f, Live(rows))
    BY DEF PaidOn
  <2> HIDE DEF f
  <2>5. PaidOn(rows, Ids) = PaidOn(rows, Live(rows))
    BY <2>1, <2>2, <2>3, <2>4, IdsAre, SumSupport
  <2> QED
    BY <1>1, <2>5 DEF Sound, AllKept, PaymentsStay, NoRepaymentLost
<1> QED
  BY <1>1, SoundAlways, PTL

(* Two runs of the penalty job, or one beside a repayment, charge a row once:*)
(* the guard on the penalty that was read holds for the one that is written. *)
THEOREM PenaltiesAreChargedOnce ==
    ASSUME Isolation = "serializable"
    PROVE  Spec => PenaltyChargedOnce
<1>1. ASSUME Sound, [Next]_vars
      PROVE  [\A i \in Ids :
                 rows[i].penalty > 0 => rows'[i].penalty \in {rows[i].penalty, 0}]_vars
  <2>1. CASE UNCHANGED vars
    BY <2>1
  <2>2. ASSUME UNCHANGED rows
        PROVE  \A i \in Ids : rows[i].penalty > 0 => rows'[i].penalty \in {rows[i].penalty, 0}
    BY <2>2
  <2>3. ASSUME NEW s \in Sessions, Commit(s)
        PROVE  \A i \in Ids : rows[i].penalty > 0 => rows'[i].penalty \in {rows[i].penalty, 0}
    <3> DEFINE j == job[s]
               new == After(j, Current)
    <3>1. Commits(j, new) /\ Typed /\ InTurn
      BY <1>1, <2>3, CommitIs DEF Sound
    <3> HIDE DEF j, new
    <3> SUFFICES ASSUME NEW i \in Ids, rows[i].penalty > 0
                 PROVE  rows'[i].penalty \in {rows[i].penalty, 0}
      OBVIOUS
    <3>2. ~ (i > used)
      BY <3>1, BlankHas DEF InTurn
    <3>3. rows'[i] = new.rows[i]
      BY <3>1, <3>2, CommittedRow
    <3>4. new.rows[i].penalty \in {rows[i].penalty, 0}
      BY <3>1 DEF Commits, Effect, Current
    <3> QED
      BY <3>3, <3>4
  <2>4. ASSUME NEW s \in Sessions, Fail(s)
        PROVE  UNCHANGED rows
    BY <2>4 DEF Fail, books
  <2>5. ASSUME NEW s \in Sessions, NEW k \in Operations, NEW x \in Inputs(k), Begin(s, k, x)
        PROVE  UNCHANGED rows
    BY <2>5 DEF Begin, books
  <2>6. CASE MonthPasses
    BY <2>2, <2>6 DEF MonthPasses, books
  <2> QED
    BY <1>1, <2>1, <2>2, <2>3, <2>4, <2>5, <2>6 DEF Next
<1> QED
  BY <1>1, SoundAlways, PTL DEF Spec, PenaltyChargedOnce

-----------------------------------------------------------------------------
(* The status of a loan                                                     *)

\* a first schedule asks for something every month
AsksEveryMonth ==
    LET built == BuildSchedule(Whole(Principal), Rate, Months)
    IN  \A i \in 1 .. Months : built[i].principal + built[i].interest > 0

\* where a loan is between its approval and its end
Staged ==
    /\ status = "approved" => used = 0
    /\ status # "approved" => used >= Months
    /\ WrittenOffStays
    /\ status = "active" /\ waived = {} /\ used = Months =>
           Unpaid(rows) # {} /\ \A i \in Unpaid(rows) : Outstanding(rows[i]) > 0

(* A commit moves the loan on, unless a payroll deduction pays on a loan     *)
(* that was written off.                                                     *)
LEMMA StagedCommit ==
    ASSUME Isolation = "serializable", "payroll" \notin Operations, AsksEveryMonth,
           Sound, Staged, NEW s \in Sessions, Commit(s)
    PROVE  Staged'
<1> DEFINE j == job[s]
           v == Current
           new == After(j, v)
<1>1. Commits(j, new) /\ Typed /\ InTurn /\ Typed'
  BY CommitIs, TypedCommit DEF Sound
<1>2. /\ j \in Requests /\ j.kind \in Operations /\ Accepts(j.kind, v) /\ v \in Views
      /\ v.rows = rows /\ v.status = status
  BY <1>1 DEF Commits, Current, Typed, TypeOK, Views, Rows
<1>3. /\ j.kind \in Kinds /\ j.kind # "payroll" /\ j.amount \in Nat /\ j.month \in Nat
      /\ j.amount \in Inputs(j.kind)
  BY <1>2 DEF Requests
<1> HIDE DEF j, v
<1>4. /\ status' = new.status /\ used' = used + Len(new.added)
      /\ waived' = IF j.kind = "waive" THEN waived \cup Penalized(rows) ELSE waived
      /\ writtenOff' = (writtenOff \/ j.kind = "write_off")
  BY <1>1 DEF Commits
<1>5. used \in Nat /\ used' \in Nat /\ used' <= MaxRows /\ MaxRows \in Nat /\ Months \in Nat /\ Months > 0
  BY <1>1, ConstantsAre DEF Typed, TypeOK, Positive
<1>6. ASSUME new.added = << >>
      PROVE  used' = used /\ \A i \in Ids : rows'[i] = new.rows[i]
  <2>1. Len(new.added) = 0
    BY <1>6
  <2>2. used' = used
    BY <1>4, <1>5, <2>1
  <2> SUFFICES ASSUME NEW i \in Ids
               PROVE  rows'[i] = new.rows[i]
    BY <2>2
  <2>3. ~ (i > used /\ i <= used')
    BY <1>5, <2>2, IdsAre
  <2> QED
    BY <1>1, <2>3, CommittedRow
<1>7. CASE j.kind = "disburse"
  <2>1. new = Disburse(v, j.month) /\ status = "approved" /\ used = 0 /\ ~ writtenOff
    BY <1>2, <1>7 DEF After, Accepts, Staged, WrittenOffStays
  <2> DEFINE add == NewRows(Whole(Principal), Months, 0, j.month)
  <2>2. new.status = "active" /\ new.rows = NoRows /\ new.added = add
    BY <1>2, <1>3, <2>1, DisburseIs
  <2>3. /\ Len(add) = Months /\ Opened(add)
        /\ \A i \in 1 .. Months : Due(add[i]) > 0
    <3>1. /\ Len(add) = Months /\ Opened(add)
          /\ \A i \in 1 .. Months : Due(add[i])
                 = BuildSchedule(Whole(Principal), Rate, Months)[i].principal
                     + BuildSchedule(Whole(Principal), Rate, Months)[i].interest
      <4>1. Whole(Principal) \in Fractions /\ Months \in Positive /\ 0 \in Nat
        BY ConstantsAre, FractionsClosed
      <4> QED
        BY <1>3, <4>1, NewRowsAre
    <3> HIDE DEF add
    <3> QED
      BY <3>1 DEF AsksEveryMonth
  <2> HIDE DEF add
  <2>4. used' = Months
    BY <1>4, <1>5, <2>1, <2>2, <2>3
  <2>5. ASSUME NEW i \in Unpaid(rows')
        PROVE  Outstanding(rows'[i]) > 0
    <3>1. i \in Ids /\ rows'[i].live
      BY DEF Unpaid, Live
    <3>2. new.rows[i] = Blank
      BY <2>2, <3>1 DEF NoRows
    <3>3. /\ i - used \in 1 .. Len(new.added) /\ rows'[i] = new.added[i - used]
          /\ rows'[i].paid = 0
      BY <1>1, <3>1, <3>2, BlankHas, CommittedRow
    <3>4. i \in 1 .. Months /\ rows'[i] = add[i]
      BY <2>1, <2>2, <2>3, <3>1, <3>3, IdsAre
    <3>5. Due(rows'[i]) > 0 /\ Due(rows'[i]) \in Int
      <4>1. rows'[i] \in Row
        BY <1>1, <3>1 DEF Typed, TypeOK
      <4> QED
        BY <2>3, <3>4, <4>1, DuesAre
    <3> QED
      BY <3>3, <3>5 DEF Outstanding
  <2>6. Unpaid(rows') # {}
    <3>1. 1 \in Ids /\ 1 > used /\ 1 <= used'
      BY <1>5, <2>1, <2>4 DEF Ids
    <3>2. rows'[1].live /\ ~ rows'[1].isPaid
      BY <1>1, <3>1, CommittedRow
    <3> QED
      BY <3>1, <3>2 DEF Unpaid, Live
  <2>7. status' = "active" /\ ~ writtenOff'
    BY <1>4, <1>7, <2>1, <2>2
  <2> QED
    BY <1>5, <2>4, <2>5, <2>6, <2>7 DEF Staged, WrittenOffStays, Outstanding, Due
<1>8. CASE j.kind = "repay"
  <2>1. new = Repay(v, j.amount) /\ status = "active" /\ ~ writtenOff
    BY <1>2, <1>8 DEF After, Accepts, Staged, WrittenOffStays
  <2>2. /\ new.added = << >> /\ \A i \in Ids : Settles(rows[i], new.rows[i])
        /\ new.status = IF Live(rows) # {} /\ Unpaid(new.rows) = {} THEN "closed" ELSE status
    BY <1>2, <1>3, <2>1, RepayDoes
  <2>3. used' = used /\ \A i \in Ids : rows'[i] = new.rows[i]
    BY <1>6, <2>2
  <2>4. used >= Months
    BY <2>1 DEF Staged
  <2>5. status' \in {"active", "closed"} /\ ~ writtenOff' /\ waived' = waived
    BY <1>4, <1>8, <2>1, <2>2
  <2>6. Unpaid(rows') = Unpaid(new.rows)
    BY <2>3 DEF Unpaid, Live
  <2>7. ASSUME status' = "active", waived' = {}, used' = Months
        PROVE  Unpaid(rows') # {} /\ \A i \in Unpaid(rows') : Outstanding(rows'[i]) > 0
    <3>1. Unpaid(rows) # {} /\ \A i \in Unpaid(rows) : Outstanding(rows[i]) > 0
      BY <2>1, <2>3, <2>5, <2>7 DEF Staged
    <3>2. Live(rows) # {}
      BY <3>1 DEF Unpaid
    <3>3. Unpaid(rows') # {}
      BY <1>4, <2>2, <2>6, <2>7, <3>2
    <3>4. ASSUME NEW i \in Unpaid(rows')
          PROVE  Outstanding(rows'[i]) > 0
      <4>1. /\ i \in Ids /\ rows'[i] = new.rows[i] /\ rows'[i].live /\ ~ rows'[i].isPaid
            /\ rows'[i] \in Row
        BY <1>1, <2>3 DEF Unpaid, Live, Typed, TypeOK
      <4>2. Outstanding(rows'[i]) \in Int
        BY <4>1, DuesAre
      <4>3. CASE rows'[i] = rows[i]
        BY <3>1, <4>1, <4>3 DEF Unpaid, Live
      <4>4. CASE rows'[i] # rows[i]
        <5>1. Outstanding(rows'[i]) >= 0 /\ (rows'[i].isPaid <=> Outstanding(rows'[i]) = 0)
          BY <2>2, <4>1, <4>4 DEF Settles
        <5> QED
          BY <4>1, <4>2, <5>1
      <4> QED
        BY <4>3, <4>4
    <3> QED
      BY <3>3, <3>4
  <2> QED
    BY <2>3, <2>4, <2>5, <2>7 DEF Staged, WrittenOffStays, Outstanding, Due
<1>9. CASE j.kind = "penalties"
  <2>1. new = Penalize(v, j.month)
    BY <1>9 DEF After
  <2>2. /\ new.status = status /\ new.added = << >>
        /\ \A i \in Ids :
               \/ new.rows[i] = rows[i]
               \/ \E n \in Nat : new.rows[i]
                      = Marked(rows[i], rows[i].penalty + n, rows[i].paid, rows[i].isPaid)
    BY <1>2, <1>3, <2>1, PenalizeIs
  <2>3. used' = used /\ \A i \in Ids : rows'[i] = new.rows[i]
    BY <1>6, <2>2
  <2>4. status' = status /\ writtenOff' = writtenOff /\ waived' = waived
    BY <1>1, <1>4, <1>9, <2>2 DEF Typed, TypeOK
  <2>5. ASSUME NEW i \in Ids
        PROVE  /\ rows'[i].live = rows[i].live /\ rows'[i].isPaid = rows[i].isPaid
               /\ Outstanding(rows'[i]) >= Outstanding(rows[i])
               /\ Outstanding(rows'[i]) \in Int /\ Outstanding(rows[i]) \in Int
    <3>1. rows[i] \in Row /\ rows'[i] \in Row
      BY <1>1 DEF Typed, TypeOK
    <3>2. Outstanding(rows'[i]) \in Int /\ Outstanding(rows[i]) \in Int
      BY <3>1, DuesAre
    <3>3. CASE rows'[i] = rows[i]
      BY <3>2, <3>3
    <3>4. CASE rows'[i] # rows[i]
      <4>1. PICK n \in Nat : rows'[i]
                = Marked(rows[i], rows[i].penalty + n, rows[i].paid, rows[i].isPaid)
        BY <2>2, <2>3, <3>4
      <4>2. /\ rows'[i].live = rows[i].live /\ rows'[i].isPaid = rows[i].isPaid
            /\ rows'[i].paid = rows[i].paid /\ rows'[i].principal = rows[i].principal
            /\ rows'[i].interest = rows[i].interest /\ rows'[i].penalty = rows[i].penalty + n
        BY ONLY <4>1 DEF Marked
      <4>3. Outstanding(rows'[i]) = Outstanding(rows[i]) + n
        BY <3>1, <4>2 DEF Outstanding, Due, Row
      <4> QED
        BY <3>2, <4>2, <4>3
    <3> QED
      BY <3>3, <3>4
  <2>6. Unpaid(rows') = Unpaid(rows)
    BY <2>5 DEF Unpaid, Live
  <2>7. \A i \in Unpaid(rows') : Outstanding(rows[i]) > 0 => Outstanding(rows'[i]) > 0
    <3> SUFFICES ASSUME NEW i \in Unpaid(rows'), Outstanding(rows[i]) > 0
                 PROVE  Outstanding(rows'[i]) > 0
      OBVIOUS
    <3>1. i \in Ids
      BY DEF Unpaid, Live
    <3> QED
      BY <2>5, <3>1
  <2> QED
    BY <2>3, <2>4, <2>6, <2>7 DEF Staged, WrittenOffStays, Outstanding, Due
<1>10. CASE j.kind = "waive"
  <2>1. new = Waive(v)
    BY <1>10 DEF After
  <2>2. new.status = status /\ new.added = << >> /\ (Penalized(rows) = {} => new.rows = rows)
    BY <1>2, <2>1, WaiveIs
  <2>3. used' = used /\ \A i \in Ids : rows'[i] = new.rows[i]
    BY <1>6, <2>2
  <2>4. status' = status /\ writtenOff' = writtenOff /\ waived' = waived \cup Penalized(rows)
    BY <1>1, <1>4, <1>10, <2>2 DEF Typed, TypeOK
  <2>5. ASSUME waived' = {}
        PROVE  waived = {} /\ rows' = rows
    <3>1. waived = {} /\ Penalized(rows) = {}
      BY <2>4, <2>5
    <3>2. \A i \in Ids : rows'[i] = rows[i]
      BY <2>2, <2>3, <3>1
    <3> QED
      BY <1>1, <3>1, <3>2 DEF Typed, TypeOK
  <2> QED
    BY <2>3, <2>4, <2>5 DEF Staged, WrittenOffStays
<1>11. CASE j.kind = "write_off"
  <2>1. new = WriteOff(v) /\ status \in {"active", "defaulted"}
    BY <1>2, <1>11 DEF After, Accepts
  <2>2. new.status = "defaulted" /\ new.added = << >>
    BY <1>2, <2>1, WriteOffIs
  <2>3. used' = used /\ status' = "defaulted" /\ used >= Months
    BY <1>4, <1>6, <2>1, <2>2 DEF Staged
  <2> QED
    BY <2>3 DEF Staged, WrittenOffStays
<1>12. CASE j.kind = "reschedule"
  <2>1. new = Reschedule(v, j.amount, j.month) /\ status = "active" /\ ~ writtenOff
    BY <1>2, <1>12 DEF After, Accepts, Staged, WrittenOffStays
  <2>2. j.amount \in Positive /\ j.amount \in Nat /\ j.amount > 0
    BY <1>3, <1>12, ConstantsAre DEF Inputs, Positive
  <2>3. new.status = "active" /\ Len(new.added) = j.amount
    BY <1>2, <1>3, <2>1, <2>2, RescheduleIs
  <2>4. used' > Months
    <3>1. used >= Months
      BY <2>1 DEF Staged
    <3> QED
      BY <1>4, <1>5, <2>2, <2>3, <3>1
  <2>5. status' = "active" /\ ~ writtenOff'
    BY <1>4, <1>12, <2>1, <2>3
  <2> QED
    BY <1>5, <2>4, <2>5 DEF Staged, WrittenOffStays
<1> QED
  BY <1>3, <1>7, <1>8, <1>9, <1>10, <1>11, <1>12 DEF Kinds

(* The status of a loan follows its schedule: whoever settles the last row   *)
(* closes the loan, and a write-off is final. _reconcile_deduction does not  *)
(* look at the loan's status, so that no deduction may come from payroll,    *)
(* and a schedule whose rows ask for nothing is settled before it is paid.   *)
THEOREM StatusIsTrue ==
    ASSUME Isolation = "serializable", "payroll" \notin Operations, AsksEveryMonth
    PROVE  Spec => []StatusFollowsSchedule
<1>1. Init => Staged
  <2>1. Months \in Nat /\ Months > 0
    BY ConstantsAre DEF Positive
  <2> QED
    BY <2>1 DEF Init, Staged, WrittenOffStays
<1>2. Sound /\ Staged /\ [Next]_vars => Staged'
  <2> SUFFICES ASSUME Sound, Staged, [Next]_vars
               PROVE  Staged'
    OBVIOUS
  <2>1. ASSUME UNCHANGED books
        PROVE  Staged'
    BY <2>1 DEF books, Staged, WrittenOffStays, Unpaid, Live, Outstanding, Due
  <2>2. CASE UNCHANGED vars
    BY <2>1, <2>2 DEF vars
  <2>3. ASSUME NEW s \in Sessions, Commit(s)
        PROVE  Staged'
    BY <2>3, StagedCommit
  <2>4. ASSUME NEW s \in Sessions, Fail(s)
        PROVE  Staged'
    BY <2>1, <2>4 DEF Fail
  <2>5. ASSUME NEW s \in Sessions, NEW k \in Operations, NEW x \in Inputs(k), Begin(s, k, x)
        PROVE  Staged'
    BY <2>1, <2>5 DEF Begin
  <2>6. CASE MonthPasses
    BY <2>1, <2>6 DEF MonthPasses
  <2> QED
    BY <2>2, <2>3, <2>4, <2>5, <2>6 DEF Next
<1>3. Staged => StatusFollowsSchedule
  BY DEF Staged, StatusFollowsSchedule, SettledIsClosed
<1> QED
  BY <1>1, <1>2, <1>3, SoundAlways, PTL DEF Spec

-----------------------------------------------------------------------------
(* Loans Receivable                                                          *)

-----------------------------------------------------------------------------
(* Loans Receivable                                                         *)

\* p is n of the D-th parts
Worth(p, D, n) == p.num * D = n * p.den

\* the amount r in cents is p, to within k half cents
Near(r, p, k) ==
    /\ 2 * (r * p.den - p.num) <= k * p.den
    /\ - (2 * (r * p.den - p.num)) <= k * p.den

(* Parts of one size add up, as fractions do.                                *)
LEMMA WorthPlus ==
    ASSUME NEW p \in Fractions, NEW q \in Fractions, NEW D \in Positive, NEW n \in Int, NEW m \in Int,
           Worth(p, D, n), Worth(q, D, m)
    PROVE  Worth(Plus(p, q), D, n + m)
<1>1. \A a, b, c, d, e, x, y \in Int :
          a * e = x * b /\ c * e = y * b => (a + c) * e = (x + y) * b
  OBVIOUS
<1>2. p.num \in Int /\ p.den \in Int /\ q.num \in Int /\ q.den \in Int /\ D \in Int
  BY DEF Fractions, Positive
<1>3. CASE p.den = q.den
  <2>1. Plus(p, q).num = p.num + q.num /\ Plus(p, q).den = p.den
    BY <1>3 DEF Plus, Frac
  <2>2. p.num * D = n * p.den /\ q.num * D = m * p.den
    BY <1>3 DEF Worth
  <2>3. (p.num + q.num) * D = (n + m) * p.den
    BY <1>1, <1>2, <2>2
  <2> QED
    BY <2>1, <2>3 DEF Worth
<1>4. CASE p.den # q.den
  <2>1. Plus(p, q).num = p.num * q.den + q.num * p.den /\ Plus(p, q).den = p.den * q.den
    BY <1>4 DEF Plus, Frac
  <2>2. p.num * D = n * p.den /\ q.num * D = m * q.den
    BY DEF Worth
  <2>3. (p.num * q.den + q.num * p.den) * D = (n + m) * (p.den * q.den)
    <3> DEFINE a == p.num
               b == p.den
               c == q.num
               d == q.den
    <3>1. /\ a \in Int /\ b \in Int /\ c \in Int /\ d \in Int /\ D \in Int
          /\ a * D = n * b /\ c * D = m * d
      BY <1>2, <2>2
    <3> HIDE DEF a, b, c, d
    <3>2. (a * d + c * b) * D = (a * D) * d + (c * D) * b
      BY <3>1
    <3>3. (n + m) * (b * d) = (n * b) * d + (m * d) * b
      BY <3>1
    <3>4. (a * d + c * b) * D = (n + m) * (b * d)
      BY <3>1, <3>2, <3>3
    <3> QED
      BY <3>4 DEF a, b, c, d
  <2> QED
    BY <2>1, <2>3 DEF Worth
<1> QED
  BY <1>3, <1>4

(* Whether an amount is near a fraction can be told from its parts.          *)
LEMMA NearParts ==
    ASSUME NEW p \in Fractions, NEW D \in Positive, NEW n \in Int, Worth(p, D, n),
           NEW r \in Int, NEW k \in Int
    PROVE  Near(r, p, k) <=> /\ 2 * (r * D) - 2 * n <= k * D
                             /\ 2 * n - 2 * (r * D) <= k * D
<1>1. p.num \in Int /\ p.den \in Positive /\ D \in Positive /\ p.num * D = n * p.den
  BY DEF Fractions, Positive, Worth
<1>2. ASSUME NEW x \in Int, NEW d \in Positive, NEW e \in Positive, NEW m \in Int, x * e = m * d
      PROVE  /\ 2 * (r * d - x) <= k * d <=> 2 * (r * e) - 2 * m <= k * e
             /\ - (2 * (r * d - x)) <= k * d <=> 2 * m - 2 * (r * e) <= k * e
  <2> DEFINE u == 2 * (r * d - x) - k * d
             v == 2 * (r * e) - 2 * m - k * e
             s == - (2 * (r * d - x)) - k * d
             t == 2 * m - 2 * (r * e) - k * e
  <2>1. u \in Int /\ v \in Int /\ s \in Int /\ t \in Int /\ d \in Int /\ e \in Int
    BY DEF Positive
  <2>2. u * e = v * d
    <3>1. u * e = 2 * (r * d * e) - 2 * (x * e) - k * d * e
      BY DEF Positive
    <3>2. v * d = 2 * (r * d * e) - 2 * (m * d) - k * d * e
      BY DEF Positive
    <3> QED
      BY <1>2, <3>1, <3>2
  <2>3. s * e = t * d
    <3>1. s * e = 2 * (x * e) - 2 * (r * d * e) - k * d * e
      BY DEF Positive
    <3>2. t * d = 2 * (m * d) - 2 * (r * d * e) - k * d * e
      BY DEF Positive
    <3> QED
      BY <1>2, <3>1, <3>2
  <2>4. (u <= 0 <=> v <= 0) /\ (s <= 0 <=> t <= 0)
    <3> HIDE DEF u, v, s, t
    <3>1. \A a, b \in Int : a * e = b * d => (a <= 0 <=> b <= 0)
      BY DEF Positive
    <3> QED
      BY <2>1, <2>2, <2>3, <3>1
  <2>5. r * d \in Int /\ r * e \in Int /\ k * d \in Int /\ k * e \in Int
    BY DEF Positive
  <2> QED
    BY <2>4, <2>5
<1> QED
  BY <1>1, <1>2 DEF Near

\* Every row of rs asks for a number of parts of which there are D in a cent:
\* w says how many parts a cent of its principal is, for a cent that is left
Fits(D, w, rs) ==
    /\ D \in Positive /\ w \in [Ids -> Int]
    /\ \A i \in Ids : Due(rs[i]) # 0 => w[i] * Due(rs[i]) = D

\* the parts of the row's principal that are left
Parts(row, D, f) ==
    IF ~ row.live \/ row.isPaid THEN 0
    ELSE IF Due(row) = 0 THEN row.principal * D
    ELSE f * (row.principal * Outstanding(row))

PartsLeft(rs, D, w) == SumFunctionOnSet([i \in Ids |-> Parts(rs[i], D, w[i])], Ids)

(* There are such parts for every schedule.                                  *)
LEMMA PartsExist ==
    ASSUME NEW rs \in Rows
    PROVE  \E D, w : Fits(D, w, rs)
<1> DEFINE d == [i \in Ids |-> Due(rs[i])]
           Fit(D, w, S) == \A i \in S : d[i] # 0 => w[i] * d[i] = D
           G == {S \in SUBSET Ids : \E D \in Positive, w \in [Ids -> Int] : Fit(D, w, S)}
<1>1. \A i \in Ids : d[i] \in Int
  BY DuesAre DEF Rows
<1> HIDE DEF d
<1>2. {} \in G
  <2>1. 1 \in Positive /\ [i \in Ids |-> 1] \in [Ids -> Int]
    BY DEF Positive
  <2> QED
    BY <2>1
<1>3. ASSUME NEW S \in SUBSET Ids, NEW k \in Ids \ S, S \in G
      PROVE  S \cup {k} \in G
  <2>1. PICK D \in Positive, w \in [Ids -> Int] : Fit(D, w, S)
    BY <1>3
  <2>2. PICK e \in Positive : d[k] # 0 => e = d[k] \/ e = - d[k]
    <3>1. 1 \in Positive /\ (d[k] > 0 => d[k] \in Positive) /\ (d[k] < 0 => - d[k] \in Positive)
      BY <1>1 DEF Positive
    <3> QED
      BY <1>1, <3>1
  <2> DEFINE new == [i \in Ids |-> IF i = k THEN (IF e = d[k] THEN D ELSE - D) ELSE w[i] * e]
  <2>3. D * e \in Positive
    BY DEF Positive
  <2>4. new \in [Ids -> Int]
    BY DEF Positive
  <2>5. ASSUME NEW i \in S, d[i] # 0
        PROVE  new[i] * d[i] = D * e
    <3>1. new[i] = w[i] * e /\ w[i] * d[i] = D /\ w[i] \in Int /\ d[i] \in Int
      BY <1>1, <1>3, <2>1, <2>5
    <3>2. (w[i] * e) * d[i] = (w[i] * d[i]) * e
      BY <3>1 DEF Positive
    <3> QED
      BY <3>1, <3>2
  <2>6. d[k] # 0 => new[k] * d[k] = D * e
    <3> SUFFICES ASSUME d[k] # 0
                 PROVE  new[k] * d[k] = D * e
      OBVIOUS
    <3>1. CASE e = d[k]
      BY <3>1
    <3>2. CASE e # d[k]
      <4>1. new[k] = - D /\ d[k] = - e
        BY <1>1, <2>2, <3>2 DEF Positive
      <4>2. (- D) * (- e) = D * e
        BY DEF Positive
      <4> QED
        BY <4>1, <4>2
    <3> QED
      BY <3>1, <3>2
  <2> HIDE DEF new
  <2>7. Fit(D * e, new, S \cup {k})
    BY <2>5, <2>6
  <2> HIDE DEF Fit
  <2> QED
    BY <1>3, <2>3, <2>4, <2>7
<1>4. Ids \in G
  <2> HIDE DEF G
  <2> QED
    BY <1>2, <1>3, IdsAre, AddInduction
<1>5. PICK D \in Positive, w \in [Ids -> Int] : Fit(D, w, Ids)
  BY <1>4
<1> QED
  BY <1>5 DEF Fits, d

(* What is uncovered on an unpaid row, in parts.                             *)
LEMMA UncoveredParts ==
    ASSUME NEW row \in Row, NEW D \in Positive, NEW f \in Int, Due(row) # 0 => f * Due(row) = D
    PROVE  /\ Parts(row, D, f) \in Int
           /\ row.live /\ ~ row.isPaid => Worth(Uncovered(row), D, Parts(row, D, f))
<1> DEFINE a == row.principal * Outstanding(row)
           d == Due(row)
<1>1. row.principal \in Int /\ Outstanding(row) \in Int /\ d \in Int /\ a \in Int /\ D \in Int
  BY DuesAre DEF Row, Positive
<1>2. Parts(row, D, f) \in Int
  <2>1. row.principal * D \in Int /\ f * a \in Int
    BY <1>1
  <2> QED
    BY <2>1 DEF Parts
<1>3. ASSUME row.live, ~ row.isPaid
      PROVE  Worth(Uncovered(row), D, Parts(row, D, f))
  <2>1. CASE d = 0
    <3>1. Uncovered(row).num = row.principal /\ Uncovered(row).den = 1
      BY <2>1 DEF Uncovered, Whole, Frac
    <3>2. Parts(row, D, f) = row.principal * D
      BY <1>3, <2>1 DEF Parts
    <3>3. row.principal * D \in Int
      BY <1>1
    <3> QED
      BY <3>1, <3>2, <3>3 DEF Worth
  <2>2. CASE d # 0
    <3>1. Uncovered(row) = Ratio(a, d) /\ Parts(row, D, f) = f * a /\ f * d = D
      BY <1>3, <2>2 DEF Uncovered, Parts
    <3>2. a * D = (f * a) * d
      <4> HIDE DEF a, d
      <4>1. a * (f * d) = (f * a) * d
        BY <1>1
      <4> QED
        BY <3>1, <4>1
    <3>3. (- a) * D = (f * a) * (- d)
      <4> HIDE DEF a, d
      <4>1. (- a) * (f * d) = (f * a) * (- d)
        BY <1>1
      <4> QED
        BY <3>1, <4>1
    <3>4. \/ Uncovered(row).num = a /\ Uncovered(row).den = d
          \/ Uncovered(row).num = - a /\ Uncovered(row).den = - d
      BY <3>1 DEF Ratio, Frac
    <3> HIDE DEF a, d
    <3> QED
      BY <3>1, <3>2, <3>3, <3>4 DEF Worth
  <2> QED
    BY <2>1, <2>2
<1> QED
  BY <1>2, <1>3

(* The principal left on a schedule, in parts.                               *)
LEMMA LeftIsParts ==
    ASSUME NEW rs \in Rows, NEW D, NEW w, Fits(D, w, rs)
    PROVE  PartsLeft(rs, D, w) \in Int /\ Worth(PrincipalLeft(rs), D, PartsLeft(rs, D, w))
<1> DEFINE U == Unpaid(rs)
           f == [i \in Ids |-> Parts(rs[i], D, w[i])]
           Sum(s) == SumFunctionOnSet(f, s)
<1>1. PICK it : /\ PrincipalLeft(rs) = it[U]
                /\ it[{}] = Whole(0)
                /\ \A s \in SUBSET U : s # {} =>
                      it[s] = Plus(it[s \ {OneOf(s)}], Uncovered(rs[OneOf(s)]))
  BY LeftFolds
<1>2. U \in SUBSET Ids /\ IsFiniteSet(U) /\ IsFiniteSet(Ids)
  BY IdsAre, FS_Subset DEF Unpaid, Live
<1>3. D \in Positive /\ D \in Int
  BY DEF Fits, Positive
<1>4. ASSUME NEW i \in Ids
      PROVE  /\ f[i] \in Int
             /\ i \in U => Uncovered(rs[i]) \in Fractions /\ Worth(Uncovered(rs[i]), D, f[i])
             /\ i \notin U => f[i] = 0
  <2>1. rs[i] \in Row /\ w[i] \in Int /\ (Due(rs[i]) # 0 => w[i] * Due(rs[i]) = D)
    BY DEF Rows, Fits
  <2>2. i \in U <=> rs[i].live /\ ~ rs[i].isPaid
    BY DEF Unpaid, Live
  <2>3. f[i] = Parts(rs[i], D, w[i])
    OBVIOUS
  <2> HIDE DEF U, f
  <2>4. i \notin U => f[i] = 0
    BY <2>2, <2>3 DEF Parts
  <2> QED
    BY <1>3, <2>1, <2>2, <2>3, <2>4, UncoveredParts, UncoveredIs
<1>5. PartsLeft(rs, D, w) = Sum(Ids)
  BY DEF PartsLeft
<1> HIDE DEF U, f
<1>6. Sum(Ids) = Sum(U) /\ Sum(Ids) \in Int
  BY <1>2, <1>4, SumSupport, SumTerms
<1> DEFINE G == {s \in SUBSET U : it[s] \in Fractions /\ Worth(it[s], D, Sum(s))}
<1>7. ASSUME NEW s \in SUBSET U, \A t \in SUBSET s : t # s => t \in G
      PROVE  s \in G
  <2>1. CASE s = {}
    <3>1. Sum({}) = 0
      BY SumEmpty
    <3>2. Whole(0).num = 0 /\ Whole(0).den = 1 /\ Whole(0) \in Fractions
      BY FractionsClosed DEF Whole, Frac
    <3>3. 0 * D = 0 * 1
      BY <1>3
    <3>4. Worth(Whole(0), D, Sum({}))
      BY <3>1, <3>2, <3>3 DEF Worth
    <3> QED
      BY <1>1, <2>1, <3>2, <3>4
  <2>2. CASE s # {}
    <3> DEFINE i == OneOf(s)
               t == s \ {i}
               p == it[t]
               q == Uncovered(rs[i])
    <3>1. i \in s /\ i \in U /\ i \in Ids /\ t \in SUBSET s /\ t # s
      BY <1>2, <2>2, OneOfIn
    <3>2. p \in Fractions /\ Worth(p, D, Sum(t))
      BY <1>7, <3>1
    <3>3. q \in Fractions /\ Worth(q, D, f[i]) /\ f[i] \in Int
      BY <1>4, <3>1
    <3>4. IsFiniteSet(s) /\ \A k \in s : f[k] \in Int
      BY <1>2, <1>4, FS_Subset
    <3>5. Sum(s) = f[i] + Sum(t) /\ Sum(t) \in Int
      <4>1. IsFiniteSet(t) /\ \A k \in t : f[k] \in Int
        BY <3>1, <3>4, FS_Subset
      <4>2. Sum(t) \in Int
        BY <4>1, SumTerms
      <4>3. Sum(s) = f[i] + Sum(s \ {i})
        <5> HIDE DEF i
        <5> QED
          BY <3>1, <3>4, SumTerms
      <4> QED
        BY <4>2, <4>3
    <3>6. it[s] = Plus(p, q)
      BY <1>1, <2>2
    <3> HIDE DEF p, q, i, t, Sum
    <3>7. Worth(Plus(p, q), D, Sum(t) + f[i]) /\ Plus(p, q) \in Fractions
      BY <1>3, <3>2, <3>3, <3>5, WorthPlus, FractionsClosed
    <3>8. Sum(t) + f[i] = Sum(s)
      BY <3>3, <3>5
    <3> QED
      BY <3>6, <3>7, <3>8
  <2> QED
    BY <2>1, <2>2
<1>8. U \in G
  <2> HIDE DEF G
  <2> QED
    BY <1>2, <1>7, SetInduction
<1> QED
  BY <1>1, <1>5, <1>6, <1>8

\* the principal that has been paid has gone from what is left
Splits(rs, D, w) ==
    {acc \in [left : Nat, rows : Rows, principal : Fractions] :
        /\ \A i \in Ids : Settles(rs[i], acc.rows[i])
        /\ Worth(acc.principal, D, PartsLeft(rs, D, w) - PartsLeft(acc.rows, D, w))}

(* A row that has been paid on asks for as much as before.                   *)
LEMMA SettlesDue ==
    ASSUME NEW old \in Row, NEW new \in Row, Settles(old, new)
    PROVE  Due(new) = Due(old) /\ new.live = old.live
<1>1. CASE new = old
  BY <1>1
<1>2. CASE new # old
  <2>1. new = Marked(old, old.penalty, new.paid, new.isPaid)
    BY <1>2 DEF Settles
  <2>2. /\ new.principal = old.principal /\ new.interest = old.interest
        /\ new.penalty = old.penalty /\ new.live = old.live
    BY ONLY <2>1 DEF Marked
  <2> QED
    BY <2>2 DEF Due
<1> QED
  BY <1>1, <1>2

(* One installment's turn takes as much principal off what is left as it     *)
(* counts.                                                                   *)
LEMMA PayRowSplits ==
    ASSUME NEW rs \in Rows, NEW D, NEW w, Fits(D, w, rs), NEW x \in Nat,
           NEW acc \in Paying(rs, x) \cap Splits(rs, D, w), NEW i \in Live(rs)
    PROVE  PayRow(acc, i) \in Splits(rs, D, w)
<1> DEFINE row == acc.rows[i]
           new == PayRow(acc, i)
           before == PartsLeft(acc.rows, D, w)
           after == PartsLeft(new.rows, D, w)
           f == w[i]
<1>1. /\ acc \in [left : Nat, rows : Rows, principal : Fractions]
      /\ \A k \in Ids : Settles(rs[k], acc.rows[k])
      /\ Worth(acc.principal, D, PartsLeft(rs, D, w) - before)
  BY DEF Splits
<1>2. /\ new \in [left : Nat, rows : Rows, principal : Fractions]
      /\ \A k \in Ids : Settles(rs[k], new.rows[k])
  <2>1. new \in Paying(rs, x)
    BY PayRowStays
  <2> HIDE DEF new
  <2> QED
    BY <2>1 DEF Paying
<1>3. i \in Ids /\ rs[i].live /\ row \in Row /\ f \in Int /\ D \in Positive /\ D \in Int
  BY <1>1 DEF Live, Rows, Fits, Positive
<1>4. ASSUME NEW g \in Rows, \A k \in Ids : Settles(rs[k], g[k])
      PROVE  Fits(D, w, g) /\ PartsLeft(g, D, w) \in Int
  <2>1. \A k \in Ids : Due(g[k]) = Due(rs[k])
    BY <1>4, SettlesDue DEF Rows
  <2>2. Fits(D, w, g)
    BY <2>1 DEF Fits
  <2> QED
    BY <1>4, <2>2, LeftIsParts
<1>5. PartsLeft(rs, D, w) \in Int /\ before \in Int /\ after \in Int
  BY <1>1, <1>2, <1>4, LeftIsParts
<1>6. CASE new = acc
  BY <1>6
<1>7. CASE new # acc
  <2>1. PICK applied \in Nat :
            /\ applied > 0 /\ applied <= acc.left /\ applied <= Outstanding(row)
            /\ new = [left |-> acc.left - applied,
                      rows |-> [acc.rows EXCEPT ![i] =
                                  Marked(row, row.penalty, row.paid + applied, applied = Outstanding(row))],
                      principal |-> Plus(acc.principal, PrincipalShare(row, applied))]
    BY <1>1, <1>3, <1>7, PayRowIs
  <2> DEFINE one == Marked(row, row.penalty, row.paid + applied, applied = Outstanding(row))
             share == PrincipalShare(row, applied)
             got == f * (applied * row.principal)
  <2>2. /\ row.paid \in Nat /\ row.penalty \in Nat /\ row.principal \in Int /\ row.isPaid = FALSE
        /\ Outstanding(row) \in Int /\ Due(row) \in Int /\ Outstanding(row) = Due(row) - row.paid
    <3>1. row.isPaid = FALSE
      BY <1>1, <1>3, <1>7, PayRowIs
    <3> QED
      BY <1>3, <3>1, DuesAre DEF Row, Outstanding
  <2>3. /\ row.live /\ Due(row) \in Positive /\ f * Due(row) = D
    <3>1. Settles(rs[i], row) /\ rs[i] \in Row
      BY <1>1, <1>3 DEF Rows
    <3>2. Due(row) = Due(rs[i]) /\ row.live
      BY <1>3, <3>1, SettlesDue
    <3>3. Due(row) > 0
      BY <2>1, <2>2
    <3> QED
      BY <1>3, <2>2, <3>2, <3>3 DEF Fits, Positive
  <2>4. new.rows = [acc.rows EXCEPT ![i] = one] /\ new.principal = Plus(acc.principal, share)
    BY <2>1
  <2> HIDE DEF new, row, f
  <2>5. /\ one.principal = row.principal /\ one.live = row.live /\ one.paid = row.paid + applied
        /\ one.isPaid = (applied = Outstanding(row))
        /\ Due(one) = Due(row)
    BY DEF Marked, Due
  <2> HIDE DEF one
  <2>6. Outstanding(one) = Outstanding(row) - applied
    BY <2>2, <2>5 DEF Outstanding
  <2>7. Parts(row, D, f) = f * (row.principal * Outstanding(row))
    BY <2>2, <2>3 DEF Parts, Positive
  <2>8. Parts(one, D, f) = f * (row.principal * (Outstanding(row) - applied))
    <3>1. CASE applied = Outstanding(row)
      <4>1. Parts(one, D, f) = 0
        BY <2>5, <3>1 DEF Parts
      <4>2. Outstanding(row) - applied = 0
        BY <2>2, <3>1
      <4>3. f * (row.principal * 0) = 0
        BY <1>3, <2>2
      <4> QED
        BY <4>1, <4>2, <4>3
    <3>2. CASE applied # Outstanding(row)
      BY <2>2, <2>3, <2>5, <2>6, <3>2 DEF Parts, Positive
    <3> QED
      BY <3>1, <3>2
  <2>9. /\ Parts(one, D, f) - Parts(row, D, f) = - got
        /\ Parts(one, D, f) \in Int /\ Parts(row, D, f) \in Int /\ got \in Int
    <3> DEFINE p == row.principal
               o == Outstanding(row)
    <3>1. p \in Int /\ o \in Int
      BY <2>2
    <3> HIDE DEF p, o
    <3>2. f * (p * (o - applied)) - f * (p * o) = - (f * (applied * p))
      BY <1>3, <3>1
    <3>3. f * (p * (o - applied)) \in Int /\ f * (p * o) \in Int /\ f * (applied * p) \in Int
      BY <1>3, <3>1
    <3> QED
      BY <2>7, <2>8, <3>2, <3>3 DEF p, o
  <2>10. after = before - got
    <3> DEFINE g == [k \in Ids |-> Parts(acc.rows[k], D, w[k])]
               h == [k \in Ids |-> Parts(new.rows[k], D, w[k])]
    <3>1. acc.rows \in Rows /\ new.rows \in Rows
      BY <1>1, <1>2
    <3>2. /\ \A k \in Ids : g[k] \in Int /\ h[k] \in Int
          /\ \A k \in Ids \ {i} : g[k] = h[k]
          /\ g[i] = Parts(row, D, f) /\ h[i] = Parts(one, D, f)
      <4>1. new.rows[i] = one /\ \A k \in Ids \ {i} : new.rows[k] = acc.rows[k]
        BY <1>3, <2>4, <3>1 DEF Rows
      <4>2. Fits(D, w, acc.rows) /\ Fits(D, w, new.rows)
        BY <1>1, <1>2, <1>4, <3>1
      <4>3. \A r \in Rows : Fits(D, w, r) => \A k \in Ids : Parts(r[k], D, w[k]) \in Int
        BY UncoveredParts DEF Rows, Fits
      <4> QED
        BY <1>3, <3>1, <4>1, <4>2, <4>3 DEF row, f
    <3>3. before = SumFunctionOnSet(g, Ids) /\ after = SumFunctionOnSet(h, Ids)
      BY DEF PartsLeft
    <3> HIDE DEF g, h, before, after
    <3>4. SumFunctionOnSet(h, Ids) = SumFunctionOnSet(g, Ids) + h[i] - g[i]
      <4>1. i \in Ids /\ IsFiniteSet(Ids)
        BY <1>3, IdsAre
      <4>2. \A k \in Ids : g[k] \in Int /\ h[k] \in Int
        BY <3>2
      <4>3. \A k \in Ids \ {i} : g[k] = h[k]
        BY <3>2
      <4> QED
        BY ONLY <4>1, <4>2, <4>3, SumChange
    <3> HIDE DEF got
    <3> QED
      BY <1>5, <2>9, <3>2, <3>3, <3>4
  <2>11. share \in Fractions /\ Worth(share, D, got)
    <3> DEFINE a == applied * row.principal
               d == Due(row)
    <3>1. a \in Int /\ d \in Positive /\ f * d = D
      BY <2>2, <2>3
    <3>2. share.num = a /\ share.den = d /\ share \in Fractions
      BY <3>1 DEF PrincipalShare, Frac, Fractions, Positive
    <3> HIDE DEF a, d
    <3>3. a * (f * d) = (f * a) * d
      BY <1>3, <3>1 DEF Positive
    <3>4. a * D = (f * a) * d
      BY <3>1, <3>3
    <3> QED
      BY <3>2, <3>4 DEF Worth, a
  <2> HIDE DEF got, share, before, after
  <2>12. Worth(Plus(acc.principal, share), D, (PartsLeft(rs, D, w) - before) + got)
    <3>1. acc.principal \in Fractions /\ PartsLeft(rs, D, w) - before \in Int
      BY <1>1, <1>5
    <3> QED
      BY <1>1, <1>3, <2>9, <2>11, <3>1, WorthPlus
  <2>13. (PartsLeft(rs, D, w) - before) + got = PartsLeft(rs, D, w) - after
    BY <1>5, <2>9, <2>10
  <2>14. Worth(new.principal, D, PartsLeft(rs, D, w) - after)
    BY <2>4, <2>12, <2>13
  <2> QED
    BY <1>2, <2>14 DEF Splits, after, new
<1> QED
  BY <1>6, <1>7

(* What a repayment posts is the principal that has gone from the schedule,  *)
(* rounded to cents.                                                         *)
LEMMA RepaySplits ==
    ASSUME NEW v \in Views, NEW x \in Nat, NEW D, NEW w, Fits(D, w, v.rows)
    PROVE  \E p \in Fractions, rs \in Rows :
              /\ Repay(v, x).debit = RepaymentGl(p) /\ Repay(v, x).rows = rs
              /\ Fits(D, w, rs)
              /\ Worth(p, D, PartsLeft(v.rows, D, w) - PartsLeft(rs, D, w))
<1> DEFINE V == Paying(v.rows, x) \cap Splits(v.rows, D, w)
           base == [left |-> x, rows |-> v.rows, principal |-> Whole(0)]
<1>1. v.rows \in Rows
  BY DEF Views
<1>2. base \in V
  <2>1. PaidOn(v.rows, Ids) \in Nat
    BY <1>1, PaidIs
  <2>2. Whole(0) \in Fractions /\ Whole(0).num = 0 /\ Whole(0).den = 1
    BY FractionsClosed DEF Whole, Frac
  <2>3. base \in [left : Nat, rows : Rows, principal : Fractions]
    BY <1>1, <2>2
  <2>4. PaidOn(base.rows, Ids) = PaidOn(v.rows, Ids) + x - base.left
    BY <2>1
  <2>5. PartsLeft(v.rows, D, w) \in Int /\ D \in Int
    BY <1>1, LeftIsParts DEF Fits, Positive
  <2>6. Worth(Whole(0), D, PartsLeft(v.rows, D, w) - PartsLeft(v.rows, D, w))
    <3>1. PartsLeft(v.rows, D, w) - PartsLeft(v.rows, D, w) = 0 /\ 0 * D = 0 * 1
      BY <2>5
    <3> QED
      BY <2>2, <3>1 DEF Worth
  <2> QED
    BY <2>3, <2>4, <2>6 DEF Paying, Splits, Settles
<1>3. \A acc \in V : \A i \in Live(v.rows) : PayRow(acc, i) \in V
  BY <1>1, PayRowStays, PayRowSplits
<1> HIDE DEF V
<1>4. PICK paid \in V : Repay(v, x) = Repayment(v, x, paid)
  BY <1>2, <1>3, RepayStays
<1>5. /\ paid.principal \in Fractions /\ paid.rows \in Rows
      /\ \A i \in Ids : Settles(v.rows[i], paid.rows[i])
      /\ Worth(paid.principal, D, PartsLeft(v.rows, D, w) - PartsLeft(paid.rows, D, w))
  BY DEF V, Splits
<1>6. Fits(D, w, paid.rows)
  <2>1. \A k \in Ids : Due(paid.rows[k]) = Due(v.rows[k])
    BY <1>1, <1>5, SettlesDue DEF Rows
  <2> QED
    BY <2>1 DEF Fits
<1>7. Repay(v, x).debit = RepaymentGl(paid.principal) /\ Repay(v, x).rows = paid.rows
  BY <1>4 DEF Repayment
<1> QED
  BY <1>5, <1>6, <1>7

(* A repayment takes what it posts off the principal left, to within the     *)
(* half cent that the posting rounds.                                        *)
LEMMA RepayNear ==
    ASSUME GlPosts = Entries, NEW v \in Views, NEW x \in Nat, NEW r \in Int, NEW k \in Int,
           Near(r, PrincipalLeft(v.rows), k)
    PROVE  Near(r + Repay(v, x).debit, PrincipalLeft(Repay(v, x).rows), k + 1)
<1>1. v.rows \in Rows
  BY DEF Views
<1>2. PICK D, w : Fits(D, w, v.rows)
  BY <1>1, PartsExist
<1>3. PICK p \in Fractions, rs \in Rows :
          /\ Repay(v, x).debit = RepaymentGl(p) /\ Repay(v, x).rows = rs
          /\ Fits(D, w, rs)
          /\ Worth(p, D, PartsLeft(v.rows, D, w) - PartsLeft(rs, D, w))
  BY <1>2, RepaySplits
<1> DEFINE n == PartsLeft(v.rows, D, w)
           m == PartsLeft(rs, D, w)
           c == Cents(p)
<1>4. n \in Int /\ m \in Int /\ D \in Positive /\ n - m \in Int
  BY <1>1, <1>2, <1>3, LeftIsParts DEF Fits
<1>5. /\ 2 * (r * D) - 2 * n <= k * D
      /\ 2 * n - 2 * (r * D) <= k * D
  <2>1. PrincipalLeft(v.rows) \in Fractions /\ Worth(PrincipalLeft(v.rows), D, n)
    BY <1>1, <1>2, LeftIsParts, PrincipalLeftIs
  <2> HIDE DEF n
  <2> QED
    BY <1>4, <2>1, NearParts
<1>6. c \in Int /\ Near(c, p, 1)
  <2>1. /\ c \in Int /\ c * p.den \in Int /\ p.num \in Int /\ p.den \in Int
        /\ 2 * (c * p.den) - 2 * p.num <= p.den
        /\ 2 * p.num - 2 * (c * p.den) <= p.den
    BY CentsNear DEF Fractions
  <2> HIDE DEF c
  <2> QED
    BY <2>1 DEF Near
<1>7. /\ 2 * (c * D) - 2 * (n - m) <= 1 * D
      /\ 2 * (n - m) - 2 * (c * D) <= 1 * D
  <2>1. Worth(p, D, n - m)
    BY <1>3
  <2> HIDE DEF n, m, c
  <2> QED
    BY <1>4, <1>6, <2>1, NearParts
<1>8. Repay(v, x).debit = - c
  BY <1>3 DEF RepaymentGl, Entries
<1> HIDE DEF c
<1>9. /\ 2 * ((r + - c) * D) - 2 * m <= (k + 1) * D
      /\ 2 * m - 2 * ((r + - c) * D) <= (k + 1) * D
  <2> HIDE DEF n, m
  <2>1. (r + - c) * D = r * D - c * D /\ (k + 1) * D = k * D + D /\ 1 * D = D
    BY <1>4, <1>6 DEF Positive
  <2>2. r * D \in Int /\ c * D \in Int /\ k * D \in Int /\ D \in Int
    BY <1>4, <1>6 DEF Positive
  <2> QED
    BY <1>4, <1>5, <1>7, <2>1, <2>2
<1>10. PrincipalLeft(rs) \in Fractions /\ Worth(PrincipalLeft(rs), D, m)
  BY <1>3, LeftIsParts, PrincipalLeftIs
<1> HIDE DEF n, m
<1>11. Near(r + - c, PrincipalLeft(rs), k + 1)
  <2>1. r + - c \in Int /\ k + 1 \in Int
    BY <1>6
  <2> QED
    BY <1>4, <1>9, <1>10, <2>1, NearParts
<1> QED
  BY <1>3, <1>8, <1>11

(* Two amounts that are near a fraction are near each other, and the one is  *)
(* near any fraction that is exactly the other.                              *)
LEMMA NearBoth ==
    ASSUME NEW p \in Fractions, NEW q \in Fractions, NEW r \in Int, NEW t \in Int, NEW k \in Int,
           Near(r, p, k), Near(t, p, 1), Near(t, q, 0)
    PROVE  Near(r, q, k + 1)
<1> DEFINE d == p.den
           n == p.num
           e == q.den
           m == q.num
<1>1. d \in Positive /\ n \in Int /\ e \in Positive /\ m \in Int
  BY DEF Fractions, Positive
<1>2. /\ 2 * (r * d - n) <= k * d /\ - (2 * (r * d - n)) <= k * d
      /\ 2 * (t * d - n) <= 1 * d /\ - (2 * (t * d - n)) <= 1 * d
      /\ 2 * (t * e - m) <= 0 * e /\ - (2 * (t * e - m)) <= 0 * e
  BY DEF Near
<1> HIDE DEF d, n, e, m
<1>3. (2 * (r - t)) * d <= (k + 1) * d /\ (2 * (t - r)) * d <= (k + 1) * d
  <2>1. /\ (2 * (r - t)) * d = 2 * (r * d) - 2 * (t * d)
        /\ (2 * (t - r)) * d = 2 * (t * d) - 2 * (r * d)
        /\ (k + 1) * d = k * d + d /\ 1 * d = d
    BY <1>1 DEF Positive
  <2>2. r * d \in Int /\ t * d \in Int /\ k * d \in Int /\ d \in Int
    BY <1>1 DEF Positive
  <2> QED
    BY <1>1, <1>2, <2>1, <2>2
<1>4. 2 * (r - t) <= k + 1 /\ 2 * (t - r) <= k + 1
  <2>1. \A a, b \in Int : a * d <= b * d => a <= b
    BY <1>1 DEF Positive
  <2>2. 2 * (r - t) \in Int /\ 2 * (t - r) \in Int /\ k + 1 \in Int
    OBVIOUS
  <2> QED
    BY <1>3, <2>1, <2>2
<1>5. m = t * e
  <2>1. t * e \in Int /\ 0 * e = 0
    BY <1>1 DEF Positive
  <2> QED
    BY <1>1, <1>2, <2>1
<1>6. 2 * (r * e - m) <= (k + 1) * e /\ - (2 * (r * e - m)) <= (k + 1) * e
  <2>1. \A a, b \in Int : a <= b => a * e <= b * e
    BY <1>1 DEF Positive
  <2>2. (2 * (r - t)) * e <= (k + 1) * e /\ (2 * (t - r)) * e <= (k + 1) * e
    BY <1>4, <2>1
  <2>3. /\ (2 * (r - t)) * e = 2 * (r * e - t * e)
        /\ (2 * (t - r)) * e = - (2 * (r * e - t * e))
    BY <1>1 DEF Positive
  <2> QED
    BY <1>5, <2>2, <2>3
<1> QED
  BY <1>6 DEF Near, e, m

(* What is near is also within more half cents.                              *)
LEMMA NearMore ==
    ASSUME NEW p \in Fractions, NEW r \in Int, NEW k \in Int, NEW l \in Int, k <= l, Near(r, p, k)
    PROVE  Near(r, p, l)
<1> DEFINE d == p.den
           a == 2 * (r * d - p.num)
<1>1. d \in Nat /\ a \in Int
  BY DEF Fractions
<1>2. a <= k * d /\ - a <= k * d
  BY DEF Near
<1> HIDE DEF a, d
<1>3. k * d <= l * d /\ k * d \in Int /\ l * d \in Int
  BY <1>1
<1>4. a <= l * d /\ - a <= l * d
  BY <1>1, <1>2, <1>3
<1> QED
  BY <1>4 DEF Near, a, d

\* the rows of rs that are not paid are those of the new schedule built, from
\* the id n + 1 on
Starts(rs, n, m, built) ==
    \A i \in Ids :
        IF n < i /\ i <= n + m
        THEN /\ rs[i].live /\ ~ rs[i].isPaid /\ rs[i].paid = 0
             /\ rs[i].principal = built[i - n].principal
        ELSE ~ rs[i].live \/ rs[i].isPaid

(* The principal left on a new schedule is the sum of its rows' principals.  *)
LEMMA StartsNear ==
    ASSUME NEW rs \in Rows, NEW n \in Nat, NEW m \in Nat, n + m <= MaxRows,
           NEW built \in Seq(Installments), Len(built) = m, Starts(rs, n, m, built)
    PROVE  Repaid(built, m) \in Int /\ Near(Repaid(built, m), PrincipalLeft(rs), 0)
<1>1. PICK D, w : Fits(D, w, rs)
  BY PartsExist
<1>2. D \in Positive /\ D \in Int
  BY <1>1 DEF Fits, Positive
<1> DEFINE S == 1 .. m
           N == {n + k : k \in S}
           f == [i \in Ids |-> Parts(rs[i], D, w[i])]
           r == [k \in S |-> n + k]
           g == [k \in S |-> built[k].principal * D]
           b == [k \in DOMAIN built |-> built[k].principal]
           Total == SumFunctionOnSet(b, S)
<1>3. \A k \in S : built[k].principal \in Int /\ b[k] = built[k].principal
  <2>1. \A k \in S : built[k] \in Installments /\ k \in DOMAIN built
    OBVIOUS
  <2>2. \A k \in S : b[k] = built[k].principal
    BY <2>1
  <2> QED
    BY <2>1, <2>2 DEF Installments
<1>4. IsFiniteSet(S) /\ IsFiniteSet(Ids) /\ N \in SUBSET Ids
  <2>1. N \subseteq Ids
    <3>1. \A k \in S : n + k \in 1 .. MaxRows
      BY ConstantsAre
    <3> QED
      BY <3>1 DEF Ids
  <2>2. IsFiniteSet(S)
    BY FS_Interval
  <2> HIDE DEF N, S
  <2> QED
    BY <2>1, <2>2, IdsAre
<1>5. \A k \in S : f[n + k] = g[k] /\ g[k] \in Int
  <2> SUFFICES ASSUME NEW k \in S
               PROVE  f[n + k] = g[k] /\ g[k] \in Int
    OBVIOUS
  <2> DEFINE i == n + k
             row == rs[i]
  <2>1. i \in Ids /\ n < i /\ i <= n + m /\ i - n = k /\ row \in Row
    BY <1>4 DEF Rows
  <2>2. row.live /\ ~ row.isPaid /\ row.paid = 0 /\ row.principal = built[k].principal
    BY <2>1 DEF Starts
  <2>3. w[i] \in Int /\ (Due(row) # 0 => w[i] * Due(row) = D)
    BY <1>1, <2>1 DEF Fits
  <2>4. f[i] = Parts(row, D, w[i]) /\ g[k] = built[k].principal * D
    BY <2>1
  <2>5. built[k].principal \in Int
    BY <1>3
  <2> DEFINE pr == built[k].principal
             e == w[i]
             d == Due(row)
  <2>6. d \in Int /\ Outstanding(row) = d
    <3>1. d \in Int
      BY <2>1, DuesAre
    <3> QED
      BY <2>2, <3>1 DEF Outstanding
  <2>7. Parts(row, D, e) = pr * D
    <3>1. CASE d = 0
      BY <2>2, <3>1 DEF Parts
    <3>2. CASE d # 0
      <4>1. Parts(row, D, e) = e * (pr * d) /\ e * d = D
        BY <2>2, <2>3, <2>6, <3>2 DEF Parts
      <4>2. pr \in Int /\ e \in Int /\ d \in Int
        BY <2>3, <2>5, <2>6
      <4> HIDE DEF pr, e, d
      <4>3. e * (pr * d) = pr * (e * d)
        BY <4>2
      <4> QED
        BY <4>1, <4>3
    <3> QED
      BY <3>1, <3>2
  <2>8. pr * D \in Int
    BY <1>2, <2>5
  <2> QED
    BY <2>4, <2>7, <2>8
<1>6. \A i \in Ids : f[i] \in Int /\ (i \notin N => f[i] = 0)
  <2> SUFFICES ASSUME NEW i \in Ids
               PROVE  f[i] \in Int /\ (i \notin N => f[i] = 0)
    OBVIOUS
  <2>1. rs[i] \in Row /\ f[i] = Parts(rs[i], D, w[i])
    BY DEF Rows
  <2>2. f[i] \in Int
    BY <1>1, <1>2, <2>1, UncoveredParts DEF Fits
  <2>3. i \notin N => ~ (n < i /\ i <= n + m)
    <3>1. i \in Nat
      BY IdsAre
    <3>2. n < i /\ i <= n + m => i - n \in S /\ i = n + (i - n)
      BY <3>1
    <3> QED
      BY <3>2
  <2>4. i \notin N => ~ rs[i].live \/ rs[i].isPaid
    BY <2>3 DEF Starts
  <2> HIDE DEF N, f
  <2> QED
    BY <2>1, <2>2, <2>4 DEF Parts
<1>7. PartsLeft(rs, D, w) = SumFunctionOnSet(f, Ids)
  BY DEF PartsLeft
<1>8. {r[k] : k \in S} = N /\ (\A k, l \in S : r[k] = r[l] => k = l) /\ \A k \in S : f[r[k]] = g[k]
  BY <1>5
<1> HIDE DEF f, N, r
<1>9. SumFunctionOnSet(f, Ids) = SumFunctionOnSet(f, N)
  BY <1>4, <1>6, SumSupport
<1>10. SumFunctionOnSet(f, N) = SumFunctionOnSet(g, S)
  <2>1. \A k \in S : g[k] \in Int
    BY <1>5
  <2> HIDE DEF g, S
  <2>2. SumFunctionOnSet(f, {r[k] : k \in S}) = SumFunctionOnSet(g, S)
    BY <1>4, <1>8, <2>1, SumRenamed
  <2> QED
    BY <1>8, <2>2
<1>11. SumFunctionOnSet(g, S) = Total * D /\ Total \in Int
  <2>1. \A k \in S : b[k] \in Int /\ g[k] = b[k] * D
    BY <1>3
  <2>2. IsFiniteSet(S) /\ D \in Int
    BY <1>2, <1>4
  <2> HIDE DEF b, g, S
  <2>3. /\ SumFunctionOnSet(b, S) \in Int
        /\ SumFunctionOnSet(g, S) = SumFunctionOnSet(b, S) * D
    BY <2>1, <2>2, SumTimes
  <2> QED
    BY <2>3
<1>12. Repaid(built, m) = Total
  BY DEF Repaid
<1> HIDE DEF Total
<1>13. PrincipalLeft(rs) \in Fractions /\ Worth(PrincipalLeft(rs), D, Total * D)
  BY <1>1, <1>7, <1>9, <1>10, <1>11, LeftIsParts, PrincipalLeftIs
<1>14. Total * D \in Int /\ 0 * D = 0
  BY <1>2, <1>11
<1>15. Near(Total, PrincipalLeft(rs), 0)
  <2>1. 2 * (Total * D) - 2 * (Total * D) <= 0 * D
    BY <1>14
  <2>2. 0 \in Int
    OBVIOUS
  <2> QED
    BY <1>2, <1>11, <1>13, <1>14, <2>1, <2>2, NearParts
<1> QED
  BY <1>11, <1>12, <1>15

\* every entry is posted, and a schedule's rows ask for what they asked for
\* when they were made
OnlyRepaid == GlPosts = Entries /\ Operations \cap {"penalties", "waive", "write_off"} = {}

\* the receivable follows the schedule, and there is neither before the loan
\* is paid out
Booked ==
    /\ Near(receivable, PrincipalLeft(rows), repayments)
    /\ status = "approved" => receivable = 0 /\ Live(rows) = {}

(* What a commit of a fresh session posts.                                   *)
LEMMA CommitPosts ==
    ASSUME Isolation = "serializable", Typed, Fresh, NEW s \in Sessions, Commit(s)
    PROVE  /\ receivable' = receivable + After(job[s], Current).debit
           /\ repayments' = IF job[s].kind \in {"repay", "payroll", "reschedule"}
                            THEN repayments + 1 ELSE repayments
<1>1. /\ phase[s] = "working" /\ ~ stale[s]
      /\ receivable' = receivable + After(job[s], view[s]).debit
      /\ repayments' = IF job[s].kind \in {"repay", "payroll", "reschedule"}
                       THEN repayments + 1 ELSE repayments
  BY DEF Commit, MayCommit
<1>2. view[s] = Current
  BY <1>1 DEF Fresh
<1> QED
  BY <1>1, <1>2

(* Before its schedule exists a loan has no principal to repay.              *)
LEMMA NoneLeft ==
    ASSUME NEW rs \in Rows, Unpaid(rs) = {}
    PROVE  PrincipalLeft(rs) = Whole(0)
  BY LeftFolds

(* A repayment of a loan that has no installment.                            *)
LEMMA NothingToRepay ==
    ASSUME NEW v \in Views, NEW x \in Nat, Live(v.rows) = {}
    PROVE  Repay(v, x) = Repayment(v, x, [left |-> x, rows |-> v.rows, principal |-> Whole(0)])
<1> DEFINE base == [left |-> x, rows |-> v.rows, principal |-> Whole(0)]
           V == {base}
<1>1. base \in V
  OBVIOUS
<1>2. \A acc \in V : \A i \in Live(v.rows) : PayRow(acc, i) \in V
  OBVIOUS
<1>3. \A paid \in V : paid = base
  OBVIOUS
<1> HIDE DEF V
<1>4. \E paid \in V : Repay(v, x) = Repayment(v, x, paid)
  BY <1>1, <1>2, RepayStays
<1> QED
  BY <1>3, <1>4

(* A schedule that replaces what was not paid, beside rows that are paid.    *)
LEMMA CommittedSchedule ==
    ASSUME Isolation = "serializable", Sound, NEW j, NEW new, Commits(j, new),
           NEW principal \in Fractions, NEW m \in Positive, NEW n \in Nat, NEW today \in Nat,
           new.added = NewRows(principal, m, n, today),
           \A i \in Ids : ~ new.rows[i].live \/ new.rows[i].isPaid,
           used' <= MaxRows
    PROVE  LET total == Repaid(BuildSchedule(principal, Rate, m), m)
           IN  total \in Int /\ Near(total, PrincipalLeft(rows'), 0)
<1> DEFINE built == BuildSchedule(principal, Rate, m)
<1>1. built \in Seq(Installments) /\ Len(built) = m
  BY ConstantsAre, ScheduleIs
<1>2. /\ Len(new.added) = m
      /\ \A i \in 1 .. m : new.added[i].principal = built[i].principal
  <2>1. Len(new.added) = m
    <3>1. Len(NewRows(principal, m, n, today)) = m
      BY NewRowsAre
    <3> QED
      BY <3>1
  <2>2. \A i \in 1 .. m : new.added[i].principal = built[i].principal
    BY DEF NewRows
  <2> QED
    BY <2>1, <2>2
<1> HIDE DEF built
<1>3. used \in Nat /\ m \in Nat /\ used' = used + m /\ rows' \in Rows
  BY <1>2 DEF Sound, Typed, TypeOK, Commits, Positive
<1>4. ASSUME NEW i \in Ids
      PROVE  IF used < i /\ i <= used + m
             THEN /\ rows'[i].live /\ ~ rows'[i].isPaid /\ rows'[i].paid = 0
                  /\ rows'[i].principal = built[i - used].principal
             ELSE ~ rows'[i].live \/ rows'[i].isPaid
  <2>1. i \in Nat
    BY IdsAre
  <2>2. used < i <=> i > used
    BY <1>3, <2>1
  <2>3. \/ /\ i > used /\ i <= used' /\ new.rows[i] = Blank
           /\ i - used \in 1 .. Len(new.added) /\ rows'[i] = new.added[i - used]
           /\ rows'[i].live /\ ~ rows'[i].isPaid /\ rows'[i].paid = 0 /\ rows'[i].penalty = 0
        \/ /\ ~ (i > used /\ i <= used') /\ rows'[i] = new.rows[i]
    BY CommittedRow DEF Sound
  <2> QED
    BY <1>2, <1>3, <2>2, <2>3
<1>5. Starts(rows', used, m, built)
  BY <1>4 DEF Starts
<1>6. Repaid(built, m) \in Int /\ Near(Repaid(built, m), PrincipalLeft(rows'), 0)
  <2>1. used + m <= MaxRows
    BY <1>3
  <2> QED
    BY <1>1, <1>3, <1>5, <2>1, StartsNear
<1> QED
  BY <1>6 DEF built

(* Each commit keeps Loans Receivable near the principal that is left.       *)
LEMMA BookedCommit ==
    ASSUME Isolation = "serializable", OnlyRepaid, Sound, Booked, NEW s \in Sessions, Commit(s), Sound'
    PROVE  Booked'
<1> DEFINE j == job[s]
           v == Current
           new == After(j, v)
<1>1. Commits(j, new)
  BY CommitIs DEF Sound
<1>2. /\ receivable' = receivable + new.debit
      /\ repayments' = IF j.kind \in {"repay", "payroll", "reschedule"}
                       THEN repayments + 1 ELSE repayments
  BY CommitPosts DEF Sound
<1>3. v \in Views /\ v.rows = rows /\ v.status = status /\ rows \in Rows
  BY DEF Sound, Typed, TypeOK, Views, Rows, Current
<1>4. /\ j \in Requests /\ j.kind \in Operations /\ Accepts(j.kind, v)
      /\ status' = new.status /\ rows' \in Rows
  BY <1>1 DEF Commits
<1> HIDE DEF j, v
<1>5. j.amount \in Inputs(j.kind) /\ j.amount \in Nat /\ j.month \in Nat /\ j.kind \in Kinds
  BY <1>4 DEF Requests
<1>6. receivable \in Int /\ repayments \in Nat /\ used' <= MaxRows /\ receivable' \in Int /\ repayments' \in Nat
  BY DEF Sound, Typed, TypeOK
<1>7. PrincipalLeft(rows) \in Fractions /\ PrincipalLeft(rows') \in Fractions
  BY <1>3, <1>4, PrincipalLeftIs
<1>8. CASE j.kind \in {"repay", "payroll"}
  <2>1. new = Repay(v, j.amount)
    BY <1>8 DEF After
  <2> HIDE DEF new
  <2>2. \A i \in Ids : rows'[i] = new.rows[i]
    <3>1. new.added = << >>
      BY <1>3, <1>5, <2>1, RepayDoes
    <3>2. used \in Nat
      BY DEF Sound, Typed, TypeOK
    <3>3. \A i \in Ids : i \in Nat
      BY IdsAre
    <3> QED
      BY <1>1, <3>1, <3>2, <3>3 DEF Commits
  <2>3. rows' = new.rows
    <3>1. new.rows \in Rows
      BY <1>1 DEF Commits, Effect, Outcomes
    <3> QED
      BY <1>4, <2>2, <3>1 DEF Rows
  <2>4. Near(receivable', PrincipalLeft(rows'), repayments')
    <3>1. Near(receivable + new.debit, PrincipalLeft(new.rows), repayments + 1)
      BY <1>3, <1>5, <1>6, <2>1, RepayNear DEF OnlyRepaid, Booked
    <3> QED
      BY <1>2, <1>8, <2>3, <3>1
  <2>5. ASSUME status' = "approved"
        PROVE  receivable' = 0 /\ Live(rows') = {}
    <3>1. status = "approved" /\ Live(rows) = {} /\ receivable = 0
      <4>1. new.status = IF Live(rows) # {} /\ Unpaid(new.rows) = {} THEN "closed" ELSE status
        BY <1>3, <1>5, <2>1, RepayDoes
      <4> QED
        BY <1>4, <2>5, <4>1 DEF Booked
    <3> DEFINE base == [left |-> j.amount, rows |-> v.rows, principal |-> Whole(0)]
    <3>2. new = Repayment(v, j.amount, base)
      BY <1>3, <1>5, <2>1, <3>1, NothingToRepay
    <3>3. new.rows = rows /\ new.debit = RepaymentGl(Whole(0))
      <4>1. base.rows = rows /\ base.principal = Whole(0)
        BY <1>3
      <4> HIDE DEF base
      <4>2. new.rows = base.rows /\ new.debit = RepaymentGl(base.principal)
        BY <3>2 DEF Repayment
      <4> QED
        BY <4>1, <4>2
    <3>4. RepaymentGl(Whole(0)) = 0
      <4>1. Whole(0).num = 0 /\ Whole(0).den = 1
        BY DEF Whole, Frac
      <4>2. (2 * 0 + 1) \div (2 * 1) = 0
        OBVIOUS
      <4>3. Cents(Whole(0)) = 0
        BY <4>1, <4>2 DEF Cents
      <4> QED
        BY <4>3 DEF RepaymentGl
    <3> QED
      BY <1>2, <2>3, <3>1, <3>3, <3>4
  <2> QED
    BY <2>4, <2>5 DEF Booked
<1>9. CASE j.kind = "disburse"
  <2> DEFINE total == Repaid(BuildSchedule(Whole(Principal), Rate, Months), Months)
  <2>1. new = Disburse(v, j.month)
    BY <1>9 DEF After
  <2> HIDE DEF new
  <2>2. /\ new.added = NewRows(Whole(Principal), Months, 0, j.month) /\ new.rows = NoRows
        /\ new.status = "active" /\ new.debit = Principal
    <3>1. new.debit = DisbursementGl
      BY <2>1 DEF Disburse
    <3> QED
      BY <1>3, <1>5, <2>1, <3>1, DisburseIs DEF OnlyRepaid, DisbursementGl, Entries
  <2>3. total \in Int /\ Near(total, PrincipalLeft(rows'), 0)
    <3>1. \A i \in Ids : ~ new.rows[i].live
      BY <2>2, BlankHas DEF NoRows
    <3>2. Whole(Principal) \in Fractions /\ Months \in Positive /\ 0 \in Nat
      BY ConstantsAre, FractionsClosed
    <3> QED
      BY <1>1, <1>5, <1>6, <2>2, <3>1, <3>2, CommittedSchedule
  <2>4. total = Principal
    BY ConstantsAre, SchedulesOfCents
  <2>5. receivable' = Principal /\ repayments' = repayments
    <3>1. receivable = 0
      BY <1>3, <1>4, <1>9 DEF Accepts, Booked
    <3> QED
      BY <1>2, <1>9, <2>2, <3>1, ConstantsAre
  <2>6. Near(receivable', PrincipalLeft(rows'), repayments')
    BY <1>6, <1>7, <2>3, <2>4, <2>5, NearMore
  <2> QED
    BY <1>4, <2>2, <2>6 DEF Booked
<1>10. CASE j.kind = "reschedule"
  <2> DEFINE left == PrincipalLeft(rows)
             total == Repaid(BuildSchedule(left, Rate, j.amount), j.amount)
  <2>1. new = Reschedule(v, j.amount, j.month) /\ j.amount \in Positive
    BY <1>5, <1>10, ConstantsAre DEF After, Inputs
  <2> HIDE DEF new
  <2>2. /\ new.added = NewRows(left, j.amount, LastPaid(rows), j.month)
        /\ new.rows = [i \in Ids |-> IF i \in Unpaid(rows) THEN Blank ELSE rows[i]]
        /\ new.status = status /\ new.debit = 0
    BY <1>3, <2>1 DEF Reschedule
  <2>3. LastPaid(rows) \in Nat
    BY <1>3, LastPaidIs
  <2> HIDE DEF left
  <2>4. total \in Int /\ Near(total, PrincipalLeft(rows'), 0)
    <3>1. \A i \in Ids : ~ new.rows[i].live \/ new.rows[i].isPaid
      BY <2>2, BlankHas DEF Unpaid, Live
    <3>2. left \in Fractions
      BY <1>7 DEF left
    <3> QED
      BY <1>1, <1>5, <1>6, <2>1, <2>2, <2>3, <3>1, <3>2, CommittedSchedule
  <2>5. Near(total, left, 1)
    <3>1. left \in Fractions
      BY <1>7 DEF left
    <3>2. /\ 2 * (total * left.den) - 2 * left.num <= left.den
          /\ 2 * left.num - 2 * (total * left.den) <= left.den
      BY <2>1, <3>1, ConstantsAre, SchedulesRepayPrincipal
    <3>3. total * left.den \in Int /\ left.den \in Int /\ left.num \in Int
      BY <2>4, <3>1 DEF Fractions
    <3> HIDE DEF total
    <3> QED
      BY <3>2, <3>3 DEF Near
  <2>6. receivable' = receivable /\ repayments' = repayments + 1
    BY <1>2, <1>6, <1>10, <2>2
  <2> HIDE DEF total
  <2>7. Near(receivable', PrincipalLeft(rows'), repayments')
    <3>1. Near(receivable, left, repayments)
      BY DEF Booked, left
    <3> QED
      BY <1>6, <1>7, <2>4, <2>5, <2>6, <3>1, NearBoth DEF left
  <2>8. status' # "approved"
    BY <1>3, <1>4, <1>10, <2>2 DEF Accepts
  <2> QED
    BY <2>7, <2>8 DEF Booked
<1> QED
  BY <1>4, <1>5, <1>8, <1>9, <1>10 DEF OnlyRepaid, Kinds

(* Loans Receivable carries the principal that is still to be repaid, to     *)
(* within half a cent for each repayment and rescheduling: what is posted    *)
(* for a repayment is the principal's share of it, rounded. A penalty        *)
(* between two part payments changes the shares, a write-off credits what is *)
(* due and not the principal, so that neither may happen.                    *)
THEOREM ReceivableFollowsPrincipal ==
    ASSUME Isolation = "serializable",
           Operations \cap {"penalties", "waive", "write_off"} = {}
    PROVE  Spec => []ReceivableIsPrincipal
<1>1. CASE GlPosts = Entries
  <2>1. Init => Booked
    <3> SUFFICES ASSUME Init
                 PROVE  Booked
      OBVIOUS
    <3>1. rows \in Rows /\ Live(rows) = {} /\ Unpaid(rows) = {} /\ receivable = 0 /\ repayments = 0
      BY BlankIs, BlankHas DEF Init, NoRows, Rows, Live, Unpaid
    <3>2. PrincipalLeft(rows) = Whole(0)
      BY <3>1, NoneLeft
    <3> QED
      BY <3>1, <3>2 DEF Booked, Near, Whole, Frac
  <2>2. Sound /\ Booked /\ [Next]_vars /\ Sound' => Booked'
    <3> SUFFICES ASSUME Sound, Booked, [Next]_vars, Sound'
                 PROVE  Booked'
      OBVIOUS
    <3>1. CASE UNCHANGED books
      <4>1. rows' = rows /\ status' = status /\ receivable' = receivable /\ repayments' = repayments
        BY <3>1 DEF books
      <4>2. PrincipalLeft(rows') = PrincipalLeft(rows) /\ Live(rows') = Live(rows)
        BY <4>1
      <4> QED
        BY <4>1, <4>2 DEF Booked, Near
    <3>2. ASSUME NEW s \in Sessions, Commit(s)
          PROVE  Booked'
      BY <1>1, <3>2, BookedCommit DEF OnlyRepaid
    <3>3. UNCHANGED books \/ \E s \in Sessions : Commit(s)
      BY DEF Next, vars, Begin, Fail, MonthPasses
    <3> QED
      BY <3>1, <3>2, <3>3
  <2>3. Sound /\ Booked => ReceivableIsPrincipal
    BY <1>1 DEF Booked, Near, ReceivableIsPrincipal
  <2> QED
    BY <2>1, <2>2, <2>3, SoundAlways, PTL DEF Spec
<1>2. CASE GlPosts # Entries
  <2>1. ReceivableIsPrincipal
    BY <1>2 DEF ReceivableIsPrincipal
  <2> QED
    BY <2>1, PTL
<1> QED
  BY <1>1, <1>2
=============================================================================
