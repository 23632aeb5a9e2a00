----------------------------- MODULE TextProofs -----------------------------
(***************************************************************************)
(* The lemmas about texts and numbers that the codec's proofs rest on: the *)
(* number stoi reads is the one to_string has written.                     *)
(***************************************************************************)
EXTENDS InputLineProofs, SequenceTheorems

\* What a text consists of.  The characters the codec itself writes are
\* strings, too, but the provers do not know that of a literal.
Characters ==
  STRING \cup {"/", "?", ",", "-", "NUL", "C", "S", "Y"} \cup Digits
    \cup {"b", "r", "o", "a", "d", "c", "s", "t"}

CharVectors == Seq(Characters)

-----------------------------------------------------------------------------
(***************************************************************************)
(* Induction and recursion, with sets and functions in the place of        *)
(* operators.                                                              *)
(***************************************************************************)

\* What holds of 0, and of k + 1 if it holds of k, holds up to n.
LEMMA UpTo ==
  ASSUME NEW n \in Nat, NEW P, 0 \in P,
         \A k \in 0 .. n - 1 : k \in P => k + 1 \in P
  PROVE  \A k \in 0 .. n : k \in P
<1> DEFINE I == {k \in 0 .. n : k \notin P}
<1> SUFFICES ASSUME I # {} PROVE FALSE
  OBVIOUS
<1>1. I \in SUBSET Nat
  OBVIOUS
<1>2. PICK m \in I : \A j \in I : m <= j
  BY <1>1, LeastIndex
<1>3. m - 1 \in 0 .. n - 1 /\ m - 1 \notin I
  BY <1>1, <1>2
<1>4. m - 1 \in P
  BY <1>3
<1>5. m - 1 + 1 = m
  BY <1>1, <1>2
<1> QED BY <1>2, <1>3, <1>4, <1>5

\* f takes one step for each element of s.
Stepwise(f, base, step, s) ==
  /\ f[0] = base
  /\ \A k \in 1 .. Len(s) : f[k] = step[<<f[k - 1], s[k]>>]

\* There are functions of the beginnings of a sequence that take one step for
\* each element.
LEMMA Steps ==
  ASSUME NEW X, NEW S, NEW base \in X, NEW step \in [X \X S -> X],
         NEW s \in Seq(S)
  PROVE  \E f \in [0 .. Len(s) -> X] : Stepwise(f, base, step, s)
<1> DEFINE Good(f, k) ==
             /\ f \in [0 .. k -> X]
             /\ f[0] = base
             /\ \A j \in 1 .. k : f[j] = step[<<f[j - 1], s[j]>>]
           P == {k \in 0 .. Len(s) : \E f : Good(f, k)}
<1>1. Len(s) \in Nat /\ \A i \in 1 .. Len(s) : s[i] \in S
  OBVIOUS
<1>2. 0 \in P
  <2> DEFINE f == [i \in 0 .. 0 |-> base]
  <2>1. Good(f, 0)
    OBVIOUS
  <2> HIDE DEF Good
  <2> QED BY <1>1, <2>1
<1>3. ASSUME NEW k \in 0 .. Len(s) - 1, k \in P
      PROVE  k + 1 \in P
  <2>1. PICK f : Good(f, k)
    BY <1>3
  <2> DEFINE g == [j \in 0 .. k + 1 |->
                     IF j = k + 1 THEN step[<<f[k], s[k + 1]>>] ELSE f[j]]
  <2>2. f[k] \in X /\ s[k + 1] \in S /\ step[<<f[k], s[k + 1]>>] \in X
    BY <1>1, <2>1
  <2>3. /\ \A j \in 0 .. k : g[j] = f[j] /\ g[j] \in X
        /\ g[k + 1] = step[<<f[k], s[k + 1]>>]
        /\ DOMAIN g = 0 .. k + 1
    BY <2>1
  <2>4. g \in [0 .. k + 1 -> X]
    BY <2>1, <2>2
  <2> HIDE DEF g
  <2>5. ASSUME NEW j \in 1 .. k + 1
        PROVE  g[j] = step[<<g[j - 1], s[j]>>]
    <3>1. CASE j = k + 1
      <4>1. j - 1 = k /\ k \in 0 .. k
        BY <3>1
      <4> QED BY <2>3, <3>1, <4>1
    <3>2. CASE j # k + 1
      <4>1. j \in 1 .. k /\ j - 1 \in 0 .. k /\ j \in 0 .. k
        BY <3>2
      <4> QED BY <2>1, <2>3, <4>1
    <3> QED BY <3>1, <3>2
  <2>6. g[0] = base
    BY <2>1, <2>3
  <2>7. Good(g, k + 1)
    BY <2>4, <2>5, <2>6
  <2> HIDE DEF Good
  <2>8. k + 1 \in 0 .. Len(s)
    BY <1>1
  <2> QED BY <2>7, <2>8
<1>4. Len(s) \in P
  <2> HIDE DEF P
  <2>1. \A k \in 0 .. Len(s) : k \in P
    BY <1>1, <1>2, <1>3, UpTo
  <2> QED BY <1>1, <2>1
<1> QED BY <1>4 DEF Stepwise

-----------------------------------------------------------------------------
(***************************************************************************)
(* Digits.                                                                 *)
(***************************************************************************)

\* Each digit has its own value.
LEMMA DigitValues ==
  /\ \A d \in 0 .. 9 : /\ Numerals[d + 1] \in Digits
                       /\ DigitValue(Numerals[d + 1]) = d
  /\ \A c \in Digits : DigitValue(c) \in 0 .. 9
<1>1. Len(Numerals) = 10 /\ DOMAIN Numerals = 1 .. 10
  BY DEF Numerals
<1>2. \A i, j \in 1 .. 10 : Numerals[i] = Numerals[j] => i = j
  BY DEF Numerals
<1>3. ASSUME NEW d \in 0 .. 9
      PROVE  DigitValue(Numerals[d + 1]) = d
  <2> DEFINE I == {i \in 1 .. Len(Numerals) : Numerals[i] = Numerals[d + 1]}
  <2>1. \A i : i \in I <=> i = d + 1
    BY <1>1, <1>2
  <2>2. SelectInSeq(Numerals, LAMBDA x : x = Numerals[d + 1])
          = IF I # {} THEN Min(I) ELSE 0
    BY DEF SelectInSeq
  <2> HIDE DEF I
  <2>3. I \in SUBSET Nat /\ I # {}
    BY <2>1
  <2>4. Min(I) = d + 1
    BY <2>1, <2>3, LeastIndex
  <2> QED BY <2>2, <2>3, <2>4 DEF DigitValue
<1>4. \A c : c \in Digits <=> \E d \in 0 .. 9 : c = Numerals[d + 1]
  <2>1. \A c : c \in Digits <=> \E i \in 1 .. 10 : c = Numerals[i]
    BY <1>1 DEF Digits, ToSet
  <2>2. \A i \in 1 .. 10 : i - 1 \in 0 .. 9 /\ i - 1 + 1 = i
    OBVIOUS
  <2>3. \A d \in 0 .. 9 : d + 1 \in 1 .. 10
    OBVIOUS
  <2> QED BY <2>1, <2>2, <2>3
<1> QED BY <1>3, <1>4

Numbers == Seq(Digits)

\* digitsValue reads from left to right.
LEMMA DigitsValueSteps ==
  ASSUME NEW s \in Numbers
  PROVE  \E f \in [0 .. Len(s) -> Nat] :
           /\ f[0] = 0
           /\ \A k \in 1 .. Len(s) : f[k] = 10 * f[k - 1] + DigitValue(s[k])
           /\ digitsValue(s) = f[Len(s)]
<1> DEFINE step == [p \in Nat \X Digits |-> 10 * p[1] + DigitValue(p[2])]
           value == CHOOSE g : g = [k \in 0 .. Len(s) |->
                      IF k = 0 THEN 0 ELSE 10 * g[k - 1] + DigitValue(s[k])]
<1>1. Len(s) \in Nat /\ \A i \in 1 .. Len(s) : s[i] \in Digits
  BY DEF Numbers
<1>2. step \in [Nat \X Digits -> Nat]
  BY DigitValues
<1>3. \A n \in Nat, c \in Digits : step[<<n, c>>] = 10 * n + DigitValue(c)
  OBVIOUS
<1> HIDE DEF step
<1>4. PICK f \in [0 .. Len(s) -> Nat] :
        /\ f[0] = 0
        /\ \A k \in 1 .. Len(s) : f[k] = step[<<f[k - 1], s[k]>>]
  <2>1. s \in Seq(Digits) /\ 0 \in Nat
    BY DEF Numbers
  <2>2. \E f \in [0 .. Len(s) -> Nat] : Stepwise(f, 0, step, s)
    BY <1>2, <2>1, Steps
  <2> QED BY <2>2 DEF Stepwise
<1>5. \A k \in 1 .. Len(s) : f[k] = 10 * f[k - 1] + DigitValue(s[k])
  <2>1. ASSUME NEW k \in 1 .. Len(s)
        PROVE  f[k - 1] \in Nat /\ s[k] \in Digits
    BY <1>1
  <2> QED BY <1>3, <1>4, <2>1
<1>6. f = [k \in 0 .. Len(s) |->
             IF k = 0 THEN 0 ELSE 10 * f[k - 1] + DigitValue(s[k])]
  BY <1>1, <1>4, <1>5
<1>7. value = [k \in 0 .. Len(s) |->
                 IF k = 0 THEN 0 ELSE 10 * value[k - 1] + DigitValue(s[k])]
  BY <1>6
<1>8. digitsValue(s) = value[Len(s)]
  BY DEF digitsValue
<1> HIDE DEF value
<1> DEFINE P == {k \in 0 .. Len(s) : value[k] = f[k]}
<1>9. 0 \in P
  BY <1>1, <1>4, <1>7
<1>10. ASSUME NEW k \in 0 .. Len(s) - 1, k \in P
       PROVE  k + 1 \in P
  <2>1. k + 1 \in 1 .. Len(s) /\ k + 1 - 1 = k /\ k + 1 \in 0 .. Len(s)
    BY <1>1
  <2>2. value[k + 1] = 10 * value[k] + DigitValue(s[k + 1])
    BY <1>7, <2>1
  <2>3. f[k + 1] = 10 * f[k] + DigitValue(s[k + 1])
    BY <1>5, <2>1
  <2> QED BY <1>10, <2>1, <2>2, <2>3
<1>11. Len(s) \in P
  <2> HIDE DEF P
  <2>1. \A k \in 0 .. Len(s) : k \in P
    BY <1>1, <1>9, <1>10, UpTo
  <2> QED BY <1>1, <2>1
<1> QED BY <1>4, <1>5, <1>8, <1>11

\* Numbers are read as naturals.
LEMMA DigitsValueIsNat ==
  ASSUME NEW s \in Numbers
  PROVE  digitsValue(s) \in Nat
<1>1. Len(s) \in Nat
  BY DEF Numbers
<1> QED BY <1>1, DigitsValueSteps

\* A further digit.
LEMMA DigitsValueAppend ==
  ASSUME NEW s \in Numbers, NEW c \in Digits
  PROVE  digitsValue(Append(s, c)) = 10 * digitsValue(s) + DigitValue(c)
<1> DEFINE t == Append(s, c)
<1>1. /\ t \in Numbers /\ Len(s) \in Nat /\ Len(t) = Len(s) + 1
      /\ t[Len(s) + 1] = c
      /\ \A k \in 1 .. Len(s) : t[k] = s[k]
  BY DEF Numbers
<1> HIDE DEF t
<1>2. PICK f \in [0 .. Len(s) -> Nat] :
        /\ f[0] = 0
        /\ \A k \in 1 .. Len(s) : f[k] = 10 * f[k - 1] + DigitValue(s[k])
        /\ digitsValue(s) = f[Len(s)]
  BY DigitsValueSteps
<1>3. PICK g \in [0 .. Len(t) -> Nat] :
        /\ g[0] = 0
        /\ \A k \in 1 .. Len(t) : g[k] = 10 * g[k - 1] + DigitValue(t[k])
        /\ digitsValue(t) = g[Len(t)]
  BY <1>1, DigitsValueSteps
<1> DEFINE P == {k \in 0 .. Len(s) : g[k] = f[k]}
<1>4. 0 \in P
  BY <1>1, <1>2, <1>3
<1>5. ASSUME NEW k \in 0 .. Len(s) - 1, k \in P
      PROVE  k + 1 \in P
  <2>1. /\ k + 1 \in 1 .. Len(s) /\ k + 1 - 1 = k /\ k + 1 \in 0 .. Len(s)
        /\ k + 1 \in 1 .. Len(t)
    BY <1>1
  <2>2. f[k + 1] = 10 * f[k] + DigitValue(s[k + 1])
    BY <1>2, <2>1
  <2>3. g[k + 1] = 10 * g[k] + DigitValue(s[k + 1])
    BY <1>1, <1>3, <2>1
  <2> QED BY <1>5, <2>1, <2>2, <2>3
<1>6. g[Len(s)] = f[Len(s)]
  <2>1. Len(s) \in P
    <3> HIDE DEF P
    <3>1. \A k \in 0 .. Len(s) : k \in P
      BY <1>1, <1>4, <1>5, UpTo
    <3> QED BY <1>1, <3>1
  <2> QED BY <2>1
<1>7. Len(s) + 1 \in 1 .. Len(t) /\ Len(s) + 1 - 1 = Len(s)
  BY <1>1
<1>8. g[Len(s) + 1] = 10 * g[Len(s)] + DigitValue(c)
  BY <1>1, <1>3, <1>7
<1> QED BY <1>1, <1>2, <1>3, <1>6, <1>8 DEF t

-----------------------------------------------------------------------------
(***************************************************************************)
(* Writing a number.                                                       *)
(***************************************************************************)

\* What decimal[n] is, if f has the numbers below n.
DecimalOf(f, n) ==
  IF n < 10 THEN <<Numerals[n + 1]>>
            ELSE Append(f[n \div 10], Numerals[(n % 10) + 1])

\* f has the numbers up to n.
DecimalsUpTo(f, n) == \A i \in 0 .. n : f[i] = DecimalOf(f, i)

\* Division makes a number of two digits or more smaller.
LEMMA Tenth ==
  ASSUME NEW n \in Nat, n >= 10
  PROVE  /\ n \div 10 \in 0 .. n - 1
         /\ n % 10 \in 0 .. 9
         /\ n = 10 * (n \div 10) + (n % 10)
  OBVIOUS

\* There is one way to write the numbers up to n.
LEMMA DecimalsExist ==
  ASSUME NEW n \in Nat
  PROVE  \E f : DecimalsUpTo(f, n)
<1> DEFINE P == {k \in 0 .. n : \E f : DecimalsUpTo(f, k)}
<1>1. 0 \in P
  <2> DEFINE f == [i \in 0 .. 0 |-> <<Numerals[1]>>]
  <2>1. \A i \in 0 .. 0 : f[i] = DecimalOf(f, i)
    BY DEF DecimalOf
  <2> HIDE DEF f
  <2> QED BY <2>1 DEF DecimalsUpTo
<1>2. ASSUME NEW k \in 0 .. n - 1, k \in P
      PROVE  k + 1 \in P
  <2>1. PICK f : \A i \in 0 .. k : f[i] = DecimalOf(f, i)
    BY <1>2 DEF DecimalsUpTo
  <2> DEFINE g == [i \in 0 .. k + 1 |->
                     IF i = k + 1 THEN DecimalOf(f, k + 1) ELSE f[i]]
  <2>2. /\ \A i \in 0 .. k : g[i] = f[i]
        /\ g[k + 1] = DecimalOf(f, k + 1)
    OBVIOUS
  <2> HIDE DEF g
  <2>3. ASSUME NEW i \in 0 .. k + 1
        PROVE  g[i] = DecimalOf(g, i)
    <3>1. g[i] = DecimalOf(f, i)
      BY <2>1, <2>2
    <3>2. ASSUME i >= 10 PROVE i \div 10 \in 0 .. k
      BY <3>2, Tenth
    <3>3. ASSUME i >= 10 PROVE f[i \div 10] = g[i \div 10]
      BY <2>2, <3>2, <3>3
    <3> QED BY <3>1, <3>3 DEF DecimalOf
  <2> QED BY <2>3 DEF DecimalsUpTo
<1>3. n \in P
  <2> HIDE DEF P
  <2>1. \A k \in 0 .. n : k \in P
    BY <1>1, <1>2, UpTo
  <2> QED BY <2>1
<1> QED BY <1>3

\* Two ways to write them agree.
LEMMA DecimalsAgree ==
  ASSUME NEW m \in Nat, NEW n \in Nat, NEW f, NEW g,
         DecimalsUpTo(f, m), DecimalsUpTo(g, n),
         NEW k \in Nat, k <= m, k <= n
  PROVE  f[k] = g[k]
<1> DEFINE P == {i \in 0 .. k : \A j \in 0 .. i : f[j] = g[j]}
<1>1. \A i \in 0 .. k : f[i] = DecimalOf(f, i) /\ g[i] = DecimalOf(g, i)
  BY DEF DecimalsUpTo
<1>2. 0 \in P
  <2>1. f[0] = g[0]
    <3>1. \A x : DecimalOf(x, 0) = <<Numerals[1]>>
      BY DEF DecimalOf
    <3>2. 0 \in 0 .. k
      OBVIOUS
    <3> QED BY <1>1, <3>1, <3>2
  <2> QED BY <2>1
<1>3. ASSUME NEW i \in 0 .. k - 1, i \in P
      PROVE  i + 1 \in P
  <2>1. ASSUME i + 1 >= 10
        PROVE  f[(i + 1) \div 10] = g[(i + 1) \div 10]
    <3>1. (i + 1) \div 10 \in 0 .. i
      BY <2>1, Tenth
    <3> QED BY <1>3, <3>1
  <2>2. i + 1 \in 0 .. k
    OBVIOUS
  <2>3. f[i + 1] = g[i + 1]
    <3>1. DecimalOf(f, i + 1) = DecimalOf(g, i + 1)
      BY <2>1 DEF DecimalOf
    <3> QED BY <1>1, <2>2, <3>1
  <2>4. \A j \in 0 .. i + 1 : j = i + 1 \/ j \in 0 .. i
    OBVIOUS
  <2> QED BY <1>3, <2>2, <2>3, <2>4
<1>4. k \in P
  <2> HIDE DEF P
  <2>1. \A i \in 0 .. k : i \in P
    BY <1>2, <1>3, UpTo
  <2> QED BY <2>1
<1> QED BY <1>4

\* decimal satisfies its recursion.
LEMMA DecimalSteps == \A n \in Nat : decimal[n] = DecimalOf(decimal, n)
<1> DEFINE up == [n \in Nat |-> CHOOSE f : DecimalsUpTo(f, n)]
           h == [n \in Nat |-> up[n][n]]
<1>1. \A n \in Nat : DecimalsUpTo(up[n], n)
  BY DecimalsExist
<1>2. \A n \in Nat : h[n] = up[n][n]
  OBVIOUS
<1>3. h = [n \in Nat |-> h[n]]
  OBVIOUS
<1> HIDE DEF up, h
<1>4. ASSUME NEW n \in Nat
      PROVE  h[n] = DecimalOf(h, n)
  <2>1. up[n][n] = DecimalOf(up[n], n)
    BY <1>1 DEF DecimalsUpTo
  <2>2. ASSUME n >= 10
        PROVE  up[n][n \div 10] = h[n \div 10]
    <3>1. n \div 10 \in Nat /\ n \div 10 <= n
      BY <2>2, Tenth
    <3>2. up[n][n \div 10] = up[n \div 10][n \div 10]
      BY <1>1, <3>1, DecimalsAgree
    <3> QED BY <1>2, <3>1, <3>2
  <2> QED BY <1>2, <2>1, <2>2 DEF DecimalOf
<1>5. h = [n \in Nat |-> DecimalOf(h, n)]
  BY <1>3, <1>4
<1>6. decimal = CHOOSE f : f = [n \in Nat |-> DecimalOf(f, n)]
  BY DEF decimal, DecimalOf
<1>7. decimal = [n \in Nat |-> DecimalOf(decimal, n)]
  BY <1>5, <1>6
<1> QED BY <1>7

\* The value of a single digit.
LEMMA OneDigit ==
  ASSUME NEW d \in 0 .. 9
  PROVE  /\ <<Numerals[d + 1]>> \in Numbers
         /\ <<Numerals[d + 1]>> # <<>>
         /\ digitsValue(<<Numerals[d + 1]>>) = d
<1> DEFINE c == Numerals[d + 1]
<1>1. c \in Digits /\ DigitValue(c) = d
  BY DigitValues
<1> HIDE DEF c
<1>2. <<c>> \in Numbers /\ Len(<<c>>) = 1 /\ <<c>>[1] = c /\ <<c>> # <<>>
  BY <1>1 DEF Numbers
<1>3. PICK f : /\ f[0] = 0
               /\ \A k \in 1 .. 1 : f[k] = 10 * f[k - 1] + DigitValue(<<c>>[k])
               /\ digitsValue(<<c>>) = f[1]
  BY <1>2, DigitsValueSteps
<1>4. f[1] = d
  <2>1. 1 \in 1 .. 1 /\ 1 - 1 = 0
    OBVIOUS
  <2>2. f[1] = 10 * f[1 - 1] + DigitValue(<<c>>[1])
    BY <1>3, <2>1
  <2> QED BY <1>1, <1>2, <1>3, <2>1, <2>2
<1> QED BY <1>2, <1>3, <1>4 DEF c

\* A further digit.
LEMMA NextDigit ==
  ASSUME NEW s \in Numbers, NEW d \in 0 .. 9
  PROVE  LET t == Append(s, Numerals[d + 1]) IN
         /\ t \in Numbers
         /\ t # <<>>
         /\ digitsValue(t) = 10 * digitsValue(s) + d
<1> DEFINE c == Numerals[d + 1]
<1>1. c \in Digits /\ DigitValue(c) = d
  BY DigitValues
<1> HIDE DEF c
<1>2. Append(s, c) \in Numbers /\ Append(s, c) # <<>>
  BY <1>1 DEF Numbers
<1>3. digitsValue(Append(s, c)) = 10 * digitsValue(s) + d
  BY <1>1, DigitsValueAppend
<1> QED BY <1>2, <1>3 DEF c

\* to_string writes a number with its own digits.
LEMMA DecimalIsNumber ==
  ASSUME NEW n \in Nat
  PROVE  /\ decimal[n] \in Numbers
         /\ decimal[n] # <<>>
         /\ digitsValue(decimal[n]) = n
<1> DEFINE Good(k) == /\ decimal[k] \in Numbers
                      /\ decimal[k] # <<>>
                      /\ digitsValue(decimal[k]) = k
           P == {k \in 0 .. n : \A j \in 0 .. k : Good(j)}
<1>2. ASSUME NEW k \in Nat, k < 10
      PROVE  Good(k)
  <2>1. decimal[k] = <<Numerals[k + 1]>>
    BY <1>2, DecimalSteps DEF DecimalOf
  <2>2. k \in 0 .. 9
    BY <1>2
  <2> QED BY <2>1, <2>2, OneDigit
<1>3. ASSUME NEW k \in Nat, k >= 10, Good(k \div 10)
      PROVE  Good(k)
  <2>1. decimal[k] = Append(decimal[k \div 10], Numerals[(k % 10) + 1])
    <3>1. ~(k < 10) /\ decimal[k] = DecimalOf(decimal, k)
      BY <1>3, DecimalSteps
    <3> QED BY <3>1, Zenon DEF DecimalOf
  <2>2. k % 10 \in 0 .. 9 /\ k = 10 * (k \div 10) + (k % 10)
    BY <1>3, Tenth
  <2> QED BY <1>3, <2>1, <2>2, NextDigit
<1>4. 0 \in P
  BY <1>2
<1>5. ASSUME NEW k \in 0 .. n - 1, k \in P
      PROVE  k + 1 \in P
  <2>1. ASSUME k + 1 >= 10
        PROVE  (k + 1) \div 10 \in 0 .. k
    BY <2>1, Tenth
  <2>2. Good(k + 1)
    BY <1>2, <1>3, <1>5, <2>1
  <2>3. \A j \in 0 .. k + 1 : j = k + 1 \/ j \in 0 .. k
    OBVIOUS
  <2> HIDE DEF Good
  <2> QED BY <1>5, <2>2, <2>3
<1>6. n \in P
  <2> HIDE DEF P
  <2>1. \A k \in 0 .. n : k \in P
    BY <1>4, <1>5, UpTo
  <2> QED BY <2>1
<1> QED BY <1>6

-----------------------------------------------------------------------------
(***************************************************************************)
(* Texts, character by character.                                          *)
(***************************************************************************)

\* Texts of equal length and with equal characters are equal.
LEMMA SameText ==
  ASSUME NEW s \in CharVectors, NEW t \in CharVectors, Len(s) = Len(t),
         \A i \in 1 .. Len(s) : s[i] = t[i]
  PROVE  s = t
  BY DEF CharVectors

\* The length and the characters of a text.
LEMMA TextProperties ==
  ASSUME NEW s \in CharVectors
  PROVE  /\ Len(s) \in Nat
         /\ DOMAIN s = 1 .. Len(s)
         /\ \A i \in 1 .. Len(s) : s[i] \in Characters
  BY DEF CharVectors

\* How many characters of S a text begins with, and what comes then.
LEMMA RunOf ==
  ASSUME NEW s \in CharVectors, NEW S
  PROVE  LET n == RunLength(s, S) IN
         /\ n \in 0 .. Len(s)
         /\ \A i \in 1 .. n : s[i] \in S
         /\ n < Len(s) => s[n + 1] \notin S
<1> DEFINE I == {i \in DOMAIN s : s[i] \notin S}
<1>1. Len(s) \in Nat /\ DOMAIN s = 1 .. Len(s)
  BY TextProperties
<1>2. RunLength(s, S) = IF FirstOf(I) = 0 THEN Len(s) ELSE FirstOf(I) - 1
  BY DEF RunLength
<1>3. /\ I \in SUBSET (Nat \ {0})
      /\ \A i : i \in I <=> i \in 1 .. Len(s) /\ s[i] \notin S
  BY <1>1
<1> HIDE DEF I
<1>4. CASE I = {}
  BY <1>1, <1>2, <1>3, <1>4 DEF FirstOf
<1>5. CASE I # {}
  <2>1. FirstOf(I) \in I /\ \A j \in I : FirstOf(I) <= j
    BY <1>3, <1>5, FirstIsLeast
  <2>2. /\ FirstOf(I) \in 1 .. Len(s)
        /\ s[FirstOf(I)] \notin S
        /\ RunLength(s, S) = FirstOf(I) - 1
    BY <1>2, <1>3, <2>1
  <2>3. \A i \in 1 .. FirstOf(I) - 1 : s[i] \in S
    BY <1>1, <1>3, <2>1, <2>2
  <2> QED BY <1>1, <2>2, <2>3
<1> QED BY <1>4, <1>5

\* So it is n, if the first n are of S and no further one is.
LEMMA RunIs ==
  ASSUME NEW s \in CharVectors, NEW S, NEW n \in 0 .. Len(s),
         \A i \in 1 .. n : s[i] \in S,
         n < Len(s) => s[n + 1] \notin S
  PROVE  RunLength(s, S) = n
<1> DEFINE r == RunLength(s, S)
<1>1. /\ r \in 0 .. Len(s)
      /\ \A i \in 1 .. r : s[i] \in S
      /\ r < Len(s) => s[r + 1] \notin S
  BY RunOf
<1>2. Len(s) \in Nat
  BY TextProperties
<1> HIDE DEF r
<1>3. ~(r < n)
  <2> SUFFICES ASSUME r < n PROVE FALSE
    OBVIOUS
  <2>1. r + 1 \in 1 .. n /\ r < Len(s)
    BY <1>1, <1>2
  <2> QED BY <1>1, <2>1
<1>4. ~(n < r)
  <2> SUFFICES ASSUME n < r PROVE FALSE
    OBVIOUS
  <2>1. n + 1 \in 1 .. r /\ n < Len(s)
    BY <1>1, <1>2
  <2> QED BY <1>1, <2>1
<1>5. r = n
  BY <1>1, <1>2, <1>3, <1>4
<1> QED BY <1>5 DEF r

\* No digit is a blank, a sign or part of a delimiter.
LEMMA DigitsAreOwn ==
  Digits \cap {" ", "-", "+", "/", "?", "NUL", ","} = {}
<1>1. \A c \in Digits : \E i \in 1 .. 10 : c = Numerals[i]
  BY DEF Digits, ToSet, Numerals
<1>2. /\ Numerals[1] = "0" /\ Numerals[2] = "1" /\ Numerals[3] = "2"
      /\ Numerals[4] = "3" /\ Numerals[5] = "4" /\ Numerals[6] = "5"
      /\ Numerals[7] = "6" /\ Numerals[8] = "7" /\ Numerals[9] = "8"
      /\ Numerals[10] = "9"
  BY DEF Numerals
<1>3. \A i \in 1 .. 10 : \/ i = 1 \/ i = 2 \/ i = 3 \/ i = 4 \/ i = 5
                         \/ i = 6 \/ i = 7 \/ i = 8 \/ i = 9 \/ i = 10
  OBVIOUS
<1>4. \A c \in Digits :
        c \in {"0", "1", "2", "3", "4", "5", "6", "7", "8", "9"}
  BY <1>1, <1>2, <1>3
<1> QED BY <1>4

\* A text without its first characters, and its beginning.
LEMMA Beginning ==
  ASSUME NEW s \in CharVectors, NEW n \in 0 .. Len(s)
  PROVE  /\ Without(s, n) \in CharVectors
         /\ Len(Without(s, n)) = Len(s) - n
         /\ \A i \in 1 .. Len(s) - n : Without(s, n)[i] = s[n + i]
         /\ SubSeq(s, 1, n) \in CharVectors
         /\ Len(SubSeq(s, 1, n)) = n
         /\ \A i \in 1 .. n : SubSeq(s, 1, n)[i] = s[i]
  BY DEF CharVectors, Without

-----------------------------------------------------------------------------
(***************************************************************************)
(* Numbers in texts.                                                       *)
(***************************************************************************)

\* The digits a text begins with are a number.
LEMMA RunOfDigits ==
  ASSUME NEW s \in CharVectors
  PROVE  SubSeq(s, 1, RunLength(s, Digits)) \in Numbers
<1> DEFINE n == RunLength(s, Digits)
           t == SubSeq(s, 1, n)
<1>1. n \in 0 .. Len(s) /\ \A i \in 1 .. n : s[i] \in Digits
  BY RunOf
<1> HIDE DEF n
<1>2. t \in CharVectors /\ Len(t) = n /\ \A i \in 1 .. n : t[i] = s[i]
  BY <1>1, Beginning
<1> HIDE DEF t
<1>3. \A i \in 1 .. Len(t) : t[i] \in Digits
  BY <1>1, <1>2
<1>4. t \in Numbers
  BY <1>2, <1>3 DEF CharVectors, Numbers
<1> QED BY <1>4 DEF t, n

\* stoi without its abbreviations.
Trimmed(s) == Without(s, RunLength(s, Blanks))

Signed(s) == Trimmed(s) # <<>> /\ Head(Trimmed(s)) \in {"-", "+"}

Unsigned(s) == IF Signed(s) THEN Tail(Trimmed(s)) ELSE Trimmed(s)

NumberOf(s) == SubSeq(Unsigned(s), 1, RunLength(Unsigned(s), Digits))

\* So this is what stoi reads.
LEMMA StoiIs ==
  ASSUME NEW s
  PROVE  stoi(s) = IF NumberOf(s) = <<>> THEN {}
                   ELSE {IF Signed(s) /\ Head(Trimmed(s)) = "-"
                           THEN -digitsValue(NumberOf(s))
                           ELSE digitsValue(NumberOf(s))}
  BY DEF stoi, NumberOf, Unsigned, Signed, Trimmed

\* The parts of a text that stoi looks at are texts.
LEMMA UnsignedText ==
  ASSUME NEW s \in CharVectors
  PROVE  Trimmed(s) \in CharVectors /\ Unsigned(s) \in CharVectors
<1>1. RunLength(s, Blanks) \in 0 .. Len(s)
  BY RunOf
<1>2. Trimmed(s) \in CharVectors
  BY <1>1, Beginning DEF Trimmed
<1>3. Trimmed(s) # <<>> => Tail(Trimmed(s)) \in CharVectors
  BY <1>2 DEF CharVectors
<1> QED BY <1>2, <1>3 DEF Unsigned, Signed

\* stoi reads an integer, or throws.
LEMMA StoiReadsIntegers ==
  ASSUME NEW s \in CharVectors
  PROVE  stoi(s) \in SUBSET Int
<1>1. NumberOf(s) \in Numbers
  BY UnsignedText, RunOfDigits DEF NumberOf
<1>2. digitsValue(NumberOf(s)) \in Nat
  BY <1>1, DigitsValueIsNat
<1> QED BY <1>2, StoiIs

\* Digits at the beginning of a text are read as their number.
LEMMA StoiReads ==
  ASSUME NEW s \in CharVectors, NEW k \in 1 .. Len(s),
         \A i \in 1 .. k : s[i] \in Digits,
         k < Len(s) => s[k + 1] \notin Digits
  PROVE  stoi(s) = {digitsValue(SubSeq(s, 1, k))}
<1>1. Len(s) \in Nat /\ s # <<>> /\ s[1] \in Digits
  BY TextProperties
<1>2. s[1] \notin Blanks /\ s[1] \notin {"-", "+"}
  BY <1>1, DigitsAreOwn DEF Blanks
<1>3. RunLength(s, Blanks) = 0
  <2>1. 0 \in 0 .. Len(s) /\ (\A i \in 1 .. 0 : s[i] \in Blanks)
    BY <1>1
  <2>2. 0 < Len(s) => s[0 + 1] \notin Blanks
    BY <1>2
  <2> QED BY <2>1, <2>2, RunIs
<1>4. Trimmed(s) = s
  BY <1>1, <1>3 DEF Trimmed, Without, CharVectors
<1>5. ~Signed(s)
  <2>1. Head(s) = s[1]
    BY <1>1 DEF CharVectors
  <2> QED BY <1>2, <1>4, <2>1 DEF Signed
<1>6. Unsigned(s) = s
  BY <1>4, <1>5 DEF Unsigned
<1>7. RunLength(s, Digits) = k
  BY RunIs
<1>8. NumberOf(s) = SubSeq(s, 1, k)
  BY <1>6, <1>7 DEF NumberOf
<1>9. NumberOf(s) # <<>>
  <2>1. Len(SubSeq(s, 1, k)) = k
    BY Beginning
  <2> QED BY <1>8, <2>1
<1> QED BY <1>5, <1>8, <1>9, StoiIs

\* What to_string writes is a text, and stoi reads it.
LEMMA NumberText ==
  /\ \A n \in Int : to_string(n) \in CharVectors
  /\ \A n \in Nat : /\ to_string(n) = decimal[n]
                    /\ \A i \in 1 .. Len(decimal[n]) : decimal[n][i] \in Digits
                    /\ Len(decimal[n]) \in Nat \ {0}
                    /\ stoi(decimal[n]) = {n}
<1>1. ASSUME NEW x \in Numbers
      PROVE  /\ x \in CharVectors
             /\ Len(x) \in Nat
             /\ \A i \in 1 .. Len(x) : x[i] \in Digits
             /\ x # <<>> => Len(x) # 0
             /\ SubSeq(x, 1, Len(x)) = x
  <2>1. /\ Len(x) \in Nat
        /\ \A i \in 1 .. Len(x) : x[i] \in Digits
        /\ x # <<>> => Len(x) # 0
        /\ SubSeq(x, 1, Len(x)) = x
    BY DEF Numbers
  <2>2. \A c \in Digits : c \in Characters
    BY DEF Characters
  <2>3. x \in CharVectors
    BY <2>1, <2>2 DEF Numbers, CharVectors
  <2> QED BY <2>1, <2>3
<1>2. \A n \in Nat : to_string(n) = decimal[n]
  BY DEF to_string
<1>3. ASSUME NEW n \in Nat
      PROVE  /\ \A i \in 1 .. Len(decimal[n]) : decimal[n][i] \in Digits
             /\ Len(decimal[n]) \in Nat \ {0}
             /\ stoi(decimal[n]) = {n}
             /\ decimal[n] \in CharVectors
  <2>1. /\ decimal[n] \in Numbers /\ decimal[n] # <<>>
        /\ digitsValue(decimal[n]) = n
    BY DecimalIsNumber
  <2>2. /\ decimal[n] \in CharVectors
        /\ Len(decimal[n]) \in Nat \ {0}
        /\ \A i \in 1 .. Len(decimal[n]) : decimal[n][i] \in Digits
        /\ SubSeq(decimal[n], 1, Len(decimal[n])) = decimal[n]
    BY <1>1, <2>1
  <2>3. Len(decimal[n]) \in 1 .. Len(decimal[n])
    BY <2>2
  <2>4. stoi(decimal[n])
          = {digitsValue(SubSeq(decimal[n], 1, Len(decimal[n])))}
    BY <2>2, <2>3, StoiReads
  <2> QED BY <2>1, <2>2, <2>4
<1>4. ASSUME NEW n \in Int
      PROVE  to_string(n) \in CharVectors
  <2>1. CASE n < 0
    <3>1. -n \in Nat /\ decimal[-n] \in CharVectors
      BY <1>3, <2>1
    <3>2. <<"-">> \in CharVectors
      BY DEF CharVectors, Characters
    <3>3. to_string(n) = <<"-">> \o decimal[-n]
      BY <2>1 DEF to_string
    <3> QED BY <3>1, <3>2, <3>3 DEF CharVectors
  <2>2. CASE ~(n < 0)
    BY <1>2, <1>3, <2>2
  <2> QED BY <2>1, <2>2
<1> QED BY <1>2, <1>3, <1>4

\* stoi reads something if and only if there is a digit, with a sign and
\* blanks at most before it.
HasNumber(s) ==
  \E k \in 1 .. Len(s) :
    /\ s[k] \in Digits
    /\ \/ \A i \in 1 .. k - 1 : s[i] \in Blanks
       \/ /\ k > 1 /\ s[k - 1] \in {"-", "+"}
          /\ \A i \in 1 .. k - 2 : s[i] \in Blanks

\* Where the digits begin, after blanks and a sign, if there are any.
LEMMA NumberBegins ==
  ASSUME NEW s \in CharVectors
  PROVE  LET b == RunLength(s, Blanks)
             c == IF b < Len(s) /\ s[b + 1] \in {"-", "+"} THEN b + 1 ELSE b
         IN stoi(s) # {} <=> c < Len(s) /\ s[c + 1] \in Digits
<1> DEFINE b == RunLength(s, Blanks)
           c == IF b < Len(s) /\ s[b + 1] \in {"-", "+"} THEN b + 1 ELSE b
           t == Trimmed(s)
           u == Unsigned(s)
           n == RunLength(u, Digits)
<1>1. b \in 0 .. Len(s) /\ Len(s) \in Nat
  BY RunOf, TextProperties
<1>2. /\ t \in CharVectors /\ Len(t) = Len(s) - b
      /\ \A i \in 1 .. Len(s) - b : t[i] = s[b + i]
  BY <1>1, Beginning DEF Trimmed
<1>3. u = IF Signed(s) THEN Tail(t) ELSE t
  BY DEF Unsigned
<1>4. Signed(s) <=> b < Len(s) /\ s[b + 1] \in {"-", "+"}
  <2>1. t # <<>> <=> b < Len(s)
    BY <1>1, <1>2 DEF CharVectors
  <2>2. t # <<>> => Head(t) = t[1]
    BY <1>2 DEF CharVectors
  <2>3. b < Len(s) => t[1] = s[b + 1]
    BY <1>1, <1>2
  <2> HIDE DEF t, b
  <2> QED BY <2>1, <2>2, <2>3 DEF Signed, t
<1> HIDE DEF b, t
<1>5. /\ u \in CharVectors /\ c \in 0 .. Len(s) /\ Len(u) = Len(s) - c
      /\ \A i \in 1 .. Len(s) - c : u[i] = s[c + i]
  <2>1. CASE Signed(s)
    <3>1. u = Tail(t) /\ c = b + 1
      BY <1>3, <1>4, <2>1
    <3>2. /\ Tail(t) \in CharVectors /\ Len(Tail(t)) = Len(t) - 1
          /\ \A i \in 1 .. Len(t) - 1 : Tail(t)[i] = t[i + 1]
      BY <1>1, <1>2, <1>4, <2>1 DEF CharVectors
    <3> HIDE DEF u, c
    <3>3. ASSUME NEW i \in 1 .. Len(s) - c
          PROVE  u[i] = s[c + i]
      <4>1. i + 1 \in 1 .. Len(s) - b /\ i \in 1 .. Len(t) - 1
            /\ b + (i + 1) = c + i
        BY <1>1, <1>2, <3>1
      <4> QED BY <1>2, <3>1, <3>2, <4>1
    <3> QED BY <1>1, <1>2, <1>4, <2>1, <3>1, <3>2, <3>3
  <2>2. CASE ~Signed(s)
    <3>1. u = t /\ c = b
      BY <1>3, <1>4, <2>2
    <3> QED BY <1>1, <1>2, <3>1
  <2> QED BY <2>1, <2>2
<1> HIDE DEF u, c
<1>6. /\ n \in 0 .. Len(u)
      /\ \A i \in 1 .. n : u[i] \in Digits
      /\ n < Len(u) => u[n + 1] \notin Digits
  BY <1>5, RunOf
<1> HIDE DEF n
<1>7. stoi(s) # {} <=> n # 0
  <2>1. NumberOf(s) = SubSeq(u, 1, n)
    BY DEF NumberOf, u, n
  <2>2. NumberOf(s) \in CharVectors /\ Len(NumberOf(s)) = n
    <3>1. /\ SubSeq(u, 1, n) \in CharVectors
          /\ Len(SubSeq(u, 1, n)) = n
      BY <1>5, <1>6, Beginning
    <3> QED BY <2>1, <3>1
  <2>3. NumberOf(s) = <<>> <=> n = 0
    BY <2>2 DEF CharVectors
  <2> QED BY <2>3, StoiIs
<1>8. n # 0 <=> c < Len(s) /\ s[c + 1] \in Digits
  <2>1. c < Len(s) => u[1] = s[c + 1]
    BY <1>1, <1>5
  <2>2. n # 0 => 1 \in 1 .. n /\ c < Len(s)
    BY <1>1, <1>5, <1>6
  <2>3. n = 0 /\ c < Len(s) => u[1] \notin Digits
    BY <1>1, <1>5, <1>6
  <2> QED BY <1>6, <2>1, <2>2, <2>3
<1> QED BY <1>7, <1>8 DEF b, c

\* HasNumber says when stoi does not throw.
LEMMA StoiThrows ==
  ASSUME NEW s \in CharVectors
  PROVE  stoi(s) # {} <=> HasNumber(s)
<1> DEFINE b == RunLength(s, Blanks)
           c == IF b < Len(s) /\ s[b + 1] \in {"-", "+"} THEN b + 1 ELSE b
<1>1. b \in 0 .. Len(s) /\ Len(s) \in Nat /\ \A i \in 1 .. b : s[i] \in Blanks
  BY RunOf, TextProperties
<1>2. stoi(s) # {} <=> c < Len(s) /\ s[c + 1] \in Digits
  BY NumberBegins
<1>3. \A x \in Digits \cup {"-", "+"} : x \notin Blanks
  BY DigitsAreOwn DEF Blanks
<1>4. \A x \in Digits : x \notin {"-", "+"}
  BY DigitsAreOwn
<1>5. ASSUME c < Len(s), s[c + 1] \in Digits
      PROVE  HasNumber(s)
  <2>1. PICK k \in 1 .. Len(s) : k = c + 1 /\ s[k] \in Digits
    BY <1>1, <1>5
  <2>2. CASE c = b
    <3>1. k - 1 = b
      BY <1>1, <2>1, <2>2
    <3>2. \A i \in 1 .. k - 1 : s[i] \in Blanks
      BY <1>1, <3>1
    <3> QED BY <2>1, <3>2 DEF HasNumber
  <2>3. CASE c # b
    <3>1. k - 1 = b + 1 /\ k - 2 = b /\ k > 1 /\ s[b + 1] \in {"-", "+"}
      BY <1>1, <2>1, <2>3
    <3>2. \A i \in 1 .. k - 2 : s[i] \in Blanks
      BY <1>1, <3>1
    <3>3. s[k - 1] \in {"-", "+"}
      BY <3>1
    <3> QED BY <2>1, <3>1, <3>2, <3>3 DEF HasNumber
  <2> QED BY <2>2, <2>3
<1>6. ASSUME HasNumber(s)
      PROVE  c < Len(s) /\ s[c + 1] \in Digits
  <2>1. PICK k \in 1 .. Len(s) :
          /\ s[k] \in Digits
          /\ \/ \A i \in 1 .. k - 1 : s[i] \in Blanks
             \/ /\ k > 1 /\ s[k - 1] \in {"-", "+"}
                /\ \A i \in 1 .. k - 2 : s[i] \in Blanks
    BY <1>6 DEF HasNumber
  <2>2. CASE \A i \in 1 .. k - 1 : s[i] \in Blanks
    <3>1. k - 1 \in 0 .. Len(s) /\ s[k - 1 + 1] \notin Blanks
      BY <1>1, <1>3, <2>1
    <3>2. b = k - 1
      BY <2>2, <3>1, RunIs
    <3>3. s[b + 1] \notin {"-", "+"} /\ b + 1 = k
      BY <1>4, <2>1, <3>2
    <3> QED BY <1>1, <2>1, <3>3
  <2>3. CASE /\ k > 1 /\ s[k - 1] \in {"-", "+"}
             /\ \A i \in 1 .. k - 2 : s[i] \in Blanks
    <3>1. k - 2 \in 0 .. Len(s) /\ s[k - 2 + 1] \notin Blanks
      BY <1>1, <1>3, <2>1, <2>3
    <3>2. b = k - 2
      BY <2>3, <3>1, RunIs
    <3>3. b + 1 = k - 1 /\ b < Len(s)
      BY <1>1, <2>1, <2>3, <3>2
    <3>4. c = k - 1
      BY <2>3, <3>2, <3>3
    <3> QED BY <1>1, <2>1, <3>4
  <2> QED BY <2>1, <2>2, <2>3
<1> QED BY <1>2, <1>5, <1>6

\* What has no number has none either when it is cut, and a character that is
\* no digit added.
LEMMA NoNumberInCut ==
  ASSUME NEW s \in CharVectors, NEW t \in CharVectors, stoi(t) = {},
         Len(s) <= Len(t) + 1,
         \A i \in 1 .. Len(s) : i <= Len(t) => s[i] = t[i],
         Len(s) = Len(t) + 1 => s[Len(s)] \notin Digits
  PROVE  stoi(s) = {}
<1>1. Len(s) \in Nat /\ Len(t) \in Nat
  BY TextProperties
<1> SUFFICES ASSUME HasNumber(s) PROVE HasNumber(t)
  BY StoiThrows
<1>2. PICK k \in 1 .. Len(s) :
        /\ s[k] \in Digits
        /\ \/ \A i \in 1 .. k - 1 : s[i] \in Blanks
           \/ /\ k > 1 /\ s[k - 1] \in {"-", "+"}
              /\ \A i \in 1 .. k - 2 : s[i] \in Blanks
  BY DEF HasNumber
<1>3. k \in 1 .. Len(t)
  BY <1>1, <1>2
<1>4. \A i \in 1 .. k : s[i] = t[i]
  BY <1>1, <1>2, <1>3
<1>5. t[k] \in Digits
  BY <1>2, <1>3, <1>4
<1>6. CASE \A i \in 1 .. k - 1 : s[i] \in Blanks
  <2>1. \A i \in 1 .. k - 1 : t[i] \in Blanks
    BY <1>3, <1>4, <1>6
  <2> QED BY <1>3, <1>5, <2>1 DEF HasNumber
<1>7. CASE /\ k > 1 /\ s[k - 1] \in {"-", "+"}
           /\ \A i \in 1 .. k - 2 : s[i] \in Blanks
  <2>1. \A i \in 1 .. k - 2 : t[i] \in Blanks
    BY <1>3, <1>4, <1>7
  <2>2. k > 1 /\ t[k - 1] \in {"-", "+"}
    BY <1>3, <1>4, <1>7
  <2> QED BY <1>3, <1>5, <2>1, <2>2 DEF HasNumber
<1> QED BY <1>2, <1>6, <1>7
=============================================================================
