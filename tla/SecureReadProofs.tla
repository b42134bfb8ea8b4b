-------------------------- MODULE SecureReadProofs --------------------------
(***************************************************************************)
(* The six system calls of readSecureEpochState implement AtomicRead, for  *)
(* any number of inodes, any texts and any schedule of the changes; what   *)
(* passes the fence is the one text of its state, and Core's text passes.  *)
(***************************************************************************)
EXTENDS SecureRead, LoopInduction, TLAPS

Literals == STRING \cup ToSet(Keys) \cup {"}"}

Segments == [key : Literals, string : Seq(Forms \X Chars)]

Content == [regular : BOOLEAN, private : BOOLEAN, bytes : Seq(Segments)]

Reader == [at : {"lstat", "open", "fstat", "read", "relist"},
           ino : Inodes \cup {0}, size : Nat, fd : Inodes \cup {0},
           bytes : Seq(Segments)]

ReadTypeOK ==
  /\ path \in Inodes \cup {0}
  /\ files \in [Inodes -> Content]
  /\ reader \in Reader

\* What has been read so far is a prefix of the file, as far as the file
\* still goes.
Agrees(bytes, file) ==
  \A i \in 1..Len(bytes) : i <= Len(file) => bytes[i] = file[i]

\* An open file is regular and stays so; from fstat on it is no longer than
\* the size first seen, and what was read of it is what it holds.
ReaderInv ==
  /\ reader.at = "lstat" => reader.fd = 0 /\ reader.bytes = << >>
  /\ reader.at = "open" => reader.fd = 0 /\ reader.bytes = << >>
  /\ reader.at # "lstat" => reader.size \in 1..MaxBytes
  /\ reader.at \in {"fstat", "read", "relist"} =>
       reader.fd \in Inodes /\ files[reader.fd].regular
  /\ reader.at = "fstat" => reader.bytes = << >>
  /\ reader.at \in {"read", "relist"} =>
       /\ Size(reader.fd) <= reader.size
       /\ Len(reader.bytes) <= reader.size
       /\ Agrees(reader.bytes, files[reader.fd].bytes)
  /\ reader.at = "relist" => Len(reader.bytes) = reader.size

-----------------------------------------------------------------------------
(* Decimal numbers *)

DigitChars == ToSet(Digits)

LEMMA DigitsFacts ==
  /\ DOMAIN Digits = 1..10
  /\ \A i \in 1..10 : Digits[i] \in DigitChars
  /\ \A i, j \in 1..10 : Digits[i] = Digits[j] => i = j
  /\ Digits[1] = "0"
<1>1. DOMAIN Digits = 1..10 /\ Digits[1] = "0"
  BY DEF Digits
<1>2. \A i \in 1..10 : \/ i = 1 \/ i = 2 \/ i = 3 \/ i = 4 \/ i = 5
                       \/ i = 6 \/ i = 7 \/ i = 8 \/ i = 9 \/ i = 10
  OBVIOUS
<1>3. \A i, j \in 1..10 : Digits[i] = Digits[j] => i = j
  BY <1>2 DEF Digits
<1> QED
  BY <1>1, <1>3 DEF DigitChars, ToSet

LEMMA DigitFacts ==
  ASSUME NEW c \in DigitChars
  PROVE  /\ Digit(c) \in 0..9 /\ Digits[Digit(c) + 1] = c
         /\ c # "0" => Digit(c) # 0
<1>1. \E d \in 0..9 : Digits[d + 1] = c
  <2>1. PICK i \in 1..10 : c = Digits[i]
    BY DigitsFacts DEF DigitChars, ToSet
  <2>2. i - 1 \in 0..9 /\ (i - 1) + 1 = i
    OBVIOUS
  <2> QED
    BY <2>1, <2>2
<1>2. Digit(c) \in 0..9 /\ Digits[Digit(c) + 1] = c
  BY <1>1 DEF Digit
<1> QED
  BY <1>2, DigitsFacts

LEMMA DigitOfNumber ==
  ASSUME NEW d \in 0..9
  PROVE  Digits[d + 1] \in DigitChars /\ Digit(Digits[d + 1]) = d
<1>1. d + 1 \in 1..10
  OBVIOUS
<1>2. Digits[d + 1] \in DigitChars
  BY <1>1, DigitsFacts
<1> DEFINE e == Digit(Digits[d + 1])
<1>3. e \in 0..9 /\ Digits[e + 1] = Digits[d + 1]
  BY <1>2, DigitFacts
<1> HIDE DEF e
<1>4. e + 1 \in 1..10
  BY <1>3
<1>5. e + 1 = d + 1
  BY <1>1, <1>3, <1>4, DigitsFacts
<1> QED
  BY <1>2, <1>3, <1>5 DEF e

IsAccumulated(g, text, k) ==
  g = [n \in 0..k |-> IF n = 0 THEN 0 ELSE 10 * g[n - 1] + Digit(text[n])]

\* stoull reads a text digit by digit.
LEMMA AccumulatedSteps ==
  ASSUME NEW text \in Seq(DigitChars)
  PROVE  /\ Accumulated(text) \in [0..Len(text) -> Nat]
         /\ Accumulated(text)[0] = 0
         /\ \A n \in 1..Len(text) :
              Accumulated(text)[n] = 10 * Accumulated(text)[n - 1] + Digit(text[n])
<1> DEFINE N == Len(text)
           value == Accumulated(text)
           f == [n \in 1..N |-> [x \in Nat |-> 10 * x + Digit(text[n])]]
<1>0. N \in Nat /\ \A n \in 1..N : Digit(text[n]) \in Nat
  <2>1. \A n \in 1..N : text[n] \in DigitChars
    OBVIOUS
  <2> QED
    BY <2>1, DigitFacts
<1>1. \A n \in 1..N, x \in Nat : f[n][x] = 10 * x + Digit(text[n]) /\ f[n][x] \in Nat
  BY <1>0
<1>2. value = CHOOSE g : IsAccumulated(g, text, N)
  BY DEF Accumulated, IsAccumulated
<1> HIDE DEF N, f, value
<1>3. PICK g : Iterates(g, f, 0, N, Nat)
  <2>1. IsLoop(f, N, Nat)
    BY <1>1 DEF IsLoop
  <2> QED
    BY <1>0, <2>1, Iteration
<1>4. /\ g \in [0..N -> Nat] /\ g[0] = 0
      /\ \A n \in 1..N : g[n] = f[n][g[n - 1]]
  BY <1>3 DEF Iterates
<1>5. \A n \in 0..N : g[n] = IF n = 0 THEN 0 ELSE 10 * g[n - 1] + Digit(text[n])
  <2> SUFFICES ASSUME NEW n \in 1..N PROVE g[n] = 10 * g[n - 1] + Digit(text[n])
    BY <1>0, <1>4
  <2>1. n - 1 \in 0..N
    BY <1>0
  <2> QED
    BY <1>1, <1>4, <2>1
<1>6. IsAccumulated(value, text, N)
  <2>1. IsAccumulated(g, text, N)
    BY <1>4, <1>5 DEF IsAccumulated
  <2> QED
    BY <1>2, <2>1
<1>7. \A n \in 0..N : value[n] = IF n = 0 THEN 0 ELSE 10 * value[n - 1] + Digit(text[n])
  BY <1>6 DEF IsAccumulated
<1>8. value[0] = 0 /\ \A n \in 1..N : value[n] = 10 * value[n - 1] + Digit(text[n])
  BY <1>0, <1>7
<1>9. \A n \in 0..N : value[n] \in Nat
  <2> DEFINE T == {n \in 0..N : value[n] \in Nat}
  <2>1. 0 \in T
    BY <1>0, <1>8
  <2>2. ASSUME NEW n \in 0..N - 1, n \in T
        PROVE  n + 1 \in T
    <3>1. n + 1 \in 1..N /\ (n + 1) - 1 = n /\ n + 1 \in 0..N
      BY <1>0
    <3>2. value[n + 1] = 10 * value[n] + Digit(text[n + 1])
      BY <1>8, <3>1
    <3> QED
      BY <1>0, <2>2, <3>1, <3>2
  <2> HIDE DEF T
  <2>3. \A n \in 0..N : n \in T
    BY <1>0, <2>1, <2>2, RoundInduction
  <2> QED
    BY <2>3 DEF T
<1>10. value = [n \in 0..N |-> value[n]]
  BY <1>6 DEF IsAccumulated
<1> QED
  BY <1>8, <1>9, <1>10 DEF value, N

LEMMA DecimalOfNothing == Accumulated(<< >>)[0] = 0
<1>1. << >> \in Seq(DigitChars)
  OBVIOUS
<1> QED
  BY <1>1, AccumulatedSteps

\* One more digit.
LEMMA DecimalAppend ==
  ASSUME NEW text \in Seq(DigitChars), NEW c \in DigitChars
  PROVE  /\ Decimal(text) \in Nat
         /\ Decimal(Append(text, c)) = 10 * Decimal(text) + Digit(c)
<1> DEFINE N == Len(text)
           long == Append(text, c)
           v == Accumulated(text)
           w == Accumulated(long)
           T == {n \in 0..N : w[n] = v[n]}
<1>1. /\ N \in Nat /\ long \in Seq(DigitChars) /\ Len(long) = N + 1 /\ long[N + 1] = c
      /\ \A n \in 1..N : long[n] = text[n]
  OBVIOUS
<1>2. /\ v \in [0..N -> Nat] /\ v[0] = 0
      /\ \A n \in 1..N : v[n] = 10 * v[n - 1] + Digit(text[n])
  BY AccumulatedSteps
<1>3. /\ w[0] = 0
      /\ \A n \in 1..N + 1 : w[n] = 10 * w[n - 1] + Digit(long[n])
  <2> HIDE DEF long
  <2> QED
    BY <1>1, AccumulatedSteps
<1>4. Decimal(text) = v[N] /\ Decimal(long) = w[N + 1]
  BY <1>1 DEF Decimal
<1> HIDE DEF N, long, v, w
<1>5. 0 \in T
  BY <1>1, <1>2, <1>3
<1>6. ASSUME NEW n \in 0..N - 1, n \in T
      PROVE  n + 1 \in T
  <2>1. n + 1 \in 1..N /\ n + 1 \in 1..N + 1 /\ (n + 1) - 1 = n /\ n + 1 \in 0..N
    BY <1>1
  <2>2. /\ v[n + 1] = 10 * v[n] + Digit(text[n + 1])
        /\ w[n + 1] = 10 * w[n] + Digit(long[n + 1])
        /\ long[n + 1] = text[n + 1]
    BY <1>1, <1>2, <1>3, <2>1
  <2> QED
    BY <1>6, <2>1, <2>2
<1> HIDE DEF T
<1>7. \A n \in 0..N : n \in T
  BY <1>1, <1>5, <1>6, RoundInduction
<1>8. w[N] = v[N] /\ v[N] \in Nat
  <2>1. N \in 0..N
    BY <1>1
  <2> QED
    BY <1>2, <1>7, <2>1 DEF T
<1>9. w[N + 1] = 10 * w[N] + Digit(c)
  <2>1. N + 1 \in 1..N + 1 /\ (N + 1) - 1 = N
    BY <1>1
  <2> QED
    BY <1>1, <1>3, <2>1
<1> QED
  BY <1>4, <1>8, <1>9 DEF long

NumeralRule(g, n) ==
  IF n < 10 THEN <<Digits[n + 1]>>
  ELSE Append(g[n \div 10], Digits[(n % 10) + 1])

IsNumeral(g, k) == g = [n \in 0..k |-> NumeralRule(g, n)]

LEMMA Tenths ==
  ASSUME NEW n \in Nat
  PROVE  /\ n \div 10 \in Nat /\ n % 10 \in 0..9
         /\ 10 * (n \div 10) + (n % 10) = n
         /\ n >= 10 => n \div 10 < n /\ n \div 10 > 0
<1>1. n \div 10 \in Int /\ n % 10 \in 0..9 /\ 10 * (n \div 10) + (n % 10) = n
  OBVIOUS
<1> DEFINE q == n \div 10
           d == n % 10
<1>2. q \in Int /\ d \in 0..9 /\ 10 * q + d = n
  BY <1>1, Zenon
<1> HIDE DEF q, d
<1>3. q \in Nat /\ (n >= 10 => q < n /\ q > 0)
  BY <1>2
<1>4. n \div 10 \in Nat /\ (n >= 10 => n \div 10 < n /\ n \div 10 > 0)
  BY <1>3 DEF q
<1> QED
  BY <1>1, <1>4, Zenon

LEMMA NumeralsExist == \A k \in Nat : \E g : IsNumeral(g, k)
<1> DEFINE T == {k \in Nat : \E g : IsNumeral(g, k)}
<1>1. 0 \in T
  <2> DEFINE g == [n \in 0..0 |-> <<Digits[1]>>]
  <2>1. \A n \in 0..0 : n = 0
    OBVIOUS
  <2>2. IsNumeral(g, 0)
    BY <2>1 DEF IsNumeral, NumeralRule
  <2> QED
    BY <2>2
<1>2. ASSUME NEW k \in Nat, k \in T
      PROVE  k + 1 \in T
  <2> PICK g : IsNumeral(g, k)
    BY <1>2
  <2> DEFINE h == [n \in 0..k + 1 |-> IF n = k + 1 THEN NumeralRule(g, k + 1) ELSE g[n]]
  <2>1. \A n \in 0..k : g[n] = NumeralRule(g, n)
    BY DEF IsNumeral
  <2>2. /\ \A n \in 0..k : h[n] = g[n]
        /\ h[k + 1] = NumeralRule(g, k + 1)
        /\ h = [n \in 0..k + 1 |-> h[n]]
    OBVIOUS
  <2> HIDE DEF h
  <2>3. ASSUME NEW n \in 0..k + 1
        PROVE  NumeralRule(h, n) = NumeralRule(g, n)
    <3>1. n >= 10 => n \div 10 \in 0..k
      BY Tenths
    <3>2. n >= 10 => h[n \div 10] = g[n \div 10]
      BY <2>2, <3>1
    <3> QED
      BY <3>2 DEF NumeralRule
  <2>4. \A n \in 0..k + 1 : h[n] = NumeralRule(h, n)
    <3> SUFFICES ASSUME NEW n \in 0..k + 1 PROVE h[n] = NumeralRule(g, n)
      BY <2>3
    <3>1. n \in 0..k \/ n = k + 1
      OBVIOUS
    <3> QED
      BY <2>1, <2>2, <3>1
  <2>5. IsNumeral(h, k + 1)
    BY <2>2, <2>4 DEF IsNumeral
  <2> QED
    BY <2>5
<1> HIDE DEF T
<1>3. \A k \in Nat : k \in T
  BY <1>1, <1>2, SetInduction
<1> QED
  BY <1>3 DEF T

LEMMA NumeralsAgree ==
  ASSUME NEW k \in Nat, NEW l \in Nat, NEW g, NEW h, IsNumeral(g, k), IsNumeral(h, l),
         NEW m \in Nat, m <= k, m <= l
  PROVE  g[m] = h[m]
<1> DEFINE T == {n \in Nat : n <= k /\ n <= l => g[n] = h[n]}
<1>1. /\ \A n \in 0..k : g[n] = NumeralRule(g, n)
      /\ \A n \in 0..l : h[n] = NumeralRule(h, n)
  BY DEF IsNumeral
<1>2. ASSUME NEW n \in Nat, \A j \in 0..n - 1 : j \in T
      PROVE  n \in T
  <2> SUFFICES ASSUME n <= k, n <= l PROVE g[n] = h[n]
    OBVIOUS
  <2>1. n \in 0..k /\ n \in 0..l
    OBVIOUS
  <2>2. g[n] = NumeralRule(g, n) /\ h[n] = NumeralRule(h, n)
    BY <1>1, <2>1
  <2>3. n >= 10 => n \div 10 \in 0..n - 1 /\ n \div 10 <= k /\ n \div 10 <= l
    BY Tenths
  <2>4. n >= 10 => g[n \div 10] = h[n \div 10]
    BY <1>2, <2>3
  <2> QED
    BY <2>2, <2>4 DEF NumeralRule
<1> HIDE DEF T
<1>3. \A n \in Nat : n \in T
  BY <1>2, StrongInduction
<1> QED
  BY <1>3 DEF T

LEMMA NumeralSteps == \A n \in Nat : Numeral[n] = NumeralRule(Numeral, n)
<1> DEFINE Upto(k) == CHOOSE g : IsNumeral(g, k)
           F == [n \in Nat |-> Upto(n)[n]]
<1>1. \A k \in Nat : IsNumeral(Upto(k), k)
  BY NumeralsExist
<1> HIDE DEF Upto
<1>2. ASSUME NEW n \in Nat
      PROVE  F[n] = NumeralRule(F, n)
  <2>1. F[n] = Upto(n)[n]
    OBVIOUS
  <2>2. Upto(n)[n] = NumeralRule(Upto(n), n)
    <3>1. IsNumeral(Upto(n), n) /\ n \in 0..n
      BY <1>1
    <3> QED
      BY <3>1 DEF IsNumeral
  <2>3. n >= 10 => F[n \div 10] = Upto(n)[n \div 10]
    <3> SUFFICES ASSUME n >= 10 PROVE F[n \div 10] = Upto(n)[n \div 10]
      OBVIOUS
    <3> DEFINE q == n \div 10
    <3>1. q \in Nat /\ q <= n /\ q <= q
      BY Tenths
    <3> HIDE DEF q
    <3>2. F[q] = Upto(q)[q]
      BY <3>1
    <3>3. Upto(q)[q] = Upto(n)[q]
      BY <1>1, <3>1, NumeralsAgree
    <3> QED
      BY <3>2, <3>3 DEF q
  <2> HIDE DEF F
  <2> QED
    BY <2>1, <2>2, <2>3 DEF NumeralRule
<1>3. F = [n \in Nat |-> F[n]]
  OBVIOUS
<1> HIDE DEF F
<1>4. F = [n \in Nat |-> NumeralRule(F, n)]
  BY <1>2, <1>3
<1>5. Numeral = CHOOSE g : g = [n \in Nat |-> NumeralRule(g, n)]
  BY DEF Numeral, NumeralRule
<1>6. Numeral = [n \in Nat |-> NumeralRule(Numeral, n)]
  BY <1>4, <1>5
<1> QED
  BY <1>6

\* A number's numeral is canonical and reads back as the number.
LEMMA NumeralFacts ==
  ASSUME NEW number \in Nat
  PROVE  LET text == Numeral[number]
         IN  /\ text \in Seq(DigitChars) /\ text # << >>
             /\ number > 0 => Head(text) # "0"
             /\ Decimal(text) = number
<1> DEFINE Good(n) == /\ Numeral[n] \in Seq(DigitChars) /\ Numeral[n] # << >>
                      /\ n > 0 => Head(Numeral[n]) # "0"
                      /\ Decimal(Numeral[n]) = n
           T == {n \in Nat : Good(n)}
<1>1. ASSUME NEW n \in Nat, \A j \in 0..n - 1 : j \in T
      PROVE  n \in T
  <2>1. CASE n < 10
    <3> DEFINE c == Digits[n + 1]
    <3>1. Numeral[n] = <<c>>
      BY <2>1, NumeralSteps DEF NumeralRule
    <3>2. c \in DigitChars /\ Digit(c) = n
      BY <2>1, DigitOfNumber
    <3>3. n > 0 => c # "0"
      <4>1. n + 1 \in 1..10 /\ 1 \in 1..10
        BY <2>1
      <4> QED
        BY <4>1, DigitsFacts
    <3> HIDE DEF c
    <3>4. Decimal(<<c>>) = n
      <4>1. << >> \in Seq(DigitChars) /\ <<c>> = Append(<< >>, c) /\ Len(<< >>) = 0
        OBVIOUS
      <4>2. Decimal(<<c>>) = 10 * Decimal(<< >>) + Digit(c)
        BY <3>2, <4>1, DecimalAppend
      <4>3. Decimal(<< >>) = 0
        BY <4>1, DecimalOfNothing DEF Decimal
      <4> QED
        BY <3>2, <4>2, <4>3
    <3>5. <<c>> \in Seq(DigitChars) /\ <<c>> # << >> /\ Head(<<c>>) = c
      BY <3>2
    <3> QED
      BY <3>1, <3>3, <3>4, <3>5
  <2>2. CASE n >= 10
    <3> DEFINE q == n \div 10
               d == n % 10
               c == Digits[d + 1]
    <3>1. /\ q \in 0..n - 1 /\ q > 0 /\ d \in 0..9 /\ n = 10 * q + d /\ q \in Nat
          /\ ~(n < 10)
      BY <2>2, Tenths
    <3>2. Numeral[n] = Append(Numeral[q], c)
      BY <3>1, NumeralSteps DEF NumeralRule
    <3> HIDE DEF q, d
    <3>3. c \in DigitChars /\ Digit(c) = d
      BY <3>1, DigitOfNumber
    <3>4. Good(q)
      BY <1>1, <3>1
    <3> HIDE DEF c
    <3>5. Decimal(Append(Numeral[q], c)) = n
      BY <3>1, <3>3, <3>4, DecimalAppend
    <3>6. /\ Append(Numeral[q], c) \in Seq(DigitChars)
          /\ Append(Numeral[q], c) # << >>
          /\ Head(Append(Numeral[q], c)) = Head(Numeral[q])
      BY <3>3, <3>4
    <3> QED
      BY <3>1, <3>2, <3>4, <3>5, <3>6
  <2> QED
    BY <2>1, <2>2
<1> HIDE DEF T
<1>2. \A n \in Nat : n \in T
  BY <1>1, StrongInduction
<1> QED
  BY <1>2 DEF T

\* A canonical text is the numeral of the number it reads as.
LEMMA CanonicalNumeral ==
  ASSUME NEW text \in Seq(DigitChars), text # << >>, Head(text) # "0"
  PROVE  Decimal(text) \in Nat /\ Numeral[Decimal(text)] = text
<1> DEFINE N == Len(text)
           v == Accumulated(text)
           T == {k \in 0..N : k >= 1 => v[k] > 0 /\ Numeral[v[k]] = SubSeq(text, 1, k)}
<1>1. /\ N \in Nat /\ N >= 1 /\ text[1] # "0" /\ SubSeq(text, 1, N) = text
      /\ \A n \in 1..N : text[n] \in DigitChars
  OBVIOUS
<1>2. /\ v \in [0..N -> Nat] /\ v[0] = 0
      /\ \A n \in 1..N : v[n] = 10 * v[n - 1] + Digit(text[n])
  BY AccumulatedSteps
<1>3. Decimal(text) = v[N]
  BY DEF Decimal
<1>4. /\ SubSeq(text, 1, 1) = <<text[1]>>
      /\ \A k \in 1..N - 1 : SubSeq(text, 1, k + 1) = Append(SubSeq(text, 1, k), text[k + 1])
  <2>1. SubSeq(text, 1, 1) = <<text[1]>>
    <3> DEFINE a == SubSeq(text, 1, 1)
    <3>1. a \in Seq(DigitChars) /\ Len(a) = 1 /\ a[1] = text[1]
      BY <1>1
    <3> HIDE DEF a
    <3>2. a = <<text[1]>>
      BY <3>1
    <3> QED
      BY <3>2 DEF a
  <2>2. ASSUME NEW k \in 1..N - 1
        PROVE  SubSeq(text, 1, k + 1) = Append(SubSeq(text, 1, k), text[k + 1])
    <3> DEFINE a == SubSeq(text, 1, k + 1)
               b == SubSeq(text, 1, k)
               e == Append(b, text[k + 1])
    <3>1. k \in Nat /\ k + 1 <= N
      BY <1>1
    <3>2. a \in Seq(DigitChars) /\ Len(a) = k + 1 /\ \A i \in 1..k + 1 : a[i] = text[i]
      BY <1>1, <3>1
    <3>3. b \in Seq(DigitChars) /\ Len(b) = k /\ \A i \in 1..k : b[i] = text[i]
      BY <1>1, <3>1
    <3>4. text[k + 1] \in DigitChars
      BY <1>1, <3>1
    <3> HIDE DEF a, b
    <3>5. /\ e \in Seq(DigitChars) /\ Len(e) = k + 1
          /\ \A i \in 1..k : e[i] = b[i] /\ e[k + 1] = text[k + 1]
      BY <3>1, <3>3, <3>4
    <3> HIDE DEF e
    <3>6. \A i \in 1..k + 1 : i \in 1..k \/ i = k + 1
      BY <3>1
    <3>7. \A i \in 1..k + 1 : a[i] = e[i]
      BY <3>2, <3>3, <3>5, <3>6
    <3>8. a = [i \in 1..k + 1 |-> a[i]] /\ e = [i \in 1..k + 1 |-> e[i]]
      BY <3>2, <3>5
    <3>9. a = e
      BY <3>7, <3>8
    <3> QED
      BY <3>9 DEF a, b, e
  <2> QED
    BY <2>1, <2>2
<1> HIDE DEF N, v
<1>5. 0 \in T
  BY <1>1
<1>6. ASSUME NEW k \in 0..N - 1, k \in T
      PROVE  k + 1 \in T
  <2> DEFINE c == text[k + 1]
             d == Digit(c)
  <2>1. k + 1 \in 1..N /\ k + 1 \in 0..N /\ (k + 1) - 1 = k /\ k \in 0..N /\ k \in Nat
    BY <1>1
  <2>2. c \in DigitChars /\ d \in 0..9 /\ Digits[d + 1] = c /\ (c # "0" => d # 0)
    BY <1>1, <2>1, DigitFacts
  <2>3. v[k + 1] = 10 * v[k] + d /\ v[k] \in Nat /\ v[k + 1] \in Nat
    BY <1>2, <2>1
  <2>4. CASE k = 0
    <3>1. v[k + 1] = d /\ d > 0
      BY <1>1, <1>2, <2>2, <2>3, <2>4
    <3>2. Numeral[d] = <<Digits[d + 1]>>
      <4> HIDE DEF d
      <4>1. d \in Nat /\ d < 10
        BY <2>2
      <4> QED
        BY <4>1, NumeralSteps DEF NumeralRule
    <3>3. Numeral[v[k + 1]] = SubSeq(text, 1, k + 1)
      <4>1. k + 1 = 1 /\ c = text[1]
        BY <2>4
      <4>2. Numeral[v[k + 1]] = <<c>>
        BY <2>2, <3>1, <3>2, Zenon
      <4> QED
        BY <1>4, <4>1, <4>2, Zenon
    <3> QED
      BY <2>1, <3>1, <3>3
  <2>5. CASE k >= 1
    <3>1. v[k] > 0 /\ Numeral[v[k]] = SubSeq(text, 1, k)
      BY <1>6, <2>5
    <3> DEFINE p == v[k]
               n == v[k + 1]
    <3> HIDE DEF d
    <3>2. p \in Nat /\ p > 0 /\ n = 10 * p + d /\ n \in Nat
      BY <2>3, <3>1
    <3> HIDE DEF p, n
    <3>3. n \div 10 = p /\ n % 10 = d /\ ~(n < 10) /\ n > 0
      BY <2>2, <3>2
    <3>4. Numeral[n] = Append(Numeral[p], Digits[d + 1])
      BY <3>2, <3>3, NumeralSteps DEF NumeralRule
    <3>5. k \in 1..N - 1
      BY <1>1, <2>5
    <3>6. Numeral[n] = SubSeq(text, 1, k + 1)
      BY <1>4, <2>2, <3>1, <3>4, <3>5 DEF p
    <3> QED
      BY <2>1, <3>3, <3>6 DEF n
  <2> QED
    BY <2>1, <2>4, <2>5
<1> HIDE DEF T
<1>7. \A k \in 0..N : k \in T
  BY <1>1, <1>5, <1>6, RoundInduction
<1>8. Numeral[v[N]] = SubSeq(text, 1, N) /\ v[N] \in Nat
  <2>1. N \in 0..N
    BY <1>1
  <2> QED
    BY <1>1, <1>2, <1>7, <2>1 DEF T
<1> QED
  BY <1>1, <1>3, <1>8

-----------------------------------------------------------------------------
(* Sequences *)

\* A short read extends what was read to the first n characters.
LEMMA ChunkFacts ==
  ASSUME NEW S, NEW bytes \in Seq(S), NEW file \in Seq(S), NEW n \in Nat,
         Len(bytes) < n, n <= Len(file), Agrees(bytes, file)
  PROVE  LET chunk == bytes \o SubSeq(file, Len(bytes) + 1, n)
         IN  chunk \in Seq(S) /\ Len(chunk) = n /\ Agrees(chunk, file)
<1> DEFINE k == Len(bytes)
           rest == SubSeq(file, k + 1, n)
           chunk == bytes \o rest
<1>1. k \in Nat
  OBVIOUS
<1>2. rest \in Seq(S) /\ Len(rest) = n - k
  BY <1>1
<1>3. \A i \in 1..(n - k) : rest[i] = file[k + i]
  BY <1>1
<1>4. chunk \in Seq(S) /\ Len(chunk) = n
  <2> HIDE DEF rest
  <2> QED
    BY <1>1, <1>2
<1>5. ASSUME NEW i \in 1..n PROVE chunk[i] = file[i]
  <2>1. CASE i <= k
    <3> HIDE DEF rest
    <3>1. chunk[i] = bytes[i]
      BY <1>1, <1>2, <2>1
    <3> QED
      BY <1>1, <2>1, <3>1 DEF Agrees
  <2>2. CASE i > k
    <3>1. rest[i - k] = file[i]
      BY <1>1, <1>3, <2>2
    <3> HIDE DEF rest
    <3>2. chunk[i] = rest[i - k]
      BY <1>1, <1>2, <2>2
    <3> QED
      BY <3>1, <3>2
  <2> QED
    BY <1>1, <2>1, <2>2
<1> HIDE DEF chunk
<1>6. Agrees(chunk, file)
  BY <1>4, <1>5 DEF Agrees
<1> QED
  BY <1>4, <1>6 DEF chunk

\* A truncated file still agrees with what was read of it.
LEMMA TruncateFacts ==
  ASSUME NEW S, NEW bytes \in Seq(S), NEW file \in Seq(S), NEW n \in Nat,
         n < Len(file), Agrees(bytes, file)
  PROVE  LET short == SubSeq(file, 1, n)
         IN  short \in Seq(S) /\ Len(short) = n /\ Agrees(bytes, short)
<1> DEFINE short == SubSeq(file, 1, n)
<1>1. short \in Seq(S) /\ Len(short) = n /\ \A i \in 1..n : short[i] = file[i]
  OBVIOUS
<1> HIDE DEF short
<1>2. Agrees(bytes, short)
  BY <1>1 DEF Agrees
<1> QED
  BY <1>1, <1>2 DEF short

\* What was read of a file that still has the length read is the file.
LEMMA WholeFacts ==
  ASSUME NEW S, NEW bytes \in Seq(S), NEW file \in Seq(S),
         Len(bytes) = Len(file), Agrees(bytes, file)
  PROVE  bytes = file
BY DEF Agrees

-----------------------------------------------------------------------------
(* The text of an epoch state *)

LEMMA KeyFacts ==
  /\ Len(Keys) = 7 /\ DOMAIN Keys = 1..7
  /\ \A i, j \in 1..7 : Keys[i] = Keys[j] => i = j
  /\ \A i \in 1..7 : Keys[i] \in ToSet(Keys)
  /\ \A k \in ToSet(Keys) : \E i \in 1..7 : k = Keys[i]
  /\ Keys[1] = "epochId" /\ Keys[2] = "jobId" /\ Keys[3] = "policySha256"
  /\ Keys[4] = "schema" /\ Keys[5] = "sessionContractSha256"
  /\ Keys[6] = "sessionId" /\ Keys[7] = "targetId"
<1>1. Len(Keys) = 7 /\ DOMAIN Keys = 1..7
  BY DEF Keys
<1>2. /\ Keys[1] = "epochId" /\ Keys[2] = "jobId" /\ Keys[3] = "policySha256"
      /\ Keys[4] = "schema" /\ Keys[5] = "sessionContractSha256"
      /\ Keys[6] = "sessionId" /\ Keys[7] = "targetId"
  BY DEF Keys
<1>3. \A i \in 1..7 : \/ i = 1 \/ i = 2 \/ i = 3 \/ i = 4 \/ i = 5 \/ i = 6 \/ i = 7
  OBVIOUS
<1>4. \A i, j \in 1..7 : Keys[i] = Keys[j] => i = j
  BY <1>2, <1>3
<1>5. /\ \A i \in 1..7 : Keys[i] \in ToSet(Keys)
      /\ \A k \in ToSet(Keys) : \E i \in 1..7 : k = Keys[i]
  BY <1>1 DEF ToSet
<1> QED
  BY <1>1, <1>2, <1>4, <1>5

\* The field a key names is what its own segment decodes to.
LEMMA FieldFacts ==
  ASSUME NEW bytes
  PROVE  /\ DOMAIN Fields(bytes) = ToSet(Keys)
         /\ \A i \in 1..7 : Fields(bytes)[Keys[i]] = Decoded(bytes[i].string)
<1>1. ASSUME NEW i \in 1..7
      PROVE  Fields(bytes)[Keys[i]] = Decoded(bytes[i].string)
  <2> DEFINE j == CHOOSE j \in DOMAIN Keys : Keys[j] = Keys[i]
  <2>1. j \in DOMAIN Keys /\ Keys[j] = Keys[i]
    BY KeyFacts
  <2>2. j = i
    <3> HIDE DEF j
    <3> QED
      BY <2>1, KeyFacts
  <2>3. Fields(bytes)[Keys[i]] = Decoded(bytes[j].string)
    BY KeyFacts, Zenon DEF Fields
  <2> HIDE DEF j
  <2> QED
    BY <2>2, <2>3
<1> QED
  BY <1>1 DEF Fields

\* What stringValue decodes is written in its only form.
Readable == Chars \ {"invalid", "open"}

LEMMA DigitsAreReadable == DigitChars \subseteq Readable /\ LowerHex \subseteq Readable
<1>1. \A i \in 1..10 : \/ i = 1 \/ i = 2 \/ i = 3 \/ i = 4 \/ i = 5
                       \/ i = 6 \/ i = 7 \/ i = 8 \/ i = 9 \/ i = 10
  OBVIOUS
<1>2. \A i \in 1..10 : Digits[i] \notin {"invalid", "open"}
  BY <1>1 DEF Digits
<1>3. DigitChars = {Digits[i] : i \in 1..10}
  BY DigitsFacts DEF DigitChars, ToSet
<1> QED
  BY <1>2, <1>3 DEF Readable, Chars, LowerHex

LEMMA LegibleFacts ==
  ASSUME NEW c \in Chars
  PROVE  /\ \A f \in Forms : Legible(<<f, c>>) => f = CanonicalForm(c)
         /\ c \in Readable => CanonicalForm(c) \in Forms /\ Legible(<<CanonicalForm(c), c>>)
<1>1. \A i \in 1..10 : \/ i = 1 \/ i = 2 \/ i = 3 \/ i = 4 \/ i = 5
                       \/ i = 6 \/ i = 7 \/ i = 8 \/ i = 9 \/ i = 10
  OBVIOUS
<1>2. c \in LowerHex => c \notin {"invalid", "open", "wide", "separator", "quote",
                                 "backslash", "html", "newline", "vtab", "control", "nul"}
  BY <1>1 DEF LowerHex, Digits
<1>3. \A f : Legible(<<f, c>>) <=>
        \/ /\ f = "raw" /\ Utf8Length(c) > 0
           /\ c \notin Controls \cup {"html", "separator", "backslash", "quote"}
        \/ f # "raw" /\ ParseEscape(f, c)
  BY DEF Legible
<1>4. CASE c \in {"quote", "backslash", "newline"}
  BY <1>3, <1>4 DEF ParseEscape, CanonicalForm, Controls, Forms, Utf8Length
<1>5. CASE c \in {"html", "separator", "vtab", "control", "nul"}
  BY <1>3, <1>5 DEF ParseEscape, CanonicalForm, Controls, Forms, Utf8Length
<1>6. CASE c \in LowerHex \cup {"plain", "wide", "space"}
  BY <1>2, <1>3, <1>6 DEF ParseEscape, CanonicalForm, Controls, Forms, Utf8Length
<1>7. CASE c \in {"invalid", "open"}
  BY <1>3, <1>7 DEF ParseEscape, CanonicalForm, Controls, Forms, Utf8Length, Readable
<1> QED
  BY <1>4, <1>5, <1>6, <1>7 DEF Chars

\* Spelling what was decoded gives the string back.
LEMMA SpelledDecoded ==
  ASSUME NEW string \in Seq(Forms \X Chars),
         \A n \in DOMAIN string : Legible(string[n])
  PROVE  Spelled(Decoded(string)) = string /\ Decoded(string) \in Seq(Chars)
<1>1. DOMAIN string = 1..Len(string) /\ Len(string) \in Nat
  OBVIOUS
<1>2. \A n \in DOMAIN string : /\ string[n] \in Forms \X Chars
                               /\ string[n] = <<string[n][1], string[n][2]>>
                               /\ string[n][1] \in Forms /\ string[n][2] \in Chars
  OBVIOUS
<1>3. ASSUME NEW n \in DOMAIN string
      PROVE  string[n] = <<CanonicalForm(string[n][2]), string[n][2]>>
  <2> DEFINE f == string[n][1]
             c == string[n][2]
  <2>1. string[n] = <<f, c>> /\ f \in Forms /\ c \in Chars /\ Legible(string[n])
    BY <1>2
  <2> HIDE DEF f, c
  <2>2. f = CanonicalForm(c)
    <3>1. Legible(<<f, c>>)
      BY <2>1, Zenon
    <3> QED
      BY <2>1, <3>1, LegibleFacts
  <2>3. string[n] = <<CanonicalForm(c), c>>
    BY <2>1, <2>2, Zenon
  <2> QED
    BY <2>3 DEF c
<1>4. Spelled(Decoded(string)) = [n \in DOMAIN string |-> string[n]]
  BY <1>3 DEF Spelled, Decoded
<1>5. string = [n \in DOMAIN string |-> string[n]]
  BY <1>1
<1>6. Decoded(string) \in Seq(Chars)
  BY <1>1, <1>2 DEF Decoded
<1> QED
  BY <1>4, <1>5, <1>6, Zenon

\* Decoding what was spelled gives the value back.
LEMMA DecodedSpelled ==
  ASSUME NEW value \in Seq(Readable)
  PROVE  /\ Spelled(value) \in Seq(Forms \X Chars)
         /\ \A n \in DOMAIN Spelled(value) : Legible(Spelled(value)[n])
         /\ Decoded(Spelled(value)) = value
<1>1. DOMAIN value = 1..Len(value) /\ Len(value) \in Nat
      /\ \A n \in DOMAIN value : value[n] \in Readable /\ value[n] \in Chars
  BY DEF Readable
<1>2. \A n \in DOMAIN value : /\ CanonicalForm(value[n]) \in Forms
                              /\ Legible(<<CanonicalForm(value[n]), value[n]>>)
  BY <1>1, LegibleFacts
<1>3. /\ DOMAIN Spelled(value) = DOMAIN value
      /\ \A n \in DOMAIN value : Spelled(value)[n] = <<CanonicalForm(value[n]), value[n]>>
  BY DEF Spelled
<1>4. Spelled(value) \in Seq(Forms \X Chars)
  BY <1>1, <1>2 DEF Spelled
<1>5. Decoded(Spelled(value)) = [n \in DOMAIN value |-> value[n]]
  BY <1>3 DEF Decoded
<1>6. value = [n \in DOMAIN value |-> value[n]]
  BY <1>1
<1> QED
  BY <1>2, <1>3, <1>4, <1>5, <1>6

LEMMA AppendFacts ==
  ASSUME NEW s \in Seq(Segments), NEW e \in Segments
  PROVE  /\ Append(s, e) \in Seq(Segments) /\ Len(Append(s, e)) = Len(s) + 1
         /\ \A i \in 1..Len(s) : Append(s, e)[i] = s[i]
         /\ Append(s, e)[Len(s) + 1] = e
OBVIOUS

\* The text of a state: its keys in order, each with its value spelled, then
\* the end.
LEMMA RenderingFacts ==
  ASSUME NEW state, NEW value,
         value = [state.value EXCEPT !["epochId"] = Numeral[state.epoch]],
         \A i \in 1..7 : Spelled(value[Keys[i]]) \in Seq(Forms \X Chars)
  PROVE  /\ Rendering(state) \in Seq(Segments) /\ Len(Rendering(state)) = 8
         /\ \A i \in 1..7 : Rendering(state)[i] = [key |-> Keys[i], string |-> Spelled(value[Keys[i]])]
         /\ Rendering(state)[8] = End
<1> DEFINE body == [i \in 1..7 |-> [key |-> Keys[i], string |-> Spelled(value[Keys[i]])]]
<1>1. Rendering(state) = Append(body, End)
  BY KeyFacts DEF Rendering, Segment
<1>2. \A i \in 1..7 : body[i] \in Segments
  <2>1. \A i \in 1..7 : Keys[i] \in Literals
    BY KeyFacts DEF Literals
  <2> QED
    BY <2>1 DEF Segments
<1>3. End \in Segments
  BY DEF End, Segment, Segments, Literals
<1>4. body \in Seq(Segments) /\ Len(body) = 7 /\ DOMAIN body = 1..7
  BY <1>2
<1>5. \A i \in 1..7 : body[i] = [key |-> Keys[i], string |-> Spelled(value[Keys[i]])]
  OBVIOUS
<1> HIDE DEF body
<1>6. /\ Append(body, End) \in Seq(Segments) /\ Len(Append(body, End)) = 8
      /\ \A i \in 1..7 : Append(body, End)[i] = body[i]
      /\ Append(body, End)[8] = End
  <2>1. /\ Append(body, End) \in Seq(Segments)
        /\ Len(Append(body, End)) = Len(body) + 1
        /\ \A i \in 1..Len(body) : Append(body, End)[i] = body[i]
        /\ Append(body, End)[Len(body) + 1] = End
    BY <1>3, <1>4, AppendFacts
  <2>2. Len(body) = 7 /\ Len(body) + 1 = 8
    BY <1>4, SMT
  <2> QED
    BY <2>1, <2>2, Zenon
<1>7. ASSUME NEW i \in 1..7
      PROVE  Append(body, End)[i] = [key |-> Keys[i], string |-> Spelled(value[Keys[i]])]
  <2>1. Append(body, End)[i] = body[i]
    BY <1>6
  <2>2. body[i] = [key |-> Keys[i], string |-> Spelled(value[Keys[i]])]
    BY <1>5
  <2> QED
    BY <2>1, <2>2, Zenon
<1> QED
  BY <1>1, <1>6, <1>7, Zenon

\* A text that parses is the text of the state it parses to.
LEMMA ParsedIsRendered ==
  ASSUME NEW bytes \in Seq(Segments), Parses(bytes)
  PROVE  bytes = Rendering(StateOf(bytes))
<1> DEFINE state == StateOf(bytes)
           fields == Fields(bytes)
           value == [state.value EXCEPT !["epochId"] = Numeral[state.epoch]]
<1>1. /\ Len(bytes) = 8 /\ bytes[8] = End
      /\ \A i \in 1..7 : /\ bytes[i].key = Keys[i]
                         /\ \A n \in DOMAIN bytes[i].string : Legible(bytes[i].string[n])
  <2>1. Len(bytes) = 8
    BY KeyFacts DEF Parses, KeysInOrder
  <2>2. bytes[8] = End
    BY <2>1 DEF Parses, KeysInOrder, Last
  <2>3. \A i \in 1..7 : /\ bytes[i].key = Keys[i]
                        /\ \A n \in DOMAIN bytes[i].string : Legible(bytes[i].string[n])
    BY KeyFacts, Zenon DEF Parses, KeysInOrder
  <2> QED
    BY <2>1, <2>2, <2>3, Zenon
<1>2. \A i \in 1..8 : bytes[i] \in Segments
  <2>1. \A i \in 1..Len(bytes) : bytes[i] \in Segments
    OBVIOUS
  <2> QED
    BY <1>1, <2>1, Zenon
<1>3. /\ DOMAIN fields = ToSet(Keys)
      /\ \A i \in 1..7 : fields[Keys[i]] = Decoded(bytes[i].string)
  BY FieldFacts
<1>4. ASSUME NEW i \in 1..7
      PROVE  /\ Spelled(fields[Keys[i]]) = bytes[i].string
             /\ fields[Keys[i]] \in Seq(Chars)
             /\ bytes[i].string \in Seq(Forms \X Chars)
             /\ bytes[i] = [key |-> Keys[i], string |-> bytes[i].string]
  <2>1. i \in 1..8 /\ bytes[i] \in Segments /\ bytes[i].key = Keys[i]
    BY <1>1, <1>2
  <2> DEFINE string == bytes[i].string
  <2>2. string \in Seq(Forms \X Chars) /\ bytes[i] = [key |-> Keys[i], string |-> string]
    BY <2>1 DEF Segments
  <2>3. \A n \in DOMAIN string : Legible(string[n])
    BY <1>1
  <2>4. fields[Keys[i]] = Decoded(string)
    BY <1>3
  <2> HIDE DEF string, fields
  <2>5. Spelled(Decoded(string)) = string /\ Decoded(string) \in Seq(Chars)
    BY <2>2, <2>3, SpelledDecoded
  <2>6. /\ Spelled(fields[Keys[i]]) = string /\ fields[Keys[i]] \in Seq(Chars)
        /\ string \in Seq(Forms \X Chars)
        /\ bytes[i] = [key |-> Keys[i], string |-> string]
    BY <2>2, <2>4, <2>5
  <2> QED
    BY <2>6 DEF string
<1>5. Numeral[Decimal(fields["epochId"])] = fields["epochId"]
  <2> DEFINE text == fields["epochId"]
  <2>1. text # << >> /\ Head(text) # "0" /\ ToSet(text) \subseteq DigitChars
    BY DEF Parses, ParsesEpochId, DigitChars
  <2>2. text \in Seq(Chars)
    BY <1>4, KeyFacts
  <2> HIDE DEF text
  <2>3. text \in Seq(DigitChars)
    BY <2>1, <2>2 DEF ToSet
  <2>4. Numeral[Decimal(text)] = text
    BY <2>1, <2>3, CanonicalNumeral
  <2> QED
    BY <2>4 DEF text
<1>6. state.value = fields /\ state.epoch = Decimal(fields["epochId"])
  BY DEF StateOf
<1> HIDE DEF state, fields
<1>7. value = fields
  <2>1. value = [fields EXCEPT !["epochId"] = fields["epochId"]]
    BY <1>5, <1>6
  <2>2. fields = [k \in ToSet(Keys) |-> fields[k]]
    BY <1>3 DEF fields, Fields
  <2> QED
    BY <2>1, <2>2
<1> HIDE DEF value
<1>8. \A i \in 1..7 : Spelled(value[Keys[i]]) = bytes[i].string
  BY <1>4, <1>7
<1>9. /\ Rendering(state) \in Seq(Segments) /\ Len(Rendering(state)) = 8
      /\ \A i \in 1..7 : Rendering(state)[i] = [key |-> Keys[i], string |-> Spelled(value[Keys[i]])]
      /\ Rendering(state)[8] = End
  <2>1. \A i \in 1..7 : Spelled(value[Keys[i]]) \in Seq(Forms \X Chars)
    BY <1>4, <1>8
  <2> QED
    BY <2>1, RenderingFacts DEF value
<1>10. ASSUME NEW i \in 1..8 PROVE bytes[i] = Rendering(state)[i]
  <2>1. CASE i \in 1..7
    <3>1. bytes[i] = [key |-> Keys[i], string |-> bytes[i].string]
      BY <1>4, <2>1
    <3>2. Rendering(state)[i] = [key |-> Keys[i], string |-> bytes[i].string]
      BY <1>8, <1>9, <2>1
    <3> QED
      BY <3>1, <3>2, Zenon
  <2>2. CASE i = 8
    BY <1>1, <1>9, <2>2
  <2> QED
    BY <2>1, <2>2
<1> DEFINE text == Rendering(state)
<1> HIDE DEF text
<1>11. text \in Seq(Segments) /\ Len(text) = 8 /\ \A i \in 1..8 : bytes[i] = text[i]
  BY <1>9, <1>10, Zenon DEF text
<1>12. bytes = text
  <2>1. Len(bytes) = 8
    BY <1>1
  <2> QED
    BY <1>11, <2>1
<1> QED
  BY <1>12 DEF text, state

\* What Core writes for a state of this lineage: the value of each key, the
\* number of the epoch among them, is made of characters that have a form.
CoreValue(state) == [state.value EXCEPT !["epochId"] = Numeral[state.epoch]]

LEMMA CoreValueFacts ==
  ASSUME NEW state \in CoreStates
  PROVE  /\ \A i \in 1..7 : CoreValue(state)[Keys[i]] \in Seq(Readable)
         /\ CoreValue(state)["epochId"] = Numeral[Expected.epoch]
         /\ \A i \in 2..7 : CoreValue(state)[Keys[i]] = state.value[Keys[i]]
<1>1. /\ state.epoch = Expected.epoch
      /\ DOMAIN state.value = ToSet(Keys)
      /\ \A k \in ToSet(Keys) : state.value[k] \in Seq(Readable)
  BY CoreAssumption DEF Readable
<1>2. "epochId" \in ToSet(Keys)
  BY KeyFacts
<1>3. CoreValue(state)["epochId"] = Numeral[Expected.epoch]
  BY <1>1, <1>2 DEF CoreValue
<1>4. ASSUME NEW i \in 2..7
      PROVE  CoreValue(state)[Keys[i]] = state.value[Keys[i]] /\ Keys[i] \in ToSet(Keys)
  <2>1. Keys[i] \in ToSet(Keys)
    BY KeyFacts
  <2>2. Keys[i] # "epochId"
    BY KeyFacts
  <2> QED
    BY <1>1, <2>1, <2>2 DEF CoreValue
<1>5. Numeral[Expected.epoch] \in Seq(Readable)
  <2> DEFINE text == Numeral[Expected.epoch]
  <2>1. text \in Seq(DigitChars)
    <3>1. Expected.epoch \in Nat
      BY ReadAssumption
    <3> QED
      BY <3>1, NumeralFacts, Zenon
  <2> HIDE DEF text
  <2>2. text \in Seq(Readable)
    BY <2>1, DigitsAreReadable
  <2> QED
    BY <2>2 DEF text
<1>6. ASSUME NEW i \in 1..7
      PROVE  CoreValue(state)[Keys[i]] \in Seq(Readable)
  <2>1. CASE i = 1
    BY <1>3, <1>5, <2>1, KeyFacts, Zenon
  <2>2. CASE i \in 2..7
    BY <1>1, <1>4, <2>2, Zenon
  <2> QED
    BY <2>1, <2>2
<1> QED
  BY <1>3, <1>4, <1>6

LEMMA CoreTextFacts ==
  ASSUME NEW state \in CoreStates
  PROVE  LET text == Rendering(state) IN
         /\ text \in Seq(Segments) /\ Len(text) = 8 /\ text[8] = End
         /\ \A i \in 1..7 : text[i] = [key |-> Keys[i],
                                       string |-> Spelled(CoreValue(state)[Keys[i]])]
<1> DEFINE value == CoreValue(state)
<1>1. \A i \in 1..7 : value[Keys[i]] \in Seq(Readable)
  BY CoreValueFacts
<1> HIDE DEF value
<1>2. \A i \in 1..7 : Spelled(value[Keys[i]]) \in Seq(Forms \X Chars)
  BY <1>1, DecodedSpelled
<1>3. value = [state.value EXCEPT !["epochId"] = Numeral[state.epoch]]
  BY DEF value, CoreValue
<1>4. /\ Rendering(state) \in Seq(Segments) /\ Len(Rendering(state)) = 8
      /\ \A i \in 1..7 : Rendering(state)[i] = [key |-> Keys[i], string |-> Spelled(value[Keys[i]])]
      /\ Rendering(state)[8] = End
  BY <1>2, <1>3, RenderingFacts
<1> QED
  BY <1>4, Zenon DEF value

\* A name Core takes is one the parser takes.
LEMMA NameFacts ==
  ASSUME NEW value \in Seq(Readable), NEW maximum, CoreName(value, maximum)
  PROVE  CanonicalIdentity(value, maximum)
<1>1. Len(value) \in Nat /\ Len(value) > 0 /\ DOMAIN value = 1..Len(value)
  BY DEF CoreName
<1>2. value # << >> /\ Head(value) = value[1] /\ Last(value) = value[Len(value)]
  BY <1>1 DEF Last
<1>3. "nul" \notin ToSet(value)
  BY <1>1 DEF CoreName, ToSet
<1>4. ~GoTrimSpace(Head(value)) /\ ~GoTrimSpace(Last(value))
  BY <1>2 DEF CoreName, GoTrimSpace
<1> QED
  BY <1>2, <1>3, <1>4 DEF CanonicalIdentity, CoreName

LEMMA DigestFacts ==
  ASSUME NEW value \in Seq(Readable), value \in [1..DigestLength -> LowerHex]
  PROVE  LowerHexDigest(value)
<1>1. Len(value) = DigestLength
  <2>1. DigestLength \in Nat /\ Len(value) \in Nat /\ 1..Len(value) = 1..DigestLength
    BY ReadAssumption
  <2> QED
    BY <2>1
<1>2. ToSet(value) \subseteq LowerHex
  BY DEF ToSet
<1> QED
  BY <1>1, <1>2 DEF LowerHexDigest

\* Every text Core writes for this lineage passes the fence.
LEMMA CoreTextPasses ==
  ASSUME NEW state \in CoreStates
  PROVE  LET text == Rendering(state)
         IN  Parses(text) /\ ValidateEpochFenceState(StateOf(text))
<1> DEFINE text == Rendering(state)
           value == CoreValue(state)
           fields == Fields(text)
<1>1. /\ text \in Seq(Segments) /\ Len(text) = 8 /\ text[8] = End
      /\ \A i \in 1..7 : text[i] = [key |-> Keys[i], string |-> Spelled(value[Keys[i]])]
  BY CoreTextFacts
<1>2. /\ \A i \in 1..7 : value[Keys[i]] \in Seq(Readable)
      /\ value["epochId"] = Numeral[Expected.epoch]
      /\ \A i \in 2..7 : value[Keys[i]] = state.value[Keys[i]]
  BY CoreValueFacts
<1> HIDE DEF text, value
<1>3. ASSUME NEW i \in 1..7
      PROVE  /\ text[i].key = Keys[i]
             /\ \A n \in DOMAIN text[i].string : Legible(text[i].string[n])
             /\ Decoded(text[i].string) = value[Keys[i]]
  <2> DEFINE v == value[Keys[i]]
  <2>1. v \in Seq(Readable) /\ text[i] = [key |-> Keys[i], string |-> Spelled(v)]
    BY <1>1, <1>2
  <2> HIDE DEF v
  <2>2. text[i].key = Keys[i] /\ text[i].string = Spelled(v)
    BY <2>1
  <2>3. /\ \A n \in DOMAIN Spelled(v) : Legible(Spelled(v)[n])
        /\ Decoded(Spelled(v)) = v
    BY <2>1, DecodedSpelled
  <2> QED
    BY <2>2, <2>3, Zenon DEF v
<1>4. KeysInOrder(text)
  <2>1. Len(text) = Len(Keys) + 1
    BY <1>1, KeyFacts
  <2>2. Last(text) = End
    BY <1>1 DEF Last
  <2> QED
    BY <1>3, <2>1, <2>2, KeyFacts, Zenon DEF KeysInOrder
<1>5. \A i \in 1..7 : fields[Keys[i]] = value[Keys[i]]
  BY <1>3, FieldFacts
<1>6. /\ fields["epochId"] = Numeral[Expected.epoch]
      /\ fields["jobId"] = state.value["jobId"] /\ fields["jobId"] \in Seq(Readable)
      /\ fields["policySha256"] = state.value["policySha256"]
      /\ fields["policySha256"] \in Seq(Readable)
      /\ fields["schema"] = state.value["schema"]
      /\ fields["sessionContractSha256"] = state.value["sessionContractSha256"]
      /\ fields["sessionContractSha256"] \in Seq(Readable)
      /\ fields["sessionId"] = state.value["sessionId"]
      /\ fields["sessionId"] \in Seq(Readable)
      /\ fields["targetId"] = state.value["targetId"] /\ fields["targetId"] \in Seq(Readable)
  <2>1. /\ 1 \in 1..7 /\ 2 \in 2..7 /\ 3 \in 2..7 /\ 4 \in 2..7 /\ 5 \in 2..7 /\ 6 \in 2..7
        /\ 7 \in 2..7 /\ 2 \in 1..7 /\ 3 \in 1..7 /\ 4 \in 1..7 /\ 5 \in 1..7 /\ 6 \in 1..7
        /\ 7 \in 1..7
    OBVIOUS
  <2> HIDE DEF fields
  <2>2. ASSUME NEW i \in 2..7
        PROVE  /\ fields[Keys[i]] = state.value[Keys[i]]
               /\ fields[Keys[i]] \in Seq(Readable)
    <3>1. i \in 1..7
      OBVIOUS
    <3>2. /\ fields[Keys[i]] = value[Keys[i]] /\ value[Keys[i]] = state.value[Keys[i]]
          /\ value[Keys[i]] \in Seq(Readable)
      BY <1>2, <1>5, <3>1
    <3> QED
      BY <3>2, Zenon
  <2>3. /\ Keys[1] = "epochId" /\ Keys[2] = "jobId" /\ Keys[3] = "policySha256"
        /\ Keys[4] = "schema" /\ Keys[5] = "sessionContractSha256"
        /\ Keys[6] = "sessionId" /\ Keys[7] = "targetId"
    BY KeyFacts, Zenon
  <2>4. fields["epochId"] = Numeral[Expected.epoch]
    BY <1>2, <1>5, <2>1, <2>3, Zenon
  <2>5. /\ fields["jobId"] = state.value["jobId"] /\ fields["jobId"] \in Seq(Readable)
        /\ fields["policySha256"] = state.value["policySha256"]
        /\ fields["policySha256"] \in Seq(Readable)
        /\ fields["schema"] = state.value["schema"]
    BY <2>1, <2>2, <2>3, Zenon
  <2>6. /\ fields["sessionContractSha256"] = state.value["sessionContractSha256"]
        /\ fields["sessionContractSha256"] \in Seq(Readable)
        /\ fields["sessionId"] = state.value["sessionId"]
        /\ fields["sessionId"] \in Seq(Readable)
        /\ fields["targetId"] = state.value["targetId"]
        /\ fields["targetId"] \in Seq(Readable)
    BY <2>1, <2>2, <2>3, Zenon
  <2> QED
    BY <2>4, <2>5, <2>6, Zenon
<1>7. /\ ParsesEpochId(fields["epochId"]) /\ Decimal(fields["epochId"]) = Expected.epoch
  <2> DEFINE e == Expected.epoch
             numeral == Numeral[e]
  <2>1. e \in Nat /\ e > 0 /\ e <= MaxEpochId
    BY ReadAssumption
  <2>2. /\ numeral \in Seq(DigitChars) /\ numeral # << >> /\ Head(numeral) # "0"
        /\ Decimal(numeral) = e
    BY <2>1, NumeralFacts
  <2> HIDE DEF e, numeral
  <2>3. ToSet(numeral) \subseteq ToSet(Digits)
    BY <2>2 DEF ToSet, DigitChars
  <2>4. ParsesEpochId(numeral)
    BY <2>1, <2>2, <2>3, Zenon DEF ParsesEpochId
  <2>5. fields["epochId"] = numeral
    BY <1>6, Zenon DEF numeral, e
  <2> QED
    BY <2>2, <2>4, <2>5, Zenon DEF e
<1> HIDE DEF fields
<1>8. /\ CoreName(fields["jobId"], Limit["jobId"])
      /\ CoreName(fields["targetId"], Limit["targetId"])
      /\ fields["schema"] = Schema
      /\ fields["policySha256"] \in [1..DigestLength -> LowerHex]
      /\ fields["sessionContractSha256"] \in [1..DigestLength -> LowerHex]
      /\ Len(fields["sessionId"]) > 0
      /\ ByteLength(fields["sessionId"]) <= Limit["sessionId"]
  BY <1>6, CoreAssumption, Zenon
<1>9. Parses(text)
  <2>1. /\ CanonicalIdentity(fields["jobId"], Limit["jobId"])
        /\ CanonicalIdentity(fields["targetId"], Limit["targetId"])
    BY <1>6, <1>8, NameFacts, Zenon
  <2>2. LowerHexDigest(fields["policySha256"]) /\ LowerHexDigest(fields["sessionContractSha256"])
    BY <1>6, <1>8, DigestFacts, Zenon
  <2>3. fields["sessionId"] # << >>
    BY <1>6, <1>8
  <2> QED
    BY <1>4, <1>7, <1>8, <2>1, <2>2, <2>3, Zenon DEF Parses, fields
<1>10. ValidateEpochFenceState(StateOf(text))
  <2>1. StateOf(text) = [epoch |-> Expected.epoch, value |-> fields]
    BY <1>7, Zenon DEF StateOf, fields
  <2>2. \A k \in {"policySha256", "sessionContractSha256", "sessionId"} :
          fields[k] = Expected.value[k]
    BY <1>6, CoreAssumption, Zenon
  <2> QED
    BY <2>1, <2>2 DEF ValidateEpochFenceState
<1> QED
  BY <1>9, <1>10 DEF text

-----------------------------------------------------------------------------
(* Types *)

LEMMA InodeFacts == 0 \notin Inodes
BY ReadAssumption

\* A text is a file's content.
LEMMA FileType ==
  ASSUME NEW text \in Texts \cup CoreTexts \cup {<< >>}
  PROVE  File(text) \in Content
<1>0. Texts \cup CoreTexts \subseteq Seq(Segments)
  <2>1. \A t \in Seq([key : STRING, string : Seq(Forms \X Chars)]) : t \in Seq(Segments)
    <3> DEFINE S == [key : STRING, string : Seq(Forms \X Chars)]
    <3>1. S \subseteq Segments
      BY DEF Segments, Literals
    <3> HIDE DEF S
    <3>2. \A t \in Seq(S) : t \in Seq(Segments)
      BY <3>1
    <3> QED
      BY <3>2 DEF S
  <2>2. \A state \in CoreStates : Rendering(state) \in Seq(Segments)
    BY CoreTextFacts
  <2>3. \A t \in CoreTexts : t \in Seq(Segments)
    BY <2>2, Zenon DEF CoreTexts
  <2> QED
    BY <2>1, <2>3, ReadAssumption, Zenon
<1>1. text \in Seq(Segments)
  <2>1. << >> \in Seq(Segments)
    OBVIOUS
  <2> QED
    BY <1>0, <2>1, Zenon
<1> QED
  BY <1>1 DEF File, Content

LEMMA ReadTypeInit == ReadInit => ReadTypeOK
<1> SUFFICES ASSUME ReadInit PROVE ReadTypeOK
  OBVIOUS
<1>1. path \in Inodes
  BY DEF ReadInit
<1>2. files \in [Inodes -> Content]
  <2> PICK text \in Texts :
        files = [i \in Inodes |-> File(IF i = path THEN text ELSE << >>)]
    BY DEF ReadInit
  <2>1. \A i \in Inodes : File(IF i = path THEN text ELSE << >>) \in Content
    BY FileType
  <2> QED
    BY <2>1
<1>3. reader \in Reader
  BY DEF ReadInit, Resting, Reader
<1> QED
  BY <1>1, <1>2, <1>3 DEF ReadTypeOK

\* What a change of the directory does to the file an inode number names,
\* the descriptor of a call in progress included.
FileChanges(i) ==
  \/ files'[i] = files[i]
  \/ Free(i) /\ files'[i] \in Content
  \/ \E flag \in BOOLEAN : files'[i] = [files[i] EXCEPT !.private = flag]
  \/ \E n \in Nat :
       /\ n < Size(i)
       /\ files'[i] = [files[i] EXCEPT !.bytes = SubSeq(files[i].bytes, 1, n)]

Changes == CoreReplaces \/ TamperLink \/ TamperUnlink \/ TamperMode \/ TamperSize

LEMMA ChangeFacts ==
  ASSUME ReadTypeOK, Changes
  PROVE  /\ UNCHANGED <<reader, answer>>
         /\ path' \in Inodes \cup {0}
         /\ DOMAIN files' = Inodes /\ files' = [i \in Inodes |-> files'[i]]
         /\ \A i \in Inodes : FileChanges(i)
<1>0. files \in [Inodes -> Content] /\ path \in Inodes \cup {0}
  BY DEF ReadTypeOK
<1>1. UNCHANGED <<reader, answer>>
  BY DEF Changes, CoreReplaces, TamperLink, TamperUnlink, TamperMode, TamperSize,
     DirectoryChanges
<1>2. ASSUME NEW j \in Inodes, NEW file \in Content, Place(j, file)
      PROVE  /\ path' \in Inodes \cup {0}
             /\ DOMAIN files' = Inodes /\ files' = [i \in Inodes |-> files'[i]]
             /\ \A i \in Inodes : FileChanges(i)
  BY <1>0, <1>2 DEF Place, FileChanges
<1>3. CASE CoreReplaces
  BY <1>1, <1>2, <1>3, FileType DEF CoreReplaces
<1>4. CASE TamperLink
  <2>1. [File(<< >>) EXCEPT !.regular = FALSE] \in Content
    BY FileType DEF Content
  <2> QED
    BY <1>1, <1>2, <1>4, <2>1 DEF TamperLink
<1>5. CASE TamperUnlink
  BY <1>0, <1>1, <1>5 DEF TamperUnlink, FileChanges
<1>6. CASE TamperMode
  <2>1. path \in Inodes /\ UNCHANGED path
    BY <1>0, <1>6 DEF TamperMode
  <2>2. files' = [files EXCEPT ![path] =
                    [files[path] EXCEPT !.private = ~files[path].private]]
    BY <1>6 DEF TamperMode
  <2>3. (~files[path].private) \in BOOLEAN
    OBVIOUS
  <2> DEFINE flag == ~files[path].private
  <2> HIDE DEF flag
  <2>4. files' = [files EXCEPT ![path] = [files[path] EXCEPT !.private = flag]]
    BY <2>2 DEF flag
  <2>5. \A i \in Inodes : \/ files'[i] = files[i]
                         \/ files'[i] = [files[i] EXCEPT !.private = flag]
    BY <1>0, <2>1, <2>4
  <2>6. flag \in BOOLEAN
    BY <2>3 DEF flag
  <2> QED
    BY <1>0, <1>1, <2>1, <2>4, <2>5, <2>6 DEF FileChanges
<1>7. CASE TamperSize
  <2>1. path \in Inodes /\ UNCHANGED path
    BY <1>0, <1>7 DEF TamperSize
  <2> PICK n \in Splits \cup {0} :
        /\ n < Size(path)
        /\ files' = [files EXCEPT ![path] =
             [files[path] EXCEPT !.bytes = SubSeq(files[path].bytes, 1, n)]]
    BY <1>7 DEF TamperSize
  <2>2. n \in Nat
    BY ReadAssumption
  <2>3. \A i \in Inodes :
          \/ files'[i] = files[i]
          \/ /\ n < Size(i)
             /\ files'[i] = [files[i] EXCEPT !.bytes = SubSeq(files[i].bytes, 1, n)]
    BY <1>0, <2>1
  <2> QED
    BY <1>0, <1>1, <2>1, <2>2, <2>3 DEF FileChanges
<1> QED
  BY <1>3, <1>4, <1>5, <1>6, <1>7 DEF Changes

\* A changed file is a file; unless the inode was free it keeps its kind, can
\* only shrink, and agrees with what was read of it.
LEMMA FileChangeFacts ==
  ASSUME ReadTypeOK, NEW i \in Inodes, FileChanges(i)
  PROVE  /\ files'[i] \in Content
         /\ ~Free(i) =>
              /\ files'[i].regular = files[i].regular
              /\ Len(files'[i].bytes) <= Size(i)
              /\ \A bytes \in Seq(Segments) :
                   Agrees(bytes, files[i].bytes) => Agrees(bytes, files'[i].bytes)
<1> DEFINE f == files[i]
           g == files'[i]
<1>0. f \in Content /\ f.bytes \in Seq(Segments) /\ Len(f.bytes) \in Nat
  BY DEF ReadTypeOK, Content
<1>1. CASE g = f
  BY <1>0, <1>1 DEF Size
<1>2. CASE Free(i) /\ g \in Content
  BY <1>2
<1>3. ASSUME NEW flag \in BOOLEAN, g = [f EXCEPT !.private = flag]
      PROVE  g \in Content /\ g.regular = f.regular /\ g.bytes = f.bytes
  BY <1>0, <1>3 DEF Content
<1>4. ASSUME NEW n \in Nat, n < Len(f.bytes),
             g = [f EXCEPT !.bytes = SubSeq(f.bytes, 1, n)]
      PROVE  /\ g \in Content /\ g.regular = f.regular
             /\ Len(g.bytes) <= Len(f.bytes)
             /\ \A bytes \in Seq(Segments) :
                  Agrees(bytes, f.bytes) => Agrees(bytes, g.bytes)
  <2> DEFINE short == SubSeq(f.bytes, 1, n)
  <2> HIDE DEF f
  <2>1. short \in Seq(Segments) /\ Len(short) = n
    BY <1>0, <1>4
  <2>2. \A bytes \in Seq(Segments) :
          Agrees(bytes, f.bytes) => Agrees(bytes, short)
    BY <1>0, <1>4, TruncateFacts
  <2> HIDE DEF short
  <2>3. g = [f EXCEPT !.bytes = short]
    BY <1>4 DEF short
  <2> HIDE DEF g
  <2>4. g \in Content /\ g.regular = f.regular /\ g.bytes = short
    BY <1>0, <2>1, <2>3 DEF Content
  <2>5. n <= Len(f.bytes)
    BY <1>0, <1>4
  <2>6. Len(g.bytes) <= Len(f.bytes)
    BY <2>1, <2>4, <2>5
  <2> QED
    BY <2>2, <2>4, <2>6
<1>5. \/ g = f
      \/ Free(i) /\ g \in Content
      \/ \E flag \in BOOLEAN : g = [f EXCEPT !.private = flag]
      \/ \E n \in Nat : n < Len(f.bytes) /\ g = [f EXCEPT !.bytes = SubSeq(f.bytes, 1, n)]
  BY DEF FileChanges, Size
<1>6. CASE \E flag \in BOOLEAN : g = [f EXCEPT !.private = flag]
  BY <1>0, <1>3, <1>6 DEF Size
<1>7. CASE \E n \in Nat : n < Len(f.bytes) /\ g = [f EXCEPT !.bytes = SubSeq(f.bytes, 1, n)]
  BY <1>4, <1>7 DEF Size
<1> QED
  BY <1>1, <1>2, <1>5, <1>6, <1>7

-----------------------------------------------------------------------------
(* The reader's invariant *)

ReadInv == ReadTypeOK /\ ReaderInv

\* A reader at rest, or one past its first lstat, satisfies the invariant.
LEMMA RestingFacts ==
  ASSUME files' \in [Inodes -> Content], path' \in Inodes \cup {0}, reader' = Resting
  PROVE  ReadInv'
BY InodeFacts DEF ReadInv, ReadTypeOK, ReaderInv, Resting, Reader

\* The directory changes under a call in progress.
LEMMA ChangeStep ==
  ASSUME ReadInv, Changes
  PROVE  ReadInv'
<1>0. ReadTypeOK /\ ReaderInv /\ reader \in Reader
  BY DEF ReadInv, ReadTypeOK
<1>1. /\ UNCHANGED <<reader, answer>>
      /\ path' \in Inodes \cup {0}
      /\ files' = [i \in Inodes |-> files'[i]]
      /\ \A i \in Inodes : FileChanges(i)
  BY <1>0, ChangeFacts
<1>2. files' \in [Inodes -> Content]
  <2>1. \A i \in Inodes : files'[i] \in Content
    BY <1>0, <1>1, FileChangeFacts
  <2> QED
    BY <1>1, <2>1
<1>3. ReadTypeOK'
  BY <1>0, <1>1, <1>2 DEF ReadTypeOK
<1>4. CASE reader.at \in {"lstat", "open"}
  BY <1>0, <1>1, <1>3, <1>4 DEF ReadInv, ReaderInv
<1>5. CASE reader.at \in {"fstat", "read", "relist"}
  <2> DEFINE i == reader.fd
  <2>1. i \in Inodes /\ ~Free(i) /\ files[i].regular
    BY <1>0, <1>5 DEF ReaderInv, Free
  <2>2. /\ files'[i].regular = files[i].regular
        /\ Len(files'[i].bytes) <= Size(i)
        /\ \A bytes \in Seq(Segments) :
             Agrees(bytes, files[i].bytes) => Agrees(bytes, files'[i].bytes)
    BY <1>0, <1>1, <2>1, FileChangeFacts
  <2>3. /\ reader.bytes \in Seq(Segments) /\ reader.size \in Nat
        /\ Size(i) \in Nat /\ Len(files'[i].bytes) \in Nat
    BY <1>0, <1>2, <2>1 DEF Reader, ReadTypeOK, Content, Size
  <2>4. reader.at \in {"read", "relist"} =>
          /\ Len(files'[i].bytes) <= reader.size
          /\ Agrees(reader.bytes, files'[i].bytes)
    BY <1>0, <2>2, <2>3 DEF ReaderInv
  <2> QED
    BY <1>0, <1>1, <1>3, <1>5, <2>1, <2>2, <2>4 DEF ReadInv, ReaderInv, Size
<1> QED
  BY <1>0, <1>4, <1>5 DEF Reader

\* A step of the call keeps the invariant.
LEMMA CallStep ==
  ASSUME ReadInv, Call
  PROVE  ReadInv'
<1>0. /\ ReaderInv /\ reader \in Reader /\ files \in [Inodes -> Content]
      /\ path \in Inodes \cup {0}
  BY DEF ReadInv, ReadTypeOK
<1>1. UNCHANGED <<path, files>>
  BY DEF Call, LstatBefore, Open, Fstat, Read, LstatCurrent, Step, Refuse, EndOfFile
<1>2. CASE reader' = Resting
  BY <1>0, <1>1, <1>2, RestingFacts
<1>3. CASE reader' # Resting
  <2>1. CASE LstatBefore
    <3>1. /\ reader.at = "lstat" /\ path \in Inodes /\ Size(path) \in 1..MaxBytes
          /\ reader' = [reader EXCEPT !.at = "open", !.ino = path, !.size = Size(path)]
      BY <1>0, <1>3, <2>1 DEF LstatBefore
    <3> DEFINE n == Size(path)
    <3>n. n \in 1..MaxBytes /\ n \in Nat
      BY <3>1, ReadAssumption
    <3> HIDE DEF n
    <3>2. /\ reader' \in Reader /\ reader'.at = "open" /\ reader'.fd = reader.fd
          /\ reader'.bytes = reader.bytes /\ reader'.size \in 1..MaxBytes
      <4>1. reader' = [reader EXCEPT !.at = "open", !.ino = path, !.size = n]
        BY <3>1 DEF n
      <4> QED
        BY <1>0, <3>1, <3>n, <4>1 DEF Reader
    <3> QED
      BY <1>0, <1>1, <3>1, <3>2 DEF ReadInv, ReadTypeOK, ReaderInv
  <2>2. CASE Open
    <3>1. /\ reader.at = "open" /\ path \in Inodes /\ files[path].regular
          /\ reader' = [reader EXCEPT !.at = "fstat", !.fd = path]
      BY <1>0, <1>3, <2>2 DEF Open, Step, Refuse
    <3>2. /\ reader' \in Reader /\ reader'.at = "fstat" /\ reader'.fd = path
          /\ reader'.bytes = reader.bytes /\ reader'.size = reader.size
      BY <1>0, <3>1 DEF Reader
    <3> QED
      BY <1>0, <1>1, <3>1, <3>2 DEF ReadInv, ReadTypeOK, ReaderInv
  <2>3. CASE Fstat
    <3>1. /\ reader.at = "fstat" /\ Size(reader.fd) = reader.size
          /\ reader' = [reader EXCEPT !.at = "read"]
      BY <1>3, <2>3 DEF Fstat, Step, Refuse
    <3>2. /\ reader' \in Reader /\ reader'.at = "read" /\ reader'.fd = reader.fd
          /\ reader'.bytes = reader.bytes /\ reader'.size = reader.size
      BY <1>0, <3>1 DEF Reader
    <3>3. /\ reader.bytes = << >> /\ reader.size \in Nat /\ Len(reader.bytes) = 0
          /\ Agrees(reader.bytes, files[reader.fd].bytes)
      BY <1>0, <3>1 DEF ReaderInv, Reader, Agrees
    <3> QED
      BY <1>0, <1>1, <3>1, <3>2, <3>3 DEF ReadInv, ReadTypeOK, ReaderInv, Size
  <2>4. CASE Read
    <3> DEFINE fd == reader.fd
               file == files[fd].bytes
               offset == Len(reader.bytes)
               most == IF Size(fd) < reader.size THEN Size(fd) ELSE reader.size
               Chunk(n) == reader.bytes \o SubSeq(file, offset + 1, n)
    <3>1. reader.at = "read" /\ fd \in Inodes
      BY <1>0, <2>4 DEF Read, ReaderInv
    <3>2. /\ reader.bytes \in Seq(Segments) /\ file \in Seq(Segments)
          /\ Size(fd) = Len(file) /\ Len(file) \in Nat /\ reader.size \in Nat
          /\ offset \in Nat /\ Agrees(reader.bytes, file)
      BY <1>0, <3>1 DEF Reader, Content, Size, ReaderInv
    <3>3. PICK n \in Splits \cup {most} :
            /\ offset < n /\ n <= most
            /\ reader' = [reader EXCEPT !.bytes = Chunk(n),
                            !.at = IF n = reader.size THEN "relist" ELSE "read"]
      BY <1>3, <2>4 DEF Read, Step, EndOfFile, Refuse
    <3>4. n \in Nat /\ n <= Len(file) /\ n <= reader.size
      BY <3>2, <3>3, ReadAssumption
    <3>5. /\ Chunk(n) \in Seq(Segments) /\ Len(Chunk(n)) = n
          /\ Agrees(Chunk(n), file)
      BY <3>2, <3>3, <3>4, ChunkFacts
    <3> HIDE DEF Chunk
    <3>6. /\ reader' \in Reader /\ reader'.fd = fd /\ reader'.size = reader.size
          /\ reader'.bytes = Chunk(n)
          /\ reader'.at = IF n = reader.size THEN "relist" ELSE "read"
      BY <1>0, <3>3, <3>5 DEF Reader
    <3>7. /\ files[fd].regular /\ reader.size \in 1..MaxBytes
          /\ Size(fd) <= reader.size
      BY <1>0, <3>1 DEF ReaderInv
    <3>8. ReaderInv'
      BY <1>1, <3>1, <3>4, <3>5, <3>6, <3>7 DEF ReaderInv, Size
    <3> QED
      BY <1>0, <1>1, <3>6, <3>8 DEF ReadInv, ReadTypeOK
  <2>5. CASE LstatCurrent
    BY <1>3, <2>5 DEF LstatCurrent, Refuse
  <2> QED
    BY <2>1, <2>2, <2>3, <2>4, <2>5 DEF Call
<1> QED
  BY <1>2, <1>3

LEMMA ReadInvStep == ReadInv /\ [ReadNext]_readVars => ReadInv'
<1>1. ReadInv /\ UNCHANGED readVars => ReadInv'
  BY DEF readVars, ReadInv, ReadTypeOK, ReaderInv, Size
<1> QED
  BY <1>1, ChangeStep, CallStep DEF ReadNext, Changes, Call

-----------------------------------------------------------------------------
(* The refinement *)

\* A call that answers has read, whole, the document the path holds.
LEMMA AnswerIsDocument ==
  ASSUME ReadInv, reader.at = "relist", StillNamed
  PROVE  Document = reader.bytes /\ reader.bytes # << >>
<1>1. /\ reader \in Reader /\ files \in [Inodes -> Content]
      /\ path \in Inodes /\ path = reader.fd
  BY InodeFacts DEF ReadInv, ReadTypeOK, ReaderInv, StillNamed
<1>2. /\ files[path].regular /\ files[path].private
      /\ Size(path) = reader.size /\ reader.size \in 1..MaxBytes
      /\ Len(reader.bytes) = reader.size
      /\ Agrees(reader.bytes, files[path].bytes)
  BY <1>1 DEF ReadInv, ReaderInv, StillNamed
<1>3. reader.bytes \in Seq(Segments) /\ files[path].bytes \in Seq(Segments)
  BY <1>1 DEF Reader, Content
<1>4. reader.bytes = files[path].bytes
  BY <1>2, <1>3, WholeFacts DEF Size
<1>5. path # 0
  BY <1>1, InodeFacts
<1>6. Document = files[path].bytes
  BY <1>2, <1>5 DEF Document
<1>7. reader.bytes # << >>
  BY <1>2, <1>3, ReadAssumption
<1> QED
  BY <1>4, <1>6, <1>7

LEMMA AbstractStep ==
  ASSUME ReadInv, [ReadNext]_readVars
  PROVE  [Abstract!Change \/ Abstract!Answer]_<<Document, answer>>
<1>1. CASE UNCHANGED answer
  BY <1>1 DEF Abstract!Change
<1>2. UNCHANGED <<path, files>> => Document' = Document
  BY DEF Document, Size
<1>3. CASE Refuse \/ LstatBefore
  <2>1. Document' = Document /\ answer' = Abstract!Refused
    BY <1>2, <1>3 DEF Refuse, LstatBefore, Refused, Abstract!Refused
  <2> QED
    BY <2>1 DEF Abstract!Answer
<1>4. CASE LstatCurrent /\ StillNamed
  <2>1. Document' = Document
    BY <1>2, <1>4 DEF LstatCurrent
  <2>2. answer' = [ok |-> TRUE, bytes |-> Document] /\ Document # << >>
    BY <1>4, AnswerIsDocument DEF LstatCurrent
  <2> QED
    BY <2>1, <2>2 DEF Abstract!Answer
<1> QED
  BY <1>1, <1>3, <1>4
     DEF ReadNext, readVars, CoreReplaces, TamperLink, TamperUnlink, TamperMode,
         TamperSize, DirectoryChanges, Open, Fstat, Read, EndOfFile, Step, LstatCurrent

\* Whatever replaces, truncates, relinks or hides epoch-state.json between its
\* system calls, readSecureEpochState answers like one atomic read of the
\* document the path names at the moment of the answer, or refuses.
THEOREM ReadIsAtomic == ReadSpec => ImplementsAtomicRead
<1>1. ReadInit => ReadInv
  BY ReadTypeInit, InodeFacts DEF ReadInit, ReadInv, ReaderInv, Resting
<1>2. ReadInit => Abstract!ARInit
  BY DEF ReadInit, Abstract!ARInit, Refused, Abstract!Refused
<1>3. ReadInv /\ [ReadNext]_readVars
        => [Abstract!Change \/ Abstract!Answer]_<<Document, answer>>
  BY AbstractStep
<1> QED
  BY <1>1, <1>2, <1>3, ReadInvStep, PTL
     DEF ReadSpec, ImplementsAtomicRead, Abstract!ARSpec

-----------------------------------------------------------------------------
(* The fence *)

\* The fence is what parsing and comparing made of the bytes answered.
AnswerInv ==
  /\ answer.ok => /\ answer.bytes \in Seq(Segments)
                  /\ fence = (Parses(answer.bytes)
                                /\ ValidateEpochFenceState(StateOf(answer.bytes)))
  /\ ~answer.ok => ~fence

LEMMA AnswerInvStep ==
  ASSUME ReadInv, AnswerInv, [ReadNext]_readVars
  PROVE  AnswerInv'
<1>1. CASE UNCHANGED <<answer, fence>>
  BY <1>1 DEF AnswerInv
<1>2. CASE answer' = Refused /\ fence' = FALSE
  BY <1>2 DEF AnswerInv, Refused
<1>3. CASE LstatCurrent /\ StillNamed
  <2> DEFINE bytes == reader.bytes
  <2>1. bytes \in Seq(Segments)
    BY DEF ReadInv, ReadTypeOK, Reader
  <2>2. /\ answer' = [ok |-> TRUE, bytes |-> bytes]
        /\ fence' = (Parses(bytes) /\ ValidateEpochFenceState(StateOf(bytes)))
    BY <1>3, Zenon DEF LstatCurrent
  <2> HIDE DEF bytes
  <2>3. answer'.ok /\ answer'.bytes = bytes
    BY <2>2
  <2> QED
    BY <2>1, <2>2, <2>3, Zenon DEF AnswerInv
<1>4. \/ UNCHANGED <<answer, fence>>
      \/ answer' = Refused /\ fence' = FALSE
      \/ LstatCurrent /\ StillNamed
  BY DEF ReadNext, readVars, CoreReplaces, TamperLink, TamperUnlink, TamperMode,
         TamperSize, DirectoryChanges, LstatBefore, Open, Fstat, Read, EndOfFile,
         Refuse, Step, LstatCurrent
<1> QED
  BY <1>1, <1>2, <1>3, <1>4

LEMMA AnswerInvariant == ReadSpec => []AnswerInv
<1>1. ReadInit => ReadInv
  BY ReadTypeInit, InodeFacts DEF ReadInit, ReadInv, ReaderInv, Resting
<1>2. ReadInit => AnswerInv
  BY DEF ReadInit, AnswerInv, Refused
<1>3. ReadInv /\ AnswerInv /\ [ReadNext]_readVars => AnswerInv'
  BY AnswerInvStep
<1> QED
  BY <1>1, <1>2, <1>3, ReadInvStep, PTL DEF ReadSpec

\* parseCanonicalEpochState and validateEpochFenceState let one text through for
\* each state: what passes the fence is, byte for byte, what Go's encoder writes
\* for the state read from it, whatever the file held.
THEOREM FenceReadsCanonically == ReadSpec => []FenceIsCanonical
<1>1. ASSUME AnswerInv PROVE FenceIsCanonical
  <2> SUFFICES ASSUME fence
               PROVE  /\ answer.bytes = Rendering(StateOf(answer.bytes))
                      /\ StateOf(answer.bytes).epoch = Expected.epoch
    BY Zenon DEF FenceIsCanonical
  <2> DEFINE bytes == answer.bytes
  <2>1. /\ bytes \in Seq(Segments) /\ Parses(bytes)
        /\ ValidateEpochFenceState(StateOf(bytes))
    BY <1>1, Zenon DEF AnswerInv
  <2> HIDE DEF bytes
  <2>2. bytes = Rendering(StateOf(bytes))
    BY <2>1, ParsedIsRendered
  <2>3. StateOf(bytes).epoch = Expected.epoch
    BY <2>1, Zenon DEF ValidateEpochFenceState
  <2> QED
    BY <2>2, <2>3, Zenon DEF bytes
<1> QED
  BY <1>1, AnswerInvariant, PTL

\* Whatever Core writes for the lineage the Guard was started with, whichever
\* names and escapes it holds, loadAndValidateEpochFence accepts once it has
\* read it.
THEOREM CoreIsAlwaysUnderstood == ReadSpec => []CoreIsUnderstood
<1>1. ASSUME AnswerInv PROVE CoreIsUnderstood
  <2> SUFFICES ASSUME answer.ok, answer.bytes \in CoreTexts PROVE fence
    BY DEF CoreIsUnderstood
  <2>1. PICK state \in CoreStates : answer.bytes = Rendering(state)
    BY DEF CoreTexts
  <2>2. Parses(Rendering(state)) /\ ValidateEpochFenceState(StateOf(Rendering(state)))
    BY CoreTextPasses
  <2> QED
    BY <1>1, <2>1, <2>2, Zenon DEF AnswerInv
<1> QED
  BY <1>1, AnswerInvariant, PTL
=============================================================================
