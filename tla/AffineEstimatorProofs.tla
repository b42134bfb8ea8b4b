----------------------- MODULE AffineEstimatorProofs ------------------------
(***************************************************************************)
(* What estimateAffine computes, for every window of samples: its sums,    *)
(* the least-squares line they give, and the values rounded off it.        *)
(***************************************************************************)
EXTENDS AffineEstimator, LoopInduction, TLAPS

-----------------------------------------------------------------------------
(* Sums *)

IsRunning(g, terms, k) ==
  g = [n \in 0..k |-> IF n = 0 THEN 0 ELSE g[n - 1] + terms[n]]

LEMMA RunningExists ==
  ASSUME NEW terms \in Seq(Int)
  PROVE  \E g : IsRunning(g, terms, Len(terms))
<1> DEFINE N == Len(terms)
           f == [n \in 1..N |-> [x \in Int |-> x + terms[n]]]
<1>1. N \in Nat /\ 0 \in Int
  OBVIOUS
<1>2. \A n \in 1..N, x \in Int : f[n][x] = x + terms[n] /\ f[n][x] \in Int
  OBVIOUS
<1> HIDE DEF N, f
<1>3. PICK g : Iterates(g, f, 0, N, Int)
  <2>1. IsLoop(f, N, Int)
    BY <1>2 DEF IsLoop
  <2> QED
    BY <1>1, <2>1, Iteration
<1>4. /\ g \in [0..N -> Int] /\ g[0] = 0
      /\ \A n \in 1..N : g[n] = f[n][g[n - 1]]
  BY <1>3 DEF Iterates
<1>5. \A n \in 0..N : g[n] = IF n = 0 THEN 0 ELSE g[n - 1] + terms[n]
  <2> SUFFICES ASSUME NEW n \in 1..N PROVE g[n] = g[n - 1] + terms[n]
    BY <1>1, <1>4
  <2>1. n - 1 \in 0..N
    BY <1>1
  <2> QED
    BY <1>2, <1>4, <2>1
<1>6. IsRunning(g, terms, N)
  BY <1>4, <1>5 DEF IsRunning
<1> QED
  BY <1>6 DEF N

\* A sum starts at zero, and each round adds its term.
LEMMA RunningSteps ==
  ASSUME NEW terms \in Seq(Int)
  PROVE  /\ Running(terms) \in [0..Len(terms) -> Int]
         /\ Running(terms)[0] = 0
         /\ \A n \in 1..Len(terms) : Running(terms)[n] = Running(terms)[n - 1] + terms[n]
<1> DEFINE N == Len(terms)
           sum == Running(terms)
<1>0. N \in Nat /\ \A n \in 1..N : terms[n] \in Int
  OBVIOUS
<1>1. sum = CHOOSE g : IsRunning(g, terms, N)
  BY DEF Running, IsRunning
<1>2. IsRunning(sum, terms, N)
  BY <1>0, <1>1, RunningExists
<1> HIDE DEF sum, N
<1>3. \A n \in 0..N : sum[n] = IF n = 0 THEN 0 ELSE sum[n - 1] + terms[n]
  BY <1>2 DEF IsRunning
<1>4. sum[0] = 0
  BY <1>0, <1>3
<1>5. \A n \in 1..N : sum[n] = sum[n - 1] + terms[n]
  BY <1>0, <1>3
<1>6. \A n \in 0..N : sum[n] \in Int
  <2> DEFINE T == {n \in 0..N : sum[n] \in Int}
  <2>1. 0 \in T
    BY <1>0, <1>4
  <2>2. ASSUME NEW n \in 0..N - 1, n \in T
        PROVE  n + 1 \in T
    <3>1. n + 1 \in 1..N /\ (n + 1) - 1 = n
      BY <1>0
    <3>2. sum[n + 1] = sum[n] + terms[n + 1]
      BY <1>5, <3>1
    <3> QED
      BY <1>0, <2>2, <3>1, <3>2
  <2> HIDE DEF T
  <2>3. \A n \in 0..N : n \in T
    BY <1>0, <2>1, <2>2, RoundInduction
  <2> QED
    BY <2>3 DEF T
<1>7. sum = [n \in 0..N |-> sum[n]]
  BY <1>2 DEF IsRunning
<1> QED
  BY <1>4, <1>5, <1>6, <1>7 DEF sum, N

LEMMA TotalType ==
  ASSUME NEW terms \in Seq(Int)
  PROVE  Total(terms) \in Int
<1>1. Len(terms) \in 0..Len(terms)
  OBVIOUS
<1> QED
  BY <1>1, RunningSteps DEF Total

Combines(t, u, a, v, b, w, d, k) ==
  /\ t \in Seq(Int) /\ a \in Seq(Int) /\ b \in Seq(Int) /\ d \in Seq(Int)
  /\ Len(a) = Len(t) /\ Len(b) = Len(t) /\ Len(d) = Len(t)
  /\ u \in Int /\ v \in Int /\ w \in Int /\ k \in Int
  /\ \A i \in 1..Len(t) : t[i] = u * a[i] + v * b[i] + w * d[i] + k

\* The sum of a linear combination is the combination of the sums.
LEMMA TotalLinear ==
  ASSUME NEW t, NEW a, NEW b, NEW d, NEW u, NEW v, NEW w, NEW k,
         Combines(t, u, a, v, b, w, d, k)
  PROVE  Total(t) = u * Total(a) + v * Total(b) + w * Total(d) + k * Len(t)
<1> DEFINE N == Len(t)
           rt == Running(t)
           ra == Running(a)
           rb == Running(b)
           rd == Running(d)
           T == {n \in 0..N : rt[n] = u * ra[n] + v * rb[n] + w * rd[n] + k * n}
<1>c. /\ t \in Seq(Int) /\ a \in Seq(Int) /\ b \in Seq(Int) /\ d \in Seq(Int)
      /\ Len(a) = Len(t) /\ Len(b) = Len(t) /\ Len(d) = Len(t)
      /\ u \in Int /\ v \in Int /\ w \in Int /\ k \in Int
      /\ \A i \in 1..Len(t) : t[i] = u * a[i] + v * b[i] + w * d[i] + k
  BY DEF Combines
<1>0. N \in Nat
  BY <1>c
<1>1. /\ rt \in [0..N -> Int] /\ ra \in [0..N -> Int] /\ rb \in [0..N -> Int]
      /\ rd \in [0..N -> Int]
      /\ rt[0] = 0 /\ ra[0] = 0 /\ rb[0] = 0 /\ rd[0] = 0
      /\ \A n \in 1..N : /\ rt[n] = rt[n - 1] + t[n] /\ ra[n] = ra[n - 1] + a[n]
                         /\ rb[n] = rb[n - 1] + b[n] /\ rd[n] = rd[n - 1] + d[n]
  BY <1>c, RunningSteps
<1>2. \A n \in 1..N : /\ t[n] = u * a[n] + v * b[n] + w * d[n] + k
                      /\ a[n] \in Int /\ b[n] \in Int /\ d[n] \in Int
  BY <1>c
<1>3. /\ Total(t) = rt[N] /\ Total(a) = ra[N] /\ Total(b) = rb[N] /\ Total(d) = rd[N]
  BY <1>c DEF Total
<1> HIDE DEF N, rt, ra, rb, rd
<1>4. 0 \in T
  BY <1>c, <1>0, <1>1
<1>5. ASSUME NEW n \in 0..N - 1, n \in T
      PROVE  n + 1 \in T
  <2>1. n + 1 \in 1..N /\ (n + 1) - 1 = n /\ n \in 0..N /\ n + 1 \in 0..N /\ n \in Int
    BY <1>0
  <2>2. /\ rt[n + 1] = rt[n] + t[n + 1] /\ ra[n + 1] = ra[n] + a[n + 1]
        /\ rb[n + 1] = rb[n] + b[n + 1] /\ rd[n + 1] = rd[n] + d[n + 1]
    BY <1>1, <2>1
  <2>3. /\ rt[n] \in Int /\ ra[n] \in Int /\ rb[n] \in Int /\ rd[n] \in Int
        /\ a[n + 1] \in Int /\ b[n + 1] \in Int /\ d[n + 1] \in Int
    BY <1>1, <1>2, <2>1
  <2>4. rt[n] = u * ra[n] + v * rb[n] + w * rd[n] + k * n
    BY <1>5
  <2>5. rt[n] + (u * a[n + 1] + v * b[n + 1] + w * d[n + 1] + k)
          = u * (ra[n] + a[n + 1]) + v * (rb[n] + b[n + 1]) + w * (rd[n] + d[n + 1])
              + k * (n + 1)
    <3> DEFINE R == rt[n]
               A == ra[n]
               B == rb[n]
               C == rd[n]
               a1 == a[n + 1]
               b1 == b[n + 1]
               d1 == d[n + 1]
    <3>1. /\ R \in Int /\ A \in Int /\ B \in Int /\ C \in Int /\ n \in Int
          /\ a1 \in Int /\ b1 \in Int /\ d1 \in Int
          /\ R = u * A + v * B + w * C + k * n
      BY <2>1, <2>3, <2>4
    <3> HIDE DEF R, A, B, C, a1, b1, d1
    <3>2. R + (u * a1 + v * b1 + w * d1 + k)
            = u * (A + a1) + v * (B + b1) + w * (C + d1) + k * (n + 1)
      BY <1>c, <3>1
    <3> QED
      BY <3>2 DEF R, A, B, C, a1, b1, d1
  <2>6. rt[n + 1] = u * ra[n + 1] + v * rb[n + 1] + w * rd[n + 1] + k * (n + 1)
    BY <1>2, <2>1, <2>2, <2>5, Zenon
  <2> QED
    BY <2>1, <2>6
<1> HIDE DEF T
<1>6. \A n \in 0..N : n \in T
  BY <1>0, <1>4, <1>5, RoundInduction
<1>7. N \in T
  BY <1>0, <1>6
<1> QED
  BY <1>3, <1>7 DEF T, N

\* One round of the sum of squared distances from c, and of the spread.
LEMMA DistanceRound ==
  ASSUME NEW q \in Int, NEW s \in Int, NEW n \in Int, NEW c \in Int, NEW x \in Int
  PROVE  (q + x * x) - 2 * c * (s + x) + (n + 1) * c * c
           = (q - 2 * c * s + n * c * c) + (x - c) * (x - c)
OBVIOUS

LEMMA SpreadRound ==
  ASSUME NEW q \in Int, NEW s \in Int, NEW n \in Int, NEW x \in Int
  PROVE  (n + 1) * (q + x * x) - (s + x) * (s + x)
           = (n * q - s * s) + (q - 2 * x * s + n * x * x)
OBVIOUS

LEMMA SquareFacts ==
  ASSUME NEW z \in Int
  PROVE  z * z >= 0 /\ (z # 0 => z * z > 0)
OBVIOUS

\* The squared distances from any c add up to no less than the first one.
LEMMA DistanceSum ==
  ASSUME NEW x \in Seq(Int), NEW xx \in Seq(Int), Len(xx) = Len(x),
         \A i \in 1..Len(x) : xx[i] = x[i] * x[i],
         NEW c \in Int, NEW n \in 0..Len(x)
  PROVE  LET D == Running(xx)[n] - 2 * c * Running(x)[n] + n * c * c
         IN  D >= 0 /\ (n >= 1 => D >= (x[1] - c) * (x[1] - c))
<1> DEFINE N == Len(x)
           s == Running(x)
           q == Running(xx)
           D(k) == q[k] - 2 * c * s[k] + k * c * c
           T == {k \in 0..N : D(k) >= 0 /\ (k >= 1 => D(k) >= (x[1] - c) * (x[1] - c))}
<1>0. N \in Nat /\ \A k \in 1..N : x[k] \in Int /\ xx[k] = x[k] * x[k]
  OBVIOUS
<1>1. /\ s \in [0..N -> Int] /\ q \in [0..N -> Int] /\ s[0] = 0 /\ q[0] = 0
      /\ \A k \in 1..N : s[k] = s[k - 1] + x[k] /\ q[k] = q[k - 1] + xx[k]
  BY RunningSteps
<1> HIDE DEF N, s, q
<1>2. D(0) = 0
  BY <1>0, <1>1
<1>3. ASSUME NEW k \in 0..N - 1
      PROVE  /\ D(k) \in Int /\ D(k + 1) = D(k) + (x[k + 1] - c) * (x[k + 1] - c)
             /\ x[k + 1] \in Int
  <2>1. k + 1 \in 1..N /\ (k + 1) - 1 = k /\ k \in 0..N /\ k \in Int
    BY <1>0
  <2>2. s[k + 1] = s[k] + x[k + 1] /\ q[k + 1] = q[k] + x[k + 1] * x[k + 1]
    BY <1>0, <1>1, <2>1
  <2>3. s[k] \in Int /\ q[k] \in Int /\ x[k + 1] \in Int
    BY <1>0, <1>1, <2>1
  <2> DEFINE S == s[k]
             Q == q[k]
             z == x[k + 1]
  <2>4. S \in Int /\ Q \in Int /\ z \in Int
    BY <2>3
  <2>5. /\ D(k) = Q - 2 * c * S + k * c * c
        /\ D(k + 1) = (Q + z * z) - 2 * c * (S + z) + (k + 1) * c * c
    BY <2>2
  <2> HIDE DEF D, S, Q, z
  <2>6. D(k) \in Int /\ D(k + 1) = D(k) + (z - c) * (z - c)
    BY <2>1, <2>4, <2>5, DistanceRound
  <2> QED
    BY <2>4, <2>6 DEF z
<1> HIDE DEF D
<1>4. 0 \in T
  BY <1>0, <1>2
<1>5. ASSUME NEW k \in 0..N - 1, k \in T
      PROVE  k + 1 \in T
  <2> DEFINE e == (x[k + 1] - c) * (x[k + 1] - c)
  <2>1. e >= 0 /\ e \in Int
    <3>1. x[k + 1] - c \in Int
      BY <1>3
    <3> QED
      BY <3>1, SquareFacts
  <2>2. D(k + 1) = D(k) + e /\ D(k) \in Int
    BY <1>3
  <2>3. k = 0 => e = (x[1] - c) * (x[1] - c)
    OBVIOUS
  <2>4. (x[1] - c) * (x[1] - c) \in Int
    <3>1. 1 \in 1..N
      BY <1>0
    <3>2. x[1] - c \in Int
      BY <1>0, <3>1
    <3> QED
      BY <3>2
  <2> HIDE DEF e
  <2>5. k + 1 \in 0..N /\ k \in Nat
    BY <1>0
  <2>6. D(k + 1) >= 0
    BY <1>5, <2>1, <2>2
  <2>7. D(k + 1) >= (x[1] - c) * (x[1] - c)
    <3> DEFINE f == (x[1] - c) * (x[1] - c)
    <3>1. f \in Int /\ (k = 0 => e = f) /\ (k >= 1 => D(k) >= f) /\ D(k) >= 0
      BY <1>5, <2>3, <2>4
    <3> HIDE DEF f
    <3>2. D(k + 1) >= f
      BY <2>1, <2>2, <2>5, <3>1
    <3> QED
      BY <3>2 DEF f
  <2> QED
    BY <2>5, <2>6, <2>7
<1> HIDE DEF T
<1>6. \A k \in 0..N : k \in T
  BY <1>0, <1>4, <1>5, RoundInduction
<1>7. n \in T
  BY <1>6 DEF N
<1> QED
  BY <1>7 DEF T, D, s, q

\* Two numbers that differ have a positive spread, whatever else is added.
LEMMA SpreadIsPositive ==
  ASSUME NEW x \in Seq(Int), NEW xx \in Seq(Int), Len(xx) = Len(x),
         \A i \in 1..Len(x) : xx[i] = x[i] * x[i],
         Len(x) >= 2, x[1] # x[2]
  PROVE  Len(x) * Total(xx) - Total(x) * Total(x) > 0
<1> DEFINE N == Len(x)
           s == Running(x)
           q == Running(xx)
           V(k) == k * q[k] - s[k] * s[k]
           T == {k \in 0..N : V(k) >= 0 /\ (k >= 2 => V(k) > 0)}
<1>0. N \in Nat /\ \A k \in 1..N : x[k] \in Int /\ xx[k] = x[k] * x[k]
  OBVIOUS
<1>1. /\ s \in [0..N -> Int] /\ q \in [0..N -> Int] /\ s[0] = 0 /\ q[0] = 0
      /\ \A k \in 1..N : s[k] = s[k - 1] + x[k] /\ q[k] = q[k - 1] + xx[k]
  BY RunningSteps
<1>2. \A k \in 0..N, c \in Int :
        LET D == q[k] - 2 * c * s[k] + k * c * c
        IN  D >= 0 /\ (k >= 1 => D >= (x[1] - c) * (x[1] - c))
  BY DistanceSum
<1>3. Total(x) = s[N] /\ Total(xx) = q[N] /\ N >= 2
  BY DEF Total
<1> HIDE DEF N, s, q
<1>4. V(0) = 0
  BY <1>0, <1>1
<1>5. ASSUME NEW k \in 0..N - 1
      PROVE  /\ V(k) \in Int
             /\ V(k + 1) \in Int /\ V(k + 1) >= V(k)
             /\ k = 1 => V(k + 1) > V(k)
  <2> DEFINE c == x[k + 1]
             D == q[k] - 2 * c * s[k] + k * c * c
             e == (x[1] - c) * (x[1] - c)
  <2>1. k + 1 \in 1..N /\ (k + 1) - 1 = k /\ k \in 0..N /\ k \in Int
    BY <1>0
  <2>2. s[k + 1] = s[k] + c /\ q[k + 1] = q[k] + c * c
    BY <1>0, <1>1, <2>1
  <2>3. s[k] \in Int /\ q[k] \in Int /\ c \in Int /\ x[1] \in Int
    <3>1. 1 \in 1..N
      BY <1>0, <1>3
    <3> QED
      BY <1>0, <1>1, <2>1, <3>1
  <2>4. D >= 0 /\ (k >= 1 => D >= e)
    BY <1>2, <2>1, <2>3
  <2>5. k = 1 => e > 0
    <3>1. k = 1 => x[1] - c # 0 /\ x[1] - c \in Int
      BY <2>3
    <3> QED
      BY <3>1, SquareFacts
  <2>6. /\ V(k + 1) = V(k) + D
        /\ V(k) \in Int /\ D \in Int /\ e \in Int
    <3> DEFINE S == s[k]
               Q == q[k]
               b == x[1]
    <3>1. S \in Int /\ Q \in Int /\ c \in Int /\ b \in Int /\ k \in Int
      BY <2>1, <2>3
    <3>2. /\ V(k) = k * Q - S * S /\ e = (b - c) * (b - c)
          /\ V(k + 1) = (k + 1) * (Q + c * c) - (S + c) * (S + c)
          /\ D = Q - 2 * c * S + k * c * c
      BY <2>2
    <3> HIDE DEF V, D, e, S, Q, b, c
    <3>3. V(k + 1) = V(k) + D
      BY <3>1, <3>2, SpreadRound
    <3>4. D \in Int /\ e \in Int /\ V(k) \in Int
      BY <3>1, <3>2
    <3> QED
      BY <3>3, <3>4
  <2> HIDE DEF D, e, V
  <2> QED
    BY <2>1, <2>4, <2>5, <2>6
<1> HIDE DEF V
<1>6. 0 \in T
  BY <1>0, <1>4
<1>7. ASSUME NEW k \in 0..N - 1, k \in T
      PROVE  k + 1 \in T
  <2>1. k + 1 \in 0..N /\ k \in Nat
    BY <1>0
  <2> QED
    BY <1>5, <1>7, <2>1
<1> HIDE DEF T
<1>8. \A k \in 0..N : k \in T
  BY <1>0, <1>6, <1>7, RoundInduction
<1>9. V(N) > 0
  BY <1>0, <1>3, <1>8 DEF T
<1> QED
  BY <1>3, <1>9 DEF V, N

-----------------------------------------------------------------------------
(* The line *)

\* No stamp is fitted twice.
Distinct(window) ==
  \A i, j \in DOMAIN window : window[i].raw = window[j].raw => i = j

Xs(window) == [i \in 1..Len(window) |-> X(window, window[i].raw)]
Ys(window) == [i \in 1..Len(window) |-> Y(window[i])]
XXs(window) == [i \in 1..Len(window) |-> Xs(window)[i] * Xs(window)[i]]
XYs(window) == [i \in 1..Len(window) |-> Xs(window)[i] * Ys(window)[i]]

\* The offsets gained per nanosecond, over line.unit.
Slope(line) == line.rise * (line.unit \div line.run)

LEMMA IntSequence ==
  ASSUME NEW n \in Nat, NEW f, f = [i \in 1..n |-> f[i]], \A i \in 1..n : f[i] \in Int
  PROVE  f \in Seq(Int) /\ Len(f) = n
OBVIOUS

LEMMA TermsType ==
  ASSUME NEW window \in Seq(Sample), window # << >>
  PROVE  /\ Len(window) \in Nat \ {0}
         /\ \A i \in 1..Len(window) :
              /\ window[i].raw \in Int /\ window[i].session \in Int
              /\ Xs(window)[i] = window[i].raw - window[1].raw /\ Xs(window)[i] \in Int
              /\ Ys(window)[i] = window[i].session - window[i].raw
              /\ Ys(window)[i] \in Int
              /\ XXs(window)[i] = Xs(window)[i] * Xs(window)[i]
              /\ XYs(window)[i] = Xs(window)[i] * Ys(window)[i]
         /\ Xs(window) \in Seq(Int) /\ Len(Xs(window)) = Len(window)
         /\ Ys(window) \in Seq(Int) /\ Len(Ys(window)) = Len(window)
         /\ XXs(window) \in Seq(Int) /\ Len(XXs(window)) = Len(window)
         /\ XYs(window) \in Seq(Int) /\ Len(XYs(window)) = Len(window)
<1> DEFINE n == Len(window)
<1>1. n \in Nat /\ n # 0
  OBVIOUS
<1>2. \A i \in 1..n : window[i].raw \in Int /\ window[i].session \in Int
  <2>1. \A i \in 1..n : window[i] \in Sample
    OBVIOUS
  <2> QED
    BY <2>1 DEF Sample
<1>3. 1 \in 1..n
  BY <1>1
<1>4. \A i \in 1..n : /\ Xs(window)[i] = window[i].raw - window[1].raw
                      /\ Ys(window)[i] = window[i].session - window[i].raw
  BY DEF Xs, Ys, X, Y
<1>5. \A i \in 1..n : Xs(window)[i] \in Int /\ Ys(window)[i] \in Int
  BY <1>2, <1>3, <1>4
<1>6. \A i \in 1..n : /\ XXs(window)[i] = Xs(window)[i] * Xs(window)[i]
                      /\ XYs(window)[i] = Xs(window)[i] * Ys(window)[i]
  BY DEF XXs, XYs
<1>7. \A i \in 1..n : XXs(window)[i] \in Int /\ XYs(window)[i] \in Int
  BY <1>5, <1>6
<1>8. /\ Xs(window) = [i \in 1..n |-> Xs(window)[i]]
      /\ Ys(window) = [i \in 1..n |-> Ys(window)[i]]
      /\ XXs(window) = [i \in 1..n |-> XXs(window)[i]]
      /\ XYs(window) = [i \in 1..n |-> XYs(window)[i]]
  BY DEF Xs, Ys, XXs, XYs
<1> HIDE DEF n
<1> QED
  BY <1>1, <1>2, <1>4, <1>5, <1>6, <1>7, <1>8, IntSequence DEF n

LEMMA MomentFacts ==
  ASSUME NEW window \in Seq(Sample), window # << >>
  PROVE  LET m == Moments(window)
             sxx == Total(XXs(window))
             sxy == Total(XYs(window))
         IN  /\ m.n = Len(window) /\ m.n \in Nat \ {0}
             /\ m.sx = Total(Xs(window)) /\ m.sx \in Int
             /\ m.sy = Total(Ys(window)) /\ m.sy \in Int
             /\ sxx \in Int /\ sxy \in Int
             /\ m.var = m.n * sxx - m.sx * m.sx /\ m.var \in Int
             /\ m.cov = m.n * sxy - m.sx * m.sy /\ m.cov \in Int
<1> DEFINE n == Len(window)
           sx == Total(Xs(window))
           sy == Total(Ys(window))
           sxx == Total(XXs(window))
           sxy == Total(XYs(window))
<1>1. /\ n \in Nat \ {0} /\ sx \in Int /\ sy \in Int /\ sxx \in Int /\ sxy \in Int
  BY TermsType, TotalType
<1>2. Moments(window) = [n |-> n, sx |-> sx, sy |-> sy, var |-> n * sxx - sx * sx,
                         cov |-> n * sxy - sx * sy]
  BY DEF Moments, Xs, Ys, XXs, XYs
<1> HIDE DEF n, sx, sy, sxx, sxy
<1>3. n * sxx - sx * sx \in Int /\ n * sxy - sx * sy \in Int
  BY <1>1
<1> QED
  BY <1>1, <1>2, <1>3 DEF n, sx, sy, sxx, sxy

\* An exact quotient.
LEMMA ExactQuotient ==
  ASSUME NEW n \in Nat, NEW v \in Nat \ {0}
  PROVE  (n * v) \div v = n
OBVIOUS

\* The normal equations: the line that Line computes solves them, over its
\* unit, for every window of distinct stamps.
LEMMA NormalEquations ==
  ASSUME NEW window \in Seq(Sample), window # << >>, Distinct(window)
  PROVE  LET line == Line(window)
             c == Slope(line)
             sx == Total(Xs(window))
         IN  /\ line.unit \in Nat \ {0} /\ line.run \in Nat \ {0}
             /\ line.base \in Int /\ line.rise \in Int /\ c \in Int
             /\ line.unit * Total(Ys(window)) = Len(window) * line.base + c * sx
             /\ line.unit * Total(XYs(window)) = line.base * sx + c * Total(XXs(window))
<1> DEFINE m == Moments(window)
           line == Line(window)
           c == Slope(line)
           n == Len(window)
           sx == Total(Xs(window))
           sy == Total(Ys(window))
           sxx == Total(XXs(window))
           sxy == Total(XYs(window))
           var == n * sxx - sx * sx
           cov == n * sxy - sx * sy
<1>1. /\ n \in Nat \ {0} /\ sx \in Int /\ sy \in Int /\ sxx \in Int /\ sxy \in Int
      /\ var \in Int /\ cov \in Int
  BY MomentFacts
<1>2. line = IF var > 0
             THEN [rise |-> cov, run |-> var, base |-> sy * var - cov * sx,
                   unit |-> n * var]
             ELSE [rise |-> 0, run |-> 1, base |-> sy, unit |-> n]
  <2>1. m.n = n /\ m.sx = sx /\ m.sy = sy /\ m.var = var /\ m.cov = cov
    BY MomentFacts
  <2> HIDE DEF m, n, sx, sy, var, cov
  <2>2. line = IF m.var > 0
               THEN [rise |-> m.cov, run |-> m.var, base |-> m.sy * m.var - m.cov * m.sx,
                     unit |-> m.n * m.var]
               ELSE [rise |-> 0, run |-> 1, base |-> m.sy, unit |-> m.n]
    BY DEF Line, Intercept, m
  <2> QED
    BY <2>1, <2>2
<1>3. CASE n >= 2
  <2>1. var > 0
    <3>1. 1 \in DOMAIN window /\ 2 \in DOMAIN window /\ 1 \in 1..n /\ 2 \in 1..n
      BY <1>1, <1>3
    <3>2. window[1].raw # window[2].raw
      BY <3>1 DEF Distinct
    <3>3. Xs(window)[1] # Xs(window)[2]
      <4>1. /\ Xs(window)[1] = window[1].raw - window[1].raw
            /\ Xs(window)[2] = window[2].raw - window[1].raw
            /\ window[1].raw \in Int /\ window[2].raw \in Int
        BY <3>1, TermsType
      <4> QED
        BY <3>2, <4>1
    <3>4. /\ Xs(window) \in Seq(Int) /\ XXs(window) \in Seq(Int)
          /\ Len(Xs(window)) = n /\ Len(XXs(window)) = n
          /\ \A i \in 1..Len(Xs(window)) : XXs(window)[i] = Xs(window)[i] * Xs(window)[i]
      BY TermsType
    <3> QED
      BY <1>3, <3>3, <3>4, SpreadIsPositive
  <2> DEFINE b == sy * var - cov * sx
             u == n * var
  <2>2. line.rise = cov /\ line.run = var /\ line.base = b /\ line.unit = u
    BY <1>2, <2>1
  <2>3. u \in Nat \ {0} /\ var \in Nat \ {0} /\ b \in Int
    <3> HIDE DEF sx, sy, n, var, cov
    <3>1. var \in Nat \ {0} /\ n \in Nat \ {0}
      BY <1>1, <2>1
    <3>2. n * var \in Nat /\ n * var # 0
      BY <3>1
    <3> QED
      BY <1>1, <3>1, <3>2
  <2>4. c = cov * n
    <3>1. u \div var = n
      <4> HIDE DEF var, n
      <4> QED
        BY <1>1, <2>3, ExactQuotient
    <3> HIDE DEF u, var, cov, n, line
    <3> QED
      BY <2>2, <3>1 DEF Slope
  <2> HIDE DEF n, sx, sy, sxx, sxy, line, c
  <2>5. u * sy = n * b + cov * n * sx
    BY <1>1
  <2>6. u * sxy = b * sx + cov * n * sxx
    BY <1>1
  <2>7. cov * n \in Int
    BY <1>1
  <2> QED
    BY <1>1, <2>2, <2>3, <2>4, <2>5, <2>6, <2>7 DEF n, sx, sy, sxx, sxy, line, c
<1>4. CASE n = 1
  <2>1. sx = 0 /\ sxx = 0 /\ sxy = 0
    <3>1. 1 \in 1..n
      BY <1>4
    <3>2. Xs(window)[1] = 0
      <4>1. Xs(window)[1] = window[1].raw - window[1].raw /\ window[1].raw \in Int
        BY <3>1, TermsType
      <4> QED
        BY <4>1
    <3>3. XXs(window)[1] = 0 /\ XYs(window)[1] = 0
      <4>1. XXs(window)[1] = 0 * 0 /\ XYs(window)[1] = 0 * Ys(window)[1]
            /\ Ys(window)[1] \in Int
        BY <3>1, <3>2, TermsType
      <4> QED
        BY <4>1
    <3>4. ASSUME NEW f \in Seq(Int), Len(f) = 1, f[1] = 0
          PROVE  Total(f) = 0
      <4>1. Running(f)[0] = 0 /\ Running(f)[1] = Running(f)[1 - 1] + f[1]
        <5>1. 1 \in 1..Len(f)
          BY <3>4
        <5> QED
          BY <5>1, RunningSteps
      <4>2. Total(f) = Running(f)[1] /\ 1 - 1 = 0
        BY <3>4 DEF Total
      <4> QED
        BY <3>4, <4>1, <4>2
    <3>5. /\ Xs(window) \in Seq(Int) /\ Len(Xs(window)) = 1
          /\ XXs(window) \in Seq(Int) /\ Len(XXs(window)) = 1
          /\ XYs(window) \in Seq(Int) /\ Len(XYs(window)) = 1
      BY <1>4, TermsType
    <3> QED
      BY <3>2, <3>3, <3>4, <3>5
  <2>2. ~(var > 0)
    BY <1>4, <2>1
  <2>3. line.rise = 0 /\ line.run = 1 /\ line.base = sy /\ line.unit = 1
    BY <1>2, <1>4, <2>2
  <2>4. c = 0
    <3> HIDE DEF line
    <3> QED
      BY <2>3 DEF Slope
  <2> HIDE DEF n, sx, sy, sxx, sxy, line, c
  <2> QED
    BY <1>1, <1>4, <2>1, <2>3, <2>4 DEF n, sx, sy, sxx, sxy, line, c
<1> HIDE DEF n
<1>5. n >= 2 \/ n = 1
  BY <1>1
<1> QED
  BY <1>3, <1>4, <1>5 DEF n

LEMMA ResidualForm ==
  ASSUME NEW window \in Seq(Sample), window # << >>, Distinct(window),
         NEW i \in 1..Len(window)
  PROVE  LET line == Line(window)
         IN  /\ Residual(window, line, i)
                  = line.unit * Ys(window)[i] + (-Slope(line)) * Xs(window)[i]
                      - line.base
             /\ Residual(window, line, i) \in Int
<1> DEFINE line == Line(window)
           u == line.unit
           b == line.base
           a == line.rise
           d == line.unit \div line.run
           x == Xs(window)[i]
           y == Ys(window)[i]
<1>1. u \in Nat \ {0} /\ b \in Int /\ a \in Int /\ Slope(line) = a * d /\ d \in Int
  <2>1. u \in Nat \ {0} /\ b \in Int /\ a \in Int /\ line.run \in Nat \ {0}
    BY NormalEquations
  <2> QED
    BY <2>1 DEF Slope
<1>2. x \in Int /\ y \in Int /\ X(window, window[i].raw) = x /\ Y(window[i]) = y
  BY TermsType DEF X, Y
<1>3. Residual(window, line, i) = y * u - (b + x * a * d)
  BY <1>2 DEF Residual, OffsetAt
<1> HIDE DEF line, u, b, a, d, x, y
<1>4. /\ y * u - (b + x * a * d) = u * y + (-(a * d)) * x - b
      /\ y * u - (b + x * a * d) \in Int
  BY <1>1, <1>2
<1> QED
  BY <1>1, <1>3, <1>4 DEF line, u, b, x, y

\* The line of any window of distinct stamps is its least-squares line: the
\* residuals sum to zero, and so do the residuals weighted by the stamps.
THEOREM LineIsLeastSquares ==
  ASSUME NEW window \in Seq(Sample), window # << >>, Distinct(window)
  PROVE  LET residual == [i \in DOMAIN window |-> Residual(window, Line(window), i)]
         IN  /\ Total(residual) = 0
             /\ Total([i \in DOMAIN window |-> window[i].raw * residual[i]]) = 0
<1> DEFINE line == Line(window)
           n == Len(window)
           u == line.unit
           b == line.base
           c == Slope(line)
           x == Xs(window)
           y == Ys(window)
           xx == XXs(window)
           xy == XYs(window)
           raw == window[1].raw
           res == [i \in DOMAIN window |-> Residual(window, Line(window), i)]
           xres == [i \in DOMAIN window |-> x[i] * res[i]]
           wres == [i \in DOMAIN window |-> window[i].raw * res[i]]
<1>1. /\ DOMAIN window = 1..n /\ n \in Nat \ {0} /\ 1 \in 1..n
      /\ x \in Seq(Int) /\ y \in Seq(Int) /\ xx \in Seq(Int) /\ xy \in Seq(Int)
      /\ Len(x) = n /\ Len(y) = n /\ Len(xx) = n /\ Len(xy) = n
      /\ \A i \in 1..n : /\ x[i] \in Int /\ y[i] \in Int /\ window[i].raw \in Int
                         /\ x[i] = window[i].raw - raw
                         /\ xx[i] = x[i] * x[i] /\ xy[i] = x[i] * y[i]
  BY TermsType
<1>2. /\ u \in Int /\ b \in Int /\ c \in Int
      /\ u * Total(y) = n * b + c * Total(x)
      /\ u * Total(xy) = b * Total(x) + c * Total(xx)
  BY NormalEquations
<1>3. \A i \in 1..n : res[i] = u * y[i] + (-c) * x[i] - b /\ res[i] \in Int
  BY <1>1, ResidualForm
<1>4. raw \in Int /\ Total(x) \in Int /\ Total(y) \in Int /\ Total(xx) \in Int
      /\ Total(xy) \in Int
  BY <1>1, TotalType
<1>5. /\ res = [i \in 1..n |-> res[i]]
      /\ \A i \in 1..n : xres[i] = x[i] * res[i] /\ wres[i] = window[i].raw * res[i]
      /\ xres = [i \in 1..n |-> xres[i]] /\ wres = [i \in 1..n |-> wres[i]]
  BY <1>1
<1> HIDE DEF line, n, u, b, c, x, y, xx, xy, raw, res, xres, wres
<1>6. ASSUME NEW i \in 1..n
      PROVE  xres[i] \in Int /\ wres[i] \in Int
  <2> DEFINE p == x[i]
             w == window[i].raw
             e == res[i]
  <2>1. p \in Int /\ w \in Int /\ e \in Int /\ xres[i] = p * e /\ wres[i] = w * e
    BY <1>1, <1>3, <1>5
  <2> HIDE DEF p, w, e
  <2> QED
    BY <2>1
<1>7. n \in Nat
  BY <1>1
<1>8. /\ res \in Seq(Int) /\ Len(res) = n /\ xres \in Seq(Int) /\ Len(xres) = n
      /\ wres \in Seq(Int) /\ Len(wres) = n
  BY <1>3, <1>5, <1>6, <1>7, IntSequence
<1>9. Total(res) = 0
  <2>1. \A i \in 1..Len(res) : res[i] = u * y[i] + (-c) * x[i] + 0 * x[i] + (-b)
    <3> SUFFICES ASSUME NEW i \in 1..n
                 PROVE  res[i] = u * y[i] + (-c) * x[i] + 0 * x[i] + (-b)
      BY <1>8
    <3> DEFINE p == x[i]
               q == y[i]
    <3>1. p \in Int /\ q \in Int /\ res[i] = u * q + (-c) * p - b
      BY <1>1, <1>3
    <3> HIDE DEF p, q
    <3>2. u * q + (-c) * p - b = u * q + (-c) * p + 0 * p + (-b)
      BY <1>2, <3>1
    <3> QED
      BY <3>1, <3>2 DEF p, q
  <2>2. /\ res \in Seq(Int) /\ y \in Seq(Int) /\ x \in Seq(Int)
        /\ Len(y) = Len(res) /\ Len(x) = Len(res)
        /\ u \in Int /\ -c \in Int /\ 0 \in Int /\ -b \in Int
    BY <1>1, <1>2, <1>8
  <2>3. Total(res) = u * Total(y) + (-c) * Total(x) + 0 * Total(x) + (-b) * Len(res)
    <3>1. Combines(res, u, y, -c, x, 0, x, -b)
      BY <2>1, <2>2 DEF Combines
    <3> QED
      BY <3>1, TotalLinear
  <2> DEFINE sx == Total(x)
             sy == Total(y)
  <2>s. sx \in Int /\ sy \in Int /\ u * sy = n * b + c * sx
    BY <1>2, <1>4
  <2> HIDE DEF sx, sy
  <2>4. u * sy + (-c) * sx + 0 * sx + (-b) * n = 0
    BY <1>2, <1>7, <2>s
  <2> QED
    BY <1>8, <2>3, <2>4 DEF sx, sy
<1>10. Total(xres) = 0
  <2>1. \A i \in 1..Len(xres) : xres[i] = u * xy[i] + (-b) * x[i] + (-c) * xx[i] + 0
    <3> SUFFICES ASSUME NEW i \in 1..n
                 PROVE  xres[i] = u * xy[i] + (-b) * x[i] + (-c) * xx[i] + 0
      BY <1>8
    <3> DEFINE p == x[i]
               q == y[i]
    <3>1. /\ p \in Int /\ q \in Int /\ xx[i] = p * p /\ xy[i] = p * q
          /\ xres[i] = p * (u * q + (-c) * p - b)
      BY <1>1, <1>3, <1>5
    <3> HIDE DEF p, q
    <3>2. p * (u * q + (-c) * p - b) = u * (p * q) + (-b) * p + (-c) * (p * p) + 0
      BY <1>2, <3>1
    <3> QED
      BY <3>1, <3>2 DEF p
  <2>2. /\ xres \in Seq(Int) /\ xy \in Seq(Int) /\ x \in Seq(Int) /\ xx \in Seq(Int)
        /\ Len(xy) = Len(xres) /\ Len(x) = Len(xres) /\ Len(xx) = Len(xres)
        /\ u \in Int /\ -b \in Int /\ -c \in Int /\ 0 \in Int
    BY <1>1, <1>2, <1>8
  <2>3. Total(xres) = u * Total(xy) + (-b) * Total(x) + (-c) * Total(xx) + 0 * Len(xres)
    <3>1. Combines(xres, u, xy, -b, x, -c, xx, 0)
      BY <2>1, <2>2 DEF Combines
    <3> QED
      BY <3>1, TotalLinear
  <2> DEFINE sx == Total(x)
             sxx == Total(xx)
             sxy == Total(xy)
  <2>s. sx \in Int /\ sxx \in Int /\ sxy \in Int /\ u * sxy = b * sx + c * sxx
    BY <1>2, <1>4
  <2> HIDE DEF sx, sxx, sxy
  <2>4. u * sxy + (-b) * sx + (-c) * sxx + 0 * n = 0
    BY <1>2, <1>7, <2>s
  <2> QED
    BY <1>8, <2>3, <2>4 DEF sx, sxx, sxy
<1>11. Total(wres) = 0
  <2>1. \A i \in 1..Len(wres) : wres[i] = 1 * xres[i] + raw * res[i] + 0 * res[i] + 0
    <3> SUFFICES ASSUME NEW i \in 1..n
                 PROVE  wres[i] = 1 * xres[i] + raw * res[i] + 0 * res[i] + 0
      BY <1>8
    <3> DEFINE p == x[i]
               w == window[i].raw
               e == res[i]
    <3>1. /\ p \in Int /\ w \in Int /\ e \in Int /\ p = w - raw
          /\ wres[i] = w * e /\ xres[i] = p * e
      BY <1>1, <1>3, <1>5
    <3> HIDE DEF p, w, e
    <3>2. w * e = 1 * (p * e) + raw * e + 0 * e + 0
      BY <1>4, <3>1
    <3> QED
      BY <3>1, <3>2 DEF e
  <2>2. /\ wres \in Seq(Int) /\ xres \in Seq(Int) /\ res \in Seq(Int)
        /\ Len(xres) = Len(wres) /\ Len(res) = Len(wres)
        /\ 1 \in Int /\ raw \in Int /\ 0 \in Int
    BY <1>4, <1>8
  <2>3. Total(wres) = 1 * Total(xres) + raw * Total(res) + 0 * Total(res) + 0 * Len(wres)
    <3>1. Combines(wres, 1, xres, raw, res, 0, res, 0)
      BY <2>1, <2>2 DEF Combines
    <3> QED
      BY <3>1, TotalLinear
  <2> QED
    BY <1>1, <1>4, <1>8, <1>9, <1>10, <2>3
<1> QED
  BY <1>9, <1>11 DEF res, wres

-----------------------------------------------------------------------------
(* The values read off the line *)

LEMMA Quotient ==
  ASSUME NEW a \in Nat, NEW b \in Nat \ {0}
  PROVE  a \div b \in Nat /\ b * (a \div b) <= a /\ a < b * (a \div b) + b
OBVIOUS

LEMMA MultiplesCompare ==
  ASSUME NEW u \in Nat \ {0}, NEW a \in Int, NEW b \in Int, u * a < u * b
  PROVE  a < b
OBVIOUS

\* RoundedUnsigned is within half a unit, for every value that is not negative.
LEMMA RoundsToNearest ==
  ASSUME NEW num \in Nat, NEW u \in Nat \ {0}
  PROVE  LET r == RoundedUnsigned(num, u)
         IN  /\ r \in Nat
             /\ 2 * u * r <= 2 * num + u /\ 2 * num + u < 2 * u * r + 2 * u
<1>1. CASE num = 0
  BY <1>1 DEF RoundedUnsigned
<1>2. CASE num # 0
  <2> DEFINE r == (2 * num + u) \div (2 * u)
  <2>1. RoundedUnsigned(num, u) = r
    BY <1>2 DEF RoundedUnsigned, Rounded
  <2>2. 2 * num + u \in Nat /\ 2 * u \in Nat \ {0}
    OBVIOUS
  <2>3. r \in Nat /\ (2 * u) * r <= 2 * num + u /\ 2 * num + u < (2 * u) * r + 2 * u
    <3> DEFINE a == 2 * num + u
               b == 2 * u
    <3> HIDE DEF a, b
    <3>1. a \in Nat /\ b \in Nat \ {0}
      BY <2>2 DEF a, b
    <3>2. a \div b \in Nat /\ b * (a \div b) <= a /\ a < b * (a \div b) + b
      BY <3>1, Quotient
    <3> QED
      BY <3>2 DEF a, b
  <2> HIDE DEF r
  <2> QED
    BY <2>1, <2>3
<1> QED
  BY <1>1, <1>2

\* The offset is within half a unit too; a half is rounded away from zero.
LEMMA RoundsOffset ==
  ASSUME NEW num \in Int, NEW u \in Nat \ {0}
  PROVE  LET r == Rounded(num, u)
         IN  /\ r \in Int
             /\ 2 * num - u <= 2 * u * r /\ 2 * u * r <= 2 * num + u
<1>1. CASE num >= 0
  <2> DEFINE r == (2 * num + u) \div (2 * u)
             a == 2 * num + u
             b == 2 * u
  <2>1. Rounded(num, u) = r
    BY <1>1 DEF Rounded
  <2>2. a \in Nat /\ b \in Nat \ {0} /\ r = a \div b
    BY <1>1
  <2>3. r \in Nat /\ b * r <= a /\ a < b * r + b
    <3> HIDE DEF a, b, r
    <3> QED
      BY <2>2, Quotient
  <2> HIDE DEF r
  <2> QED
    BY <1>1, <2>1, <2>3
<1>2. CASE num < 0
  <2> DEFINE q == (u - 2 * num) \div (2 * u)
             a == u - 2 * num
             b == 2 * u
  <2>1. Rounded(num, u) = -q
    BY <1>2 DEF Rounded
  <2>2. a \in Nat /\ b \in Nat \ {0} /\ q = a \div b
    BY <1>2
  <2>3. q \in Nat /\ b * q <= a /\ a < b * q + b
    <3> HIDE DEF a, b, q
    <3> QED
      BY <2>2, Quotient
  <2> HIDE DEF q
  <2> QED
    BY <1>2, <2>1, <2>3
<1> QED
  BY <1>1, <1>2

\* Rounded separately, offset and mapped stamp agree to a nanosecond.
LEMMA RoundingsAgree ==
  ASSUME NEW raw \in Nat, NEW off \in Int, NEW u \in Nat \ {0},
         RoundedUnsigned(raw * u + off, u) # 0
  PROVE  LET mapped == RoundedUnsigned(raw * u + off, u)
         IN  mapped \in Nat /\ mapped - raw - Rounded(off, u) \in {0, 1}
<1> DEFINE num == raw * u + off
           M == RoundedUnsigned(num, u)
           O == Rounded(off, u)
<1>1. num \in Int /\ num > 0
  <2>1. num \in Int
    OBVIOUS
  <2> HIDE DEF num
  <2>2. num > 0
    BY <2>1 DEF RoundedUnsigned, num
  <2> QED
    BY <2>1, <2>2
<1>2. M \in Nat /\ 2 * u * M <= 2 * num + u /\ 2 * num + u < 2 * u * M + 2 * u
  <2> HIDE DEF num
  <2>1. num \in Nat
    BY <1>1
  <2> QED
    BY <2>1, RoundsToNearest
<1>3. /\ O \in Int /\ 2 * off - u <= 2 * u * O /\ 2 * u * O <= 2 * off + u
  BY RoundsOffset
<1> HIDE DEF M, O
<1> DEFINE d == M - raw - O
           v == 2 * u
<1>4. v \in Nat \ {0} /\ d \in Int
  BY <1>2, <1>3
<1>5. v * (d - 1) < v * 1 /\ v * (-1) < v * d
  <2>1. v * d = 2 * u * M - 2 * u * raw - 2 * u * O
    BY <1>2, <1>3
  <2>2. 2 * num = 2 * u * raw + 2 * off
    OBVIOUS
  <2> DEFINE a == 2 * u * M
             b == 2 * u * raw
             c == 2 * u * O
             e == v * d
             w == 2 * num
  <2>3. /\ a \in Int /\ b \in Int /\ c \in Int /\ e = a - b - c /\ w = b + 2 * off
        /\ a <= w + u /\ w + u < a + v /\ 2 * off - u <= c /\ c <= 2 * off + u
        /\ v = 2 * u
        /\ v * (d - 1) = e - v /\ v * 1 = v /\ v * (-1) = -v
    BY <1>2, <1>3, <1>4, <2>1, <2>2
  <2>4. v \in Int
    BY <1>4
  <2> HIDE DEF a, b, c, e, w, v, d, num
  <2>5. e - v < v
    BY <2>3, <2>4
  <2>6. -v < e
    BY <2>3, <2>4
  <2> QED
    BY <2>3, <2>5, <2>6 DEF e
<1> HIDE DEF d, v
<1>6. d - 1 < 1 /\ -1 < d
  BY <1>4, <1>5, MultiplesCompare
<1>7. d \in {0, 1}
  BY <1>4, <1>6
<1> QED
  BY <1>2, <1>7 DEF d, M, O, num
\* A stamp at distance at most worst from the line, over the unit, is at most
\* the rounded worst away from the rounded line.
LEMMA RoundedDistance ==
  ASSUME NEW num \in Nat, NEW worst \in Nat, NEW u \in Nat \ {0}, NEW s \in Nat,
         s * u - num <= worst, num - s * u <= worst
  PROVE  LET M == RoundedUnsigned(num, u)
             J == RoundedUnsigned(worst, u)
         IN  M \in Nat /\ J \in Nat /\ Absolute(M - s) <= J
<1> DEFINE M == RoundedUnsigned(num, u)
           J == RoundedUnsigned(worst, u)
<1>1. /\ M \in Nat /\ 2 * u * M <= 2 * num + u /\ 2 * num + u < 2 * u * M + 2 * u
      /\ J \in Nat /\ 2 * u * J <= 2 * worst + u /\ 2 * worst + u < 2 * u * J + 2 * u
  BY RoundsToNearest
<1> HIDE DEF M, J
<1> DEFINE v == 2 * u
           a == 2 * u * M
           b == 2 * u * J
           c == s * u
<1>2. /\ v \in Nat \ {0} /\ v \in Int /\ a \in Int /\ b \in Int /\ c \in Int /\ v = 2 * u
      /\ a <= 2 * num + u /\ 2 * num + u < a + v
      /\ b <= 2 * worst + u /\ 2 * worst + u < b + v
      /\ c - num <= worst /\ num - c <= worst
      /\ v * (M - s) = a - 2 * c /\ v * (s - M) = 2 * c - a /\ v * (J + 1) = b + v
      /\ M - s \in Int /\ s - M \in Int /\ J + 1 \in Int
  BY <1>1
<1> HIDE DEF v, a, b, c
<1>3. a - 2 * c < b + v
  BY <1>2
<1>4. 2 * c - a < b + v
  BY <1>2
<1>5. M - s < J + 1 /\ s - M < J + 1
  BY <1>2, <1>3, <1>4, MultiplesCompare
<1>6. Absolute(M - s) <= J
  BY <1>1, <1>5 DEF Absolute
<1> QED
  BY <1>1, <1>6 DEF M, J

\* The largest of the terms of a loop that runs at least once.
LEMMA LargestTerm ==
  ASSUME NEW n \in Nat \ {0}, NEW f, \A i \in 1..n : f[i] \in Nat
  PROVE  LET largest == Max({f[i] : i \in 1..n})
         IN  largest \in Nat /\ \A i \in 1..n : f[i] <= largest
<1> DEFINE T == {k \in 0..n : k >= 1 => \E i \in 1..k : \A j \in 1..k : f[i] >= f[j]}
<1>1. 0 \in T
  OBVIOUS
<1>2. ASSUME NEW k \in 0..n - 1, k \in T
      PROVE  k + 1 \in T
  <2>1. k + 1 \in 0..n /\ k + 1 \in 1..n /\ k \in Nat
    OBVIOUS
  <2>2. CASE k = 0
    <3>1. 1 \in 1..1 /\ \A j \in 1..1 : f[1] >= f[j]
      BY <2>1, <2>2
    <3> QED
      BY <2>1, <2>2, <3>1
  <2>3. CASE k >= 1
    <3>1. PICK i \in 1..k : \A j \in 1..k : f[i] >= f[j]
      BY <1>2, <2>3
    <3>2. \A j \in 1..k + 1 : j \in 1..k \/ j = k + 1
      BY <2>1
    <3>3. i \in 1..n /\ i \in 1..k + 1 /\ k + 1 \in 1..k + 1 /\ \A j \in 1..k : j \in 1..n
      BY <2>1
    <3>4. CASE f[i] >= f[k + 1]
      <4>1. \A j \in 1..k + 1 : f[i] >= f[j]
        BY <3>1, <3>2, <3>4
      <4> QED
        BY <2>1, <3>3, <4>1
    <3>5. CASE ~(f[i] >= f[k + 1])
      <4>1. \A j \in 1..k : f[k + 1] >= f[j]
        BY <2>1, <3>1, <3>3, <3>5
      <4>2. \A j \in 1..k + 1 : f[k + 1] >= f[j]
        BY <2>1, <3>2, <4>1
      <4> QED
        BY <2>1, <3>3, <4>2
    <3> QED
      BY <3>4, <3>5
  <2> QED
    BY <2>1, <2>2, <2>3
<1> HIDE DEF T
<1>3. \A k \in 0..n : k \in T
  BY <1>1, <1>2, RoundInduction
<1>4. \E i \in 1..n : \A j \in 1..n : f[i] >= f[j]
  <2>1. n \in T
    BY <1>3
  <2> QED
    BY <2>1 DEF T
<1> DEFINE S == {f[i] : i \in 1..n}
<1>5. \E x \in S : \A y \in S : x >= y
  BY <1>4
<1>6. Max(S) \in S /\ \A y \in S : Max(S) >= y
  BY <1>5 DEF Max
<1>7. /\ \A i \in 1..n : f[i] \in S
      /\ \A x \in S : x \in Nat
  OBVIOUS
<1> HIDE DEF S
<1>8. Max(S) \in Nat /\ \A i \in 1..n : f[i] <= Max(S)
  BY <1>6, <1>7
<1> QED
  BY <1>8 DEF S

\* What the mapper reads off the line of any window of distinct stamps: a
\* mapped stamp is the source stamp plus the offset, give or take the rounding
\* of the two, and at a stamp of the window it is within the jitter of the
\* Session time at which that sample arrived.
THEOREM EstimateIsClose ==
  ASSUME NEW window \in Seq(Sample), window # << >>, Distinct(window), NEW raw \in Nat
  PROVE  LET fit == EstimateAffine(window, raw)
         IN  /\ fit.offset \in Int /\ fit.mapped \in Nat /\ fit.jitter \in Nat
             /\ fit.mapped # 0 => fit.mapped - raw - fit.offset \in {0, 1}
             /\ \A i \in DOMAIN window :
                  window[i].raw = raw /\ fit.mapped # 0 =>
                    Absolute(fit.mapped - window[i].session) <= fit.jitter
<1> DEFINE line == Line(window)
           n == Len(window)
           u == line.unit
           off == OffsetAt(line, X(window, raw))
           e == [i \in 1..n |-> Absolute(Residual(window, line, i))]
           worst == Max({Absolute(Residual(window, line, i)) : i \in DOMAIN window})
           fit == EstimateAffine(window, raw)
           num == raw * u + off
<1>1. u \in Nat \ {0} /\ line.run \in Nat \ {0} /\ line.base \in Int /\ line.rise \in Int
  BY NormalEquations
<1>2. n \in Nat \ {0} /\ DOMAIN window = 1..n /\ window[1].raw \in Int
  <2>1. n \in Nat \ {0} /\ DOMAIN window = 1..n
    BY TermsType
  <2>2. 1 \in 1..n
    BY <2>1
  <2> QED
    BY <2>1, <2>2, TermsType
<1>3. off \in Int
  <2> DEFINE x == X(window, raw)
             d == u \div line.run
  <2>1. x \in Int /\ d \in Int
    BY <1>1, <1>2 DEF X
  <2>2. off = line.base + x * line.rise * d
    BY DEF OffsetAt
  <2> HIDE DEF x, d, line, off
  <2> QED
    BY <1>1, <2>1, <2>2
<1>4. \A i \in 1..n : Residual(window, line, i) \in Int
  BY ResidualForm
<1>5. \A i \in 1..n : e[i] \in Nat /\ e[i] = Absolute(Residual(window, line, i))
  <2> HIDE DEF line
  <2> QED
    BY <1>4 DEF Absolute
<1>6. worst \in Nat /\ \A i \in 1..n : e[i] <= worst
  <2>1. worst = Max({e[i] : i \in 1..n})
    <3>1. {e[i] : i \in 1..n} = {Absolute(Residual(window, line, i)) : i \in DOMAIN window}
      BY <1>2
    <3> QED
      BY <3>1
  <2> HIDE DEF e, worst, n
  <2> QED
    BY <1>2, <1>5, <2>1, LargestTerm
<1>7. /\ fit.offset = Rounded(off, u) /\ fit.jitter = RoundedUnsigned(worst, u)
      /\ fit.mapped = RoundedUnsigned(num, u)
  BY DEF EstimateAffine
<1> HIDE DEF fit, worst, e, off, line, u, n
<1>8. num \in Int
  BY <1>1, <1>3
<1>9. fit.offset \in Int /\ fit.jitter \in Nat
  BY <1>1, <1>3, <1>6, <1>7, RoundsOffset, RoundsToNearest
<1>10. fit.mapped \in Nat /\ (fit.mapped # 0 => num \in Nat)
  <2> HIDE DEF num
  <2>1. CASE num <= 0
    BY <1>7, <2>1 DEF RoundedUnsigned
  <2>2. CASE num > 0
    <3>1. num \in Nat
      BY <1>8, <2>2
    <3> QED
      BY <1>1, <1>7, <3>1, RoundsToNearest
  <2> QED
    BY <1>8, <2>1, <2>2
<1>11. fit.mapped # 0 => fit.mapped - raw - fit.offset \in {0, 1}
  BY <1>1, <1>3, <1>7, RoundingsAgree
<1>12. ASSUME NEW i \in DOMAIN window, window[i].raw = raw, fit.mapped # 0
       PROVE  Absolute(fit.mapped - window[i].session) <= fit.jitter
  <2> DEFINE s == window[i].session
             res == Residual(window, line, i)
  <2>1. i \in 1..n
    BY <1>2
  <2>2. s \in Nat
    <3>1. window[i] \in Sample
      OBVIOUS
    <3> QED
      BY <3>1 DEF Sample
  <2>3. res = (s - raw) * u - off
    BY <1>12 DEF Residual, Y, off, u
  <2>4. res \in Int /\ Absolute(res) <= worst
    BY <1>4, <1>5, <1>6, <2>1
  <2> HIDE DEF s, res
  <2>5. (s - raw) * u - off = s * u - num
    BY <1>1, <1>3, <2>2
  <2>6. s * u - num <= worst /\ num - s * u <= worst
    <3> DEFINE c == s * u
    <3>1. c \in Int /\ res = c - num
      BY <1>1, <2>2, <2>3, <2>5
    <3> HIDE DEF c, num
    <3>2. c - num <= worst /\ num - c <= worst
      BY <1>6, <1>8, <2>4, <3>1 DEF Absolute
    <3> QED
      BY <3>2 DEF c
  <2> HIDE DEF num
  <2>7. Absolute(fit.mapped - s) <= fit.jitter
    BY <1>1, <1>6, <1>7, <1>10, <1>12, <2>2, <2>6, RoundedDistance
  <2> QED
    BY <2>7 DEF s
<1> QED
  BY <1>9, <1>10, <1>11, <1>12 DEF fit
=============================================================================
