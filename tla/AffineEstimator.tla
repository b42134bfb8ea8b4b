-------------------------- MODULE AffineEstimator --------------------------
(***************************************************************************)
(* ClockMapper::estimateAffine: the least-squares line through the samples *)
(* of a route, offset = Session stamp - source stamp against source stamp, *)
(* and what the mapper reads off it at the stamp of the newest sample.     *)
(*                                                                         *)
(* The code computes in long double.  Here the line is exact: numerators   *)
(* over a common denominator, rounded to nanoseconds where the code calls  *)
(* llround.  uint64 saturation is not represented: a saturated value       *)
(* exceeds every threshold just as the exact one does.                     *)
(***************************************************************************)
EXTENDS Integers, Sequences, FiniteSetsExt

Sample == [raw : Nat, session : Nat]

Absolute(i) == IF i < 0 THEN -i ELSE i

\* llround(num / den), halves away from zero.
Rounded(num, den) ==
  IF num < 0 THEN -((den - 2 * num) \div (2 * den))
             ELSE (2 * num + den) \div (2 * den)

\* roundedUnsigned: negative values become zero.
RoundedUnsigned(num, den) == IF num <= 0 THEN 0 ELSE Rounded(num, den)

\* x is measured from the oldest sample of the window, whatever its stamp.
X(samples, raw) == raw - samples[1].raw
Y(sample) == sample.session - sample.raw

\* What a sum of the loops holds after each sample, and after the last.
Running(terms) ==
  LET sum[n \in 0..Len(terms)] == IF n = 0 THEN 0 ELSE sum[n - 1] + terms[n]
  IN  sum

Total(terms) == Running(terms)[Len(terms)]

\* The sums of the two loops; n * n times the variance and covariance.
Moments(samples) ==
  LET n == Len(samples)
      x == [i \in 1..n |-> X(samples, samples[i].raw)]
      y == [i \in 1..n |-> Y(samples[i])]
      sx == Total(x)
      sy == Total(y)
  IN  [n |-> n, sx |-> sx, sy |-> sy,
       var |-> n * Total([i \in 1..n |-> x[i] * x[i]]) - sx * sx,
       cov |-> n * Total([i \in 1..n |-> x[i] * y[i]]) - sx * sy]

\* Mutant: the intercept is the mean offset, as if the mean stamp were zero.
Intercept_Mean(m) == m.sy * m.var

\* mean_y - slope * mean_x, over n * var.
Intercept(m) == m.sy * m.var - m.cov * m.sx

\* slope = rise / run and intercept = base / unit; a window whose stamps
\* have no spread has slope zero.
Line(samples) ==
  LET m == Moments(samples)
  IN  IF m.var > 0
      THEN [rise |-> m.cov, run |-> m.var, base |-> Intercept(m), unit |-> m.n * m.var]
      ELSE [rise |-> 0, run |-> 1, base |-> m.sy, unit |-> m.n]

\* The offset of the line at x, over line.unit.
OffsetAt(line, x) == line.base + x * line.rise * (line.unit \div line.run)

\* y - (intercept + slope * x) of a sample, over line.unit.
Residual(samples, line, i) ==
  Y(samples[i]) * line.unit - OffsetAt(line, X(samples, samples[i].raw))

EstimateAffine(samples, raw) ==
  LET line == Line(samples)
      offset == OffsetAt(line, X(samples, raw))
      worst == Max({Absolute(Residual(samples, line, i)) : i \in DOMAIN samples})
  IN  [offset |-> Rounded(offset, line.unit),
       rise |-> line.rise, run |-> line.run,
       jitter |-> RoundedUnsigned(worst, line.unit),
       mapped |-> RoundedUnsigned(raw * line.unit + offset, line.unit)]
=============================================================================
