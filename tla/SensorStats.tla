------------------------------ MODULE SensorStats ------------------------------
(***************************************************************************)
(* SensorStats of gateway/src/types.rs: count, extrema, mean and second    *)
(* moment of a sensor's values, one value at a time (Welford) or by the    *)
(* merge of two partial results (Chan).                                    *)
(*                                                                         *)
(* A mean and a moment are counted in 1/Unit.  Up to MaxCount values both  *)
(* are exact, and so is every division below: rounding is left out.        *)
(***************************************************************************)
EXTENDS Integers, Sequences, FiniteSetsExt

CONSTANTS
  MaxCount,    \* values that are put together: bounds what is exact
  Unit,        \* a multiple of every count
  Inf          \* f64::INFINITY: above every value

ASSUME StatsAssumption ==
  /\ MaxCount \in Nat \ {0} /\ Unit \in Nat \ {0} /\ Inf \in Nat \ {0}
  /\ \A n \in 1 .. MaxCount : Unit % n = 0

Lower(a, b) == IF a < b THEN a ELSE b
Upper(a, b) == IF a > b THEN a ELSE b

Default == [count |-> 0, min |-> Inf, max |-> -Inf, mean |-> 0, m2 |-> 0]

\* Mutant: the second delta is taken from the old mean.
UpdateOldMean(s, x) ==
  LET n     == s.count + 1
      delta == x * Unit - s.mean
  IN  [count |-> n, min |-> Lower(s.min, x), max |-> Upper(s.max, x),
       mean  |-> s.mean + delta \div n,
       m2    |-> s.m2 + (delta * delta) \div Unit]

Update(s, x) ==
  IF s.count = 0
  THEN [count |-> 1, min |-> x, max |-> x, mean |-> x * Unit, m2 |-> 0]
  ELSE LET n     == s.count + 1
           delta == x * Unit - s.mean
           mean  == s.mean + delta \div n
       IN  [count |-> n, min |-> Lower(s.min, x), max |-> Upper(s.max, x),
            mean  |-> mean,
            m2    |-> s.m2 + (delta * (x * Unit - mean)) \div Unit]

\* Mutant: the moments are added, without what the means differ by.
MergeSums(a, b) ==
  LET n == a.count + b.count IN
  IF 0 \in {a.count, b.count} THEN (IF a.count = 0 THEN b ELSE a) ELSE
  [count |-> n, min |-> Lower(a.min, b.min), max |-> Upper(a.max, b.max),
   mean  |-> a.mean + ((b.mean - a.mean) * b.count) \div n,
   m2    |-> a.m2 + b.m2]

Merge(a, b) ==
  IF a.count = 0 THEN b
  ELSE IF b.count = 0 THEN a
  ELSE LET n     == a.count + b.count
           delta == b.mean - a.mean
       IN  [count |-> n, min |-> Lower(a.min, b.min), max |-> Upper(a.max, b.max),
            mean  |-> a.mean + (delta * b.count) \div n,
            m2    |-> a.m2 + b.m2
                        + (delta * delta * a.count * b.count) \div (n * Unit)]

-----------------------------------------------------------------------------
\* What they stand for: the statistics of a sequence of values, by definition.
SumOver(v) == MapThenSumSet(LAMBDA k : v[k], DOMAIN v)

StatsOf(v) ==
  LET n       == Len(v)
      values  == {v[k] : k \in DOMAIN v}
      squares == [k \in DOMAIN v |-> v[k] * v[k]]
      s       == SumOver(v)
  IN  IF n = 0 THEN Default ELSE
      [count |-> n, min |-> Min(values), max |-> Max(values),
       mean  |-> (s * Unit) \div n,
       m2    |-> ((n * SumOver(squares) - s * s) * Unit) \div n]
=============================================================================
