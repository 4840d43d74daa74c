------------------------------- MODULE Slices -------------------------------
(***************************************************************************)
(* Slices and ranges: slice and indices of eval.go, range of library.go.   *)
(* A sequence of n elements is its indices 0..n-1.  An operand of a slice  *)
(* is <<>>, for None or an operand left out, or <<i>>; a value that is not *)
(* an int fails as an int out of range does.  Operands of range fit 32     *)
(* bits and arithmetic is in 64, so that nothing overflows.                *)
(***************************************************************************)
EXTENDS Integers, Sequences, FiniteSets

CONSTANTS
  SliceCases,  \* the slices: [n, lo, hi, step]
  RangeCases,  \* the pairs of ranges: sequences of the operands of two calls of range
  Halves,      \* numbers to look for in a range, in halves: an odd one is a float
  MaxInt32     \* the greatest int that AsInt32 takes, here a small one

VARIABLES operation, outcome
sliceVars == <<operation, outcome>>
NoOutcome == [status |-> "none", value |-> <<>>]
Rejected  == [status |-> "error", value |-> <<>>]
Result(v) == [status |-> "done", value |-> v]

AsInt32OK(arg)    == arg = <<>> \/ (-MaxInt32 - 1 <= arg[1] /\ arg[1] <= MaxInt32)
SliceOperand(arg) == arg \in Seq(Int) /\ Len(arg) <= 1

ASSUME SlicesAssumption ==
  /\ MaxInt32 \in Nat /\ Halves \subseteq Int
  /\ \A c \in SliceCases : c.n \in Nat /\ SliceOperand(c.lo) /\ SliceOperand(c.hi) /\ SliceOperand(c.step)
  /\ \A c \in RangeCases : \A i \in 1..2 :
       c[i] \in Seq(Int) /\ Len(c[i]) \in 1..3 /\ \A k \in DOMAIN c[i] : AsInt32OK(<<c[i][k]>>)

AsIndex(arg, n, default) ==
  IF arg = <<>> THEN default ELSE IF arg[1] < 0 THEN arg[1] + n ELSE arg[1]
Clamp(i, least, most) == IF i < least THEN least ELSE IF i > most THEN most ELSE i

\* The loop of slice from start, which is not beyond end: signum(end - i) = sign.
Upward(start, end, step) ==
  LET from[i \in start..(end + step)] == IF i < end THEN <<i>> \o from[i + step] ELSE <<>>
  IN  from[start]
Downward(start, end, step) ==
  LET from[i \in (end + step)..start] == IF i > end THEN <<i>> \o from[i + step] ELSE <<>>
  IN  from[start]

\* indices: start may be beyond end.
Indices(lo, hi, n) == [start |-> Clamp(AsIndex(lo, n, 0), 0, n), end |-> Clamp(AsIndex(hi, n, n), 0, n)]

\* Mutant of NegativeIndices: the end left out defaults to 0.
NegativeIndicesToZero(lo, hi, n) ==
  [start |-> Clamp(AsIndex(lo, n, n - 1), -n, n - 1), end |-> Clamp(AsIndex(hi, n, 0), -1, n)]
\* With a negative step the start is clamped from above only, and the end from below only.
NegativeIndices(lo, hi, n) ==
  LET start == AsIndex(lo, n, n - 1)
      end   == AsIndex(hi, n, -1)
  IN  [start |-> IF start >= n THEN n - 1 ELSE start, end |-> IF end < -1 THEN -1 ELSE end]

Slice(n, lo, hi, step_) ==
  LET step == IF step_ = <<>> THEN 1 ELSE step_[1]
      up   == Indices(lo, hi, n)
      down == NegativeIndices(lo, hi, n)
  IN  IF ~AsInt32OK(step_) \/ step = 0 \/ ~AsInt32OK(lo) \/ ~AsInt32OK(hi) THEN Rejected
      ELSE IF step > 0 THEN Result(Upward(up.start, IF up.end < up.start THEN up.start ELSE up.end, step))
      ELSE Result(Downward(IF down.start < down.end THEN down.end ELSE down.start, down.end, step))

(***************************************************************************)
(* Ranges.  Go's division truncates towards zero.                          *)
(***************************************************************************)
Quo(a, b) == LET q == (IF a < 0 THEN -a ELSE a) \div (IF b < 0 THEN -b ELSE b)
             IN  IF (a < 0) = (b < 0) THEN q ELSE -q
Rem(a, b) == a - b * Quo(a, b)

RangeValue(start, stop, step, len) == [start |-> start, stop |-> stop, step |-> step, len |-> len]
RangeCall(args) ==
  LET start == IF Len(args) = 1 THEN 0 ELSE args[1]
      stop  == IF Len(args) = 1 THEN args[1] ELSE args[2]
      step  == IF Len(args) = 3 THEN args[3] ELSE 1
      n     == CASE Len(args) < 3 /\ stop > start             -> stop - start
                 [] Len(args) = 3 /\ step > 0 /\ stop > start -> Quo(stop - 1 - start, step) + 1
                 [] Len(args) = 3 /\ step < 0 /\ start > stop -> Quo(start - 1 - stop, -step) + 1
                 [] OTHER                                     -> 0
  IN  IF Len(args) = 3 /\ step = 0 THEN Rejected ELSE Result(RangeValue(start, stop, step, n))

Elements(rv) == [i \in 1..rv.len |-> rv.start + (i - 1) * rv.step]   \* Index and the iterator
RangeContains(rv, x) ==
  LET delta == x - rv.start
  IN  AsInt32OK(<<x>>) /\ Rem(delta, rv.step) = 0 /\ 0 <= Quo(delta, rv.step) /\ Quo(delta, rv.step) < rv.len
\* x in rv: NumberToInt truncates a float.
In(h, rv) == RangeContains(rv, Quo(h, 2))
RangeEqual(x, y) ==
  x.len = y.len /\ (x.len = 0 \/ (x.start = y.start /\ x.step = y.step))

SliceInit ==
  /\ outcome = NoOutcome
  /\ \/ \E c \in SliceCases : operation = [kind |-> "slice", of |-> c]
     \/ \E c \in RangeCases : operation = [kind |-> "ranges", of |-> c]
TakeSlice ==
  /\ outcome.status = "none" /\ operation.kind = "slice"
  /\ outcome' = Slice(operation.of.n, operation.of.lo, operation.of.hi, operation.of.step)
  /\ UNCHANGED operation
MakeRanges ==
  /\ outcome.status = "none" /\ operation.kind = "ranges"
  /\ outcome' = Result([i \in 1..2 |-> RangeCall(operation.of[i])])
  /\ UNCHANGED operation
SliceSpec == SliceInit /\ [][TakeSlice \/ MakeRanges]_sliceVars

(***************************************************************************)
(* SlicesExact: a slice has the elements between its effective bounds, at  *)
(* distances from the first that are multiples of the step, in the order   *)
(* of the step's sign.  A range has the numbers from its start to before   *)
(* its stop, by its step; of the whole numbers, `in` finds those and no    *)
(* others; equal ranges have the same elements; and ranges of the same     *)
(* elements are equal, if there are none or several of them.  Nothing is   *)
(* said here of `in` for other floats, and of ranges of one element: the   *)
(* code departs from the specification there (ComparisonsAsDocumented).    *)
(***************************************************************************)
Effective(arg, n, default, least, most) ==
  IF arg = <<>> THEN default ELSE Clamp(IF arg[1] < 0 THEN arg[1] + n ELSE arg[1], least, most)
Apart(i, from, step) == \E k \in 0..((IF i > from THEN i - from ELSE from - i)) : i = from + k * step
Selected(c, step) ==
  IF step > 0
  THEN LET from == Effective(c.lo, c.n, 0, 0, c.n) IN
       {i \in 0..(c.n - 1) : from <= i /\ i < Effective(c.hi, c.n, c.n, 0, c.n) /\ Apart(i, from, step)}
  ELSE LET from == Effective(c.lo, c.n, c.n - 1, -1, c.n - 1) IN
       {i \in 0..(c.n - 1) : from >= i /\ i > Effective(c.hi, c.n, -1, -1, c.n - 1) /\ Apart(i, from, step)}
Ordered(s, step) == \A i, j \in DOMAIN s : i < j => IF step > 0 THEN s[i] < s[j] ELSE s[i] > s[j]
Exactly(s, set, step) == Ordered(s, step) /\ Len(s) = Cardinality(set) /\ \A i \in DOMAIN s : s[i] \in set

SliceExact(c) ==
  LET step == IF c.step = <<>> THEN 1 ELSE c.step[1]
  IN  IF step # 0 /\ \A a \in {c.lo, c.hi, c.step} : AsInt32OK(a)
      THEN outcome.status = "done" /\ Exactly(outcome.value, Selected(c, step), step)
      ELSE outcome.status = "error"
Between(rv) == IF rv.step > 0 THEN rv.start..(rv.stop - 1) ELSE (rv.stop + 1)..rv.start
RangeExact(rv) ==
  LET members == {x \in Between(rv) : Apart(x, rv.start, rv.step)}
  IN  /\ Exactly(Elements(rv), members, rv.step)
      /\ \A h \in Halves : h % 2 = 0 => (In(h, rv) <=> h \div 2 \in members)
RangesExact(args) ==
  LET made == outcome.value
      x    == made[1].value
      y    == made[2].value
  IN  /\ \A i \in 1..2 : made[i].status = (IF Len(args[i]) = 3 /\ args[i][3] = 0 THEN "error" ELSE "done")
      /\ \A i \in 1..2 : made[i].status = "done" => RangeExact(made[i].value)
      /\ made[1].status = "done" /\ made[2].status = "done" =>
           /\ RangeEqual(x, y) => Elements(x) = Elements(y)
           /\ Elements(x) = Elements(y) /\ x.len # 1 => RangeEqual(x, y)
SlicesExact ==
  outcome.status # "none" =>
    IF operation.kind = "slice" THEN SliceExact(operation.of) ELSE RangesExact(operation.of)
=============================================================================
