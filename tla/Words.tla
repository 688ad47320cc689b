--------------------------------- MODULE Words ---------------------------------
(***************************************************************************)
(* The integers of the program.  In a release build u64 and i64 arithmetic *)
(* wraps, and so do casts between integers; casts from f64 saturate.       *)
(***************************************************************************)
EXTENDS Integers

CONSTANT U64  \* 2^64

ASSUME WordAssumption == U64 \in Nat \ {0, 1}

Amounts == 0..(U64 - 1)

\* "as u64", of another integer; and what u64 arithmetic makes of a result.
AsU64(x) == x % U64

\* The difference of two u64s cast to i64, subtracted as the release build does:
\* without a check for overflow.
DifferenceAsI64(x, y) ==
  LET wrapped == AsU64(x - y) IN IF 2 * wrapped < U64 THEN wrapped ELSE wrapped - U64

\* "as u64", of an f64 that is not negative.
Saturated(x) == IF x < U64 THEN x ELSE U64 - 1
================================================================================
