----------------------------- MODULE CursorRanges -----------------------------
(***************************************************************************)
(* Arithmetic on ordered cursors, shared by planning and reading           *)
(* (internal/connectors/source.go, range_predicate.go).                    *)
(*                                                                         *)
(* A cursor value is an integer in the order of its domain.  Integers,     *)
(* dates and timestamps are discrete: a range of them can be split.  A     *)
(* timestamp is split on its nanoseconds since 1970 held in a fixed width, *)
(* here NanoSpan values around 0, so a time outside them wraps around.     *)
(***************************************************************************)
EXTENDS Integers, FiniteSets

NanoHalf == 4             \* 2^63 nanoseconds
NanoSpan == 2 * NanoHalf

NoBound == -100           \* an absent lower or upper bound

SupportsCursorRangeSplit(domain) == domain \in {"int64", "timestamp"}

\* The integer a discrete cursor is split on.
parseDiscreteCursor(domain, c) ==
    IF domain = "timestamp" THEN ((c + NanoHalf) % NanoSpan) - NanoHalf ELSE c

\* The next value, or NoBound after the last one: top for integers.  Decimals
\* and texts have no next value and answer the value itself.
CursorSuccessor(domain, c, top) ==
    IF ~SupportsCursorRangeSplit(domain) THEN c
    ELSE IF domain = "int64" /\ c = top THEN NoBound
    ELSE c + 1

\* The inclusive start n units before the mark, not below least.
CursorLookbackStart(mark, n, least) ==
    IF mark - n < least THEN least ELSE mark - n

Smaller(a, b) == IF a < b THEN a ELSE b
Larger(a, b)  == IF a < b THEN b ELSE a

\* Mutant: the rounding remainder becomes a piece of its own.
SplitWithRest(domain, start, end, parts) ==
    LET base == Larger((end - start + 1) \div parts, 1)
        inner == {i \in 1 .. parts : start + i * base - 1 < end}
    IN [i \in 1 .. Cardinality(inner) + 1 |-> IF i \in inner THEN start + i * base - 1 ELSE end]

\* Upper ends of at most parts pieces of start .. end: the first `remainder'
\* pieces are one longer and the last piece ends at end.  <<>> is the error
\* for a start after its end; a domain that is not discrete is one piece.
SplitCursorRange(domain, start, end, parts) ==
    LET from      == parseDiscreteCursor(domain, start)
        to        == parseDiscreteCursor(domain, end)
        width     == to - from + 1
        base      == Larger(width \div parts, 1)
        remainder == width % parts
        upper(i)  == from + i * base + Smaller(i, remainder) - 1
        inner     == {i \in 1 .. parts - 1 : upper(i) < to}
    IN IF ~SupportsCursorRangeSplit(domain) THEN <<end>>
       ELSE IF from > to THEN <<>>
       ELSE [i \in 1 .. Cardinality(inner) + 1 |-> IF i \in inner THEN upper(i) ELSE end]

\* The predicate of a task's query: > or >= lower and <= upper.
InRange(spec, c) ==
    /\ spec.lower = NoBound \/ c > spec.lower \/ (c = spec.lower /\ ~spec.exclusive)
    /\ spec.upper = NoBound \/ c <= spec.upper

Bounded(spec) == spec.lower # NoBound \/ spec.upper # NoBound

=============================================================================
