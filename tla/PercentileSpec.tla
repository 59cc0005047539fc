--------------------------- MODULE PercentileSpec ---------------------------
(***************************************************************************)
(* parse_percentile_spec (main.rs): "p50" is the quantile 0.50 and "p999"  *)
(* is 0.999; "max" and "mean" have names of their own.                     *)
(*                                                                         *)
(* A spec is how it begins and the characters after that: digits as        *)
(* numbers, a plus sign, or anything else.  A quantile is the pair of      *)
(* numbers it is the quotient of; the division rounds neither of them in   *)
(* the cases the checks look at.                                           *)
(***************************************************************************)
EXTENDS Naturals, Sequences, SequencesExt, Arithmetic

CONSTANT Width  \* bits of a u64

ASSUME WidthAssumption == Width \in Nat \ {0}

Digits == 0 .. 9
Plus == 10
Letter == 11
Specs == [head : {"p", "max", "mean", "other"}, rest : Seq(Digits \union {Plus, Letter})]

-----------------------------------------------------------------------------
(* str::parse::<u64>: an optional plus sign, digits, and a value that fits. *)

\* The digits that make up the number.
Numeral(chars) == IF chars # <<>> /\ chars[1] = Plus THEN Tail(chars) ELSE chars

Number(digits) == FoldLeft(LAMBDA n, d : 10 * n + d, 0, digits)

IsU64(chars) ==
  /\ Numeral(chars) # <<>> /\ Numeral(chars) \in Seq(Digits)
  /\ Number(Numeral(chars)) < Pow(2, Width)

-----------------------------------------------------------------------------

(* Mutated form of Divisor: one power of ten too few. *)
DivisorTooSmall(chars) == Pow(10, Len(chars) - 1) % Pow(2, Width)

(* 10u64.pow: the release profile has no overflow checks, so it wraps. *)
Divisor(chars) == Pow(10, Len(chars)) % Pow(2, Width)

\* The quotient of a spec that begins with p.
Quantile(s) == [n |-> Number(Numeral(s.rest)), divisor |-> Divisor(s.rest)]

(* What parse_percentile_spec accepts; a quotient by a divisor that has wrapped
   to zero is infinite, or not a number. *)
InRange(q) == q.divisor > 0 /\ q.n > 0 /\ q.n <= q.divisor

Accepted(s) ==
  \/ s.head \in {"max", "mean"}
  \/ /\ s.head = "p"
     /\ s.rest \notin {<<>>, <<1, 0, 0>>}
     /\ IsU64(s.rest)
     /\ InRange(Quantile(s))

-----------------------------------------------------------------------------

\* The decimal places of a quantile are these digits, and there are no others.
ReadsAs(q, digits) ==
  /\ q.n < q.divisor
  /\ \A i \in DOMAIN digits : ((q.n * Pow(10, i)) \div q.divisor) % 10 = digits[i]
  /\ (q.n * Pow(10, Len(digits))) % q.divisor = 0
=============================================================================
