-------------------------------- MODULE Money --------------------------------
(***************************************************************************)
(* Amounts: what domain/money.go makes of the decimal string of a request, *)
(* the arithmetic of the two legs, and what the NUMERIC(19,4) column of    *)
(* journal_entries can hold.                                               *)
(*                                                                         *)
(* An amount counts units of the last digit (10^-Scale).  The apd context  *)
(* has no traps: an amount with too many digits becomes NaN, and no error  *)
(* is returned.                                                            *)
(***************************************************************************)
EXTENDS Integers

CONSTANTS Scale,        \* -LedgerScale, the fractional digits: 4
          AmountLimit,  \* 10^22 units: the first value with more digits than Precision
          ColumnLimit   \* 10^19 units: the first value that NUMERIC(19,4) refuses

ASSUME MoneyAssumption ==
    Scale \in Nat /\ AmountLimit \in Nat \ {0} /\ ColumnLimit \in Nat \ {0}

\* Decimal strings: coeff * 10^exp, or something that is not a finite number.
Decimals == [form : {"malformed", "infinite", "finite"}, coeff : Int, exp : Int]

\* The value of a decimal string with at most Scale fractional digits.
Units(w) == w.coeff * 10 ^ (w.exp + Scale)

Finite(n) == [form |-> "finite", n |-> n]

\* apd's NaN: its sign is positive and it is not zero.
NaN == [form |-> "nan", n |-> 1]

\* NewAmount's error.
Refused == [form |-> "refused", n |-> 0]

\* Quantize to LedgerScale.
Quantize(n) == IF n < AmountLimit /\ n > -AmountLimit THEN Finite(n) ELSE NaN

NewAmountRounding(w) ==
    IF w.form # "finite" THEN Refused
    ELSE IF w.exp < -Scale THEN Quantize(w.coeff \div 10)
    ELSE Quantize(Units(w))

\* NewAmount: SetString, then the checks on form and scale, then Quantize.
NewAmount(w) ==
    IF w.form # "finite" \/ w.exp < -Scale THEN Refused ELSE Quantize(Units(w))

IsZero(a) == a.form = "finite" /\ a.n = 0

IsNegative(a) == a.n < 0

Neg(a) == [a EXCEPT !.n = -a.n]

\* Add, where NaN is contagious.  (The context rounds only a sum that Quantize refuses.)
Add(a, b) ==
    IF a.form = "finite" /\ b.form = "finite" THEN Quantize(a.n + b.n) ELSE NaN

TwoLegs(debit, credit) == TRUE

\* AssertBalanced, whose loop runs over the two legs that both callers build.
AssertBalanced(debit, credit) == IsZero(Add(Add(Finite(0), debit), credit))

\* What the INSERT of a leg accepts; NUMERIC has a NaN of its own.
Storable(a) == a.form = "nan" \/ (a.n < ColumnLimit /\ a.n > -ColumnLimit)
=============================================================================
