------------------------------ MODULE MCSystem ------------------------------
(* An instance of System for TLC: one fractional digit, amounts of three   *)
(* digits and a column of two.                                             *)
EXTENDS System

Decimal(c, e) == [form |-> "finite", coeff |-> c, exp |-> e]

Plain == [tenant |-> 1, key |-> "k", from |-> "a", to |-> "b", amount |-> Decimal(2, 0), wellFormed |-> TRUE]

Same == [Plain EXCEPT !.amount = Decimal(20, -1)]

\* Every way an amount can be wrong: the first call sends them all, the second one sends
\* the same transfer in another form, or another tenant's with the same key.
MCSends == [r \in Requests |->
    IF r = 2 THEN {Same, [Plain EXCEPT !.tenant = 2]}
    ELSE {Plain, Same,
          [Plain EXCEPT !.wellFormed = FALSE],
          [Plain EXCEPT !.to = "a"],
          [Plain EXCEPT !.amount.form = "malformed"],
          [Plain EXCEPT !.amount.form = "infinite"],
          [Plain EXCEPT !.amount = Decimal(0, 0)],
          [Plain EXCEPT !.amount = Decimal(-2, 0)],
          [Plain EXCEPT !.amount = Decimal(25, -2)],
          [Plain EXCEPT !.amount = Decimal(10, 0)],
          [Plain EXCEPT !.amount = Decimal(1, 2)]}]
=============================================================================
