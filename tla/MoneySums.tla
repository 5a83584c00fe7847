------------------------------ MODULE MoneySums ------------------------------
(***************************************************************************)
(* Money as the operations app adds it up.                                 *)
(*                                                                         *)
(* Every balance of the app is an aggregate(total=Sum('amount')) over the  *)
(* rows a filter selects.  Amounts are DecimalField(max_digits=14,         *)
(* decimal_places=2), so a single amount is one of finitely many cents:    *)
(* MaxMoney bounds it.  A sum is the number of units in the selected rows, *)
(* which needs no recursion and can be reasoned about with the theorems on *)
(* the cardinality of finite sets.                                         *)
(***************************************************************************)
EXTENDS Naturals, FiniteSets

CONSTANT MaxMoney      \* the largest amount one row can carry

ASSUME MaxMoneyAssumption == MaxMoney \in Nat \ {0}

Money    == 0..MaxMoney
Positive == 1..MaxMoney

\* The units of money held by the selected rows: unit u of row x exists when
\* u is at most the amount of x.
UnitsOf(rows, amountOf) ==
    {unit \in rows \X Positive : unit[2] <= amountOf[unit[1]]}

\* SELECT SUM(amount) over the selected rows, with NULL read as ZERO_MONEY.
Total(rows, amountOf) == Cardinality(UnitsOf(rows, amountOf))

==============================================================================
