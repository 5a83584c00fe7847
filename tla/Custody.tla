-------------------------------- MODULE Custody --------------------------------
(***************************************************************************)
(* What the ledger promises about money, with everything left out that is  *)
(* not money: funds that were given, envelopes that each hold a part of    *)
(* one fund, and in each envelope what is set aside and what is spent.     *)
(*                                                                         *)
(* An envelope may be refilled while money is set aside in it, so that     *)
(* more may be set aside than it holds; nothing can be taken out of it     *)
(* then except what is set aside.  Nothing is ever spent that it does not  *)
(* hold, and no fund is handed out twice.                                  *)
(***************************************************************************)
EXTENDS Integers, MoneySums

CONSTANTS Funds, Envelopes, None

VARIABLES
    given,      \* the money of each fund
    envelope    \* [fund, amount, aside, spent] of each envelope

vars == <<given, envelope>>

Contents == [fund : Funds \cup {None}, amount : Nat, aside : Nat, spent : Nat]

Nothing == [fund |-> None, amount |-> 0, aside |-> 0, spent |-> 0]

Init ==
    /\ given    = [f \in Funds |-> 0]
    /\ envelope = [v \in Envelopes |-> Nothing]

HandedOut(f, others) ==
    Total({v \in others : envelope[v].fund = f}, [v \in Envelopes |-> envelope[v].amount])

Left(v) == envelope[v].amount - envelope[v].aside - envelope[v].spent

-------------------------------------------------------------------------------

\* A fund is given, or its amount corrected, never below what was handed out.
Give(f, m) ==
    /\ HandedOut(f, Envelopes) <= m
    /\ given' = [given EXCEPT ![f] = m]
    /\ UNCHANGED envelope

\* An envelope is filled, or refilled from the same or from another fund.
Fill(v, f, m) ==
    /\ HandedOut(f, Envelopes \ {v}) + m <= given[f]
    /\ envelope[v].spent <= m
    /\ envelope' = [envelope EXCEPT ![v].fund = f, ![v].amount = m]
    /\ UNCHANGED given

\* The money of an envelope nothing was spent from goes back to its fund.
Empty(v) ==
    /\ envelope[v].spent = 0
    /\ envelope' = [envelope EXCEPT ![v].fund = None, ![v].amount = 0]
    /\ UNCHANGED given

SetAside(v, m) ==
    /\ m <= Left(v)
    /\ envelope' = [envelope EXCEPT ![v].aside = @ + m]
    /\ UNCHANGED given

PutBack(v, m) ==
    /\ m <= envelope[v].aside
    /\ envelope' = [envelope EXCEPT ![v].aside = @ - m]
    /\ UNCHANGED given

\* Money that was not set aside is spent.
Spend(v, m) ==
    /\ m <= Left(v)
    /\ envelope' = [envelope EXCEPT ![v].spent = @ + m]
    /\ UNCHANGED given

\* Of the money that was set aside for a purpose, a part is spent on it and the
\* rest is put back.
SpendAside(v, held, m) ==
    /\ m <= held
    /\ held <= envelope[v].aside
    /\ m <= Left(v) + held
    /\ envelope' = [envelope EXCEPT ![v].aside = @ - held, ![v].spent = @ + m]
    /\ UNCHANGED given

Refund(v, m) ==
    /\ m <= envelope[v].spent
    /\ envelope' = [envelope EXCEPT ![v].spent = @ - m]
    /\ UNCHANGED given

\* What was spent as m turns out to be n, possibly of another envelope.
Correct(v, m, w, n) ==
    /\ m <= envelope[v].spent
    /\ n <= Left(w) + (IF v = w THEN m ELSE 0)
    /\ envelope' = IF v = w THEN [envelope EXCEPT ![v].spent = @ - m + n]
                   ELSE [envelope EXCEPT ![v].spent = @ - m, ![w].spent = @ + n]
    /\ UNCHANGED given

-------------------------------------------------------------------------------

Next ==
    \/ \E f \in Funds, m \in Money : Give(f, m)
    \/ \E v \in Envelopes :
           \/ \E f \in Funds, m \in Money : Fill(v, f, m)
           \/ Empty(v)
           \/ \E m \in Money :
                  \/ SetAside(v, m) \/ PutBack(v, m)
                  \/ Spend(v, m) \/ Refund(v, m)
                  \/ \E held \in Money : SpendAside(v, held, m)
                  \/ \E w \in Envelopes, n \in Money : Correct(v, m, w, n)

Spec == Init /\ [][Next]_vars

-------------------------------------------------------------------------------

TypeOK ==
    /\ given \in [Funds -> Nat]
    /\ envelope \in [Envelopes -> Contents]

\* No fund is handed out twice.
NothingHandedOutTwice == \A f \in Funds : HandedOut(f, Envelopes) <= given[f]

\* Nothing is spent that is not there.
NothingOverspent == \A v \in Envelopes : envelope[v].spent <= envelope[v].amount

==============================================================================
