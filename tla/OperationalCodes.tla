-------------------------- MODULE OperationalCodes --------------------------
(***************************************************************************)
(* The operational codes of one kind of row (PRJ-000001, DON-000001, ...): *)
(* a sequence row that every creation locks until its transaction ends,    *)
(* and the command that inspects codes and sequence without locks.         *)
(*                                                                         *)
(* A code is abstracted to its form and its number.  The sequence gives    *)
(* padded codes (PRJ-000007).  Before there were sequences people typed    *)
(* their codes: also "typed" ones (PRJ-7), which the inspection reads as a *)
(* number and the migration does not, and words (PRJ-DEMO-001), which have *)
(* no number at all.  Rows of some kinds are never deleted (projects,      *)
(* expense requests): their behaviours are those without Delete.           *)
(***************************************************************************)
EXTENDS Naturals, Sequences, FiniteSets

CONSTANTS
    Creators,   \* the transactions that create a row of this kind
    Legacy,     \* the codes people and seed data have chosen themselves
    MaxCode     \* the highest number a behaviour gives: bounds Reserve

VARIABLES
    codes,      \* the codes of the rows there are
    next,       \* OperationalCodeSequence.next_value, as committed
    reserved,   \* [Creators -> Nat]: the number a transaction has reserved, 0 for none
    looked,     \* what the inspection has read: the codes, or nothing yet
    verdict,    \* the status of the last inspection
    given       \* history: the numbers committed by creations, in their order

codeVars == <<codes, next, reserved, looked, verdict, given>>

Forms == {"padded", "typed", "word"}

Code == [form : Forms, number : Nat]

ASSUME LegacyAreCodes == Legacy \subseteq Code

Padded(n) == [form |-> "padded", number |-> n]

NumbersOf(some, forms) == {k.number : k \in {c \in some : c.form \in forms}}

\* The codes the inspection takes for canonical: digits, padded or not, above zero.
Canonical(some) == NumbersOf(some, {"padded", "typed"})

-----------------------------------------------------------------------------
\* Migration 0007 keeps the codes there are and starts after the highest six-digit one.
CodesInit(legacy) ==
    /\ codes = legacy
    /\ next \in {1} \cup {n + 1 : n \in NumbersOf(legacy, {"padded"})}
    /\ \A n \in NumbersOf(legacy, {"padded"}) : n < next
    /\ reserved = [c \in Creators |-> 0]
    /\ looked = [done |-> FALSE, codes |-> {}]
    /\ verdict = "NONE"
    /\ given = <<>>

SequenceLocked == \E c \in Creators : reserved[c] # 0

\* reserve_operational_code: the row lock is held until the creation commits or rolls back.
Reserve(c) ==
    /\ ~SequenceLocked
    /\ next <= MaxCode
    /\ reserved' = [reserved EXCEPT ![c] = next]
    /\ UNCHANGED <<codes, next, looked, verdict, given>>

\* Mutant of CommitCreation: the row commits before the sequence it took its number from.
CommitRowFirst(c) ==
    /\ reserved[c] # 0
    /\ codes' = codes \cup {Padded(reserved[c])}
    /\ UNCHANGED <<next, reserved, looked, verdict, given>>

\* The unique constraint lets the row in, and row and sequence commit together.
CommitCreation(c) ==
    /\ reserved[c] # 0
    /\ Padded(reserved[c]) \notin codes
    /\ codes' = codes \cup {Padded(reserved[c])}
    /\ next' = reserved[c] + 1
    /\ reserved' = [reserved EXCEPT ![c] = 0]
    /\ given' = Append(given, reserved[c])
    /\ UNCHANGED <<looked, verdict>>

\* Whatever fails afterwards in the transaction undoes the reservation too.
RollBackCreation(c) ==
    /\ reserved[c] # 0
    /\ reserved' = [reserved EXCEPT ![c] = 0]
    /\ UNCHANGED <<codes, next, looked, verdict, given>>

\* Seed data comes with a word for a code: no sequence, only the unique constraint.
CreateWithWord(code) ==
    /\ code.form = "word"
    /\ code \notin codes
    /\ codes' = codes \cup {code}
    /\ UNCHANGED <<next, reserved, looked, verdict, given>>

DeleteRow(code) ==
    /\ code \in codes
    /\ codes' = codes \ {code}
    /\ UNCHANGED <<next, reserved, looked, verdict, given>>

-----------------------------------------------------------------------------
\* _sequence_status, for a sequence that exists and is valid: the highest number of the
\* canonical codes is compared with the next one.
SequenceStatus(numbers) ==
    CASE numbers = {} /\ next = 1         -> "OK_EMPTY"
      [] \E n \in numbers : next <= n     -> "LAGGING_SEQUENCE"
      [] OTHER                            -> "OK"

\* The inspection reads the codes first and the sequence after them, in two statements.
InspectCodes ==
    /\ ~looked.done
    /\ looked' = [done |-> TRUE, codes |-> codes]
    /\ verdict' = "NONE"
    /\ UNCHANGED <<codes, next, reserved, given>>

InspectSequence ==
    /\ looked.done
    /\ verdict' = SequenceStatus(Canonical(looked.codes))
    /\ looked' = [looked EXCEPT !.done = FALSE]
    /\ UNCHANGED <<codes, next, reserved, given>>

CodesNext ==
    \/ \E c \in Creators : Reserve(c) \/ CommitCreation(c) \/ RollBackCreation(c)
    \/ \E code \in Legacy : CreateWithWord(code)
    \/ \E code \in codes : DeleteRow(code)
    \/ InspectCodes
    \/ InspectSequence

CodesSpec ==
    /\ \E legacy \in SUBSET Legacy : CodesInit(legacy)
    /\ [][CodesNext]_codeVars

-----------------------------------------------------------------------------
\* Creations give consecutive numbers: none twice, even when its row was deleted since, and
\* none is lost by a transaction that rolled back.
NumbersInOrder == \A i \in 2..Len(given) : given[i] = given[i - 1] + 1

\* The inspection calls a sequence unsafe only for a code a person typed: creations that
\* commit between its two reads never raise a false alarm.
AlarmsAreReal ==
    verdict = "LAGGING_SEQUENCE" => \E code \in looked.codes : code.form = "typed"
=============================================================================
