----------------------------- MODULE MulDivLoop -----------------------------
(***************************************************************************)
(* mul_div_parts of the YieldVault contract, step by step: the             *)
(* double-and-add loop that computes floor(left * right / denominator) and *)
(* the remainder without forming the product.  Every binary term           *)
(* left * 2^k is kept as termQ * denominator + termR, the partial sum as   *)
(* resultQ * denominator + resultR, and every addition and doubling is     *)
(* checked against i128.                                                   *)
(*                                                                         *)
(* The contract calls it for each deposit, redemption, withdrawal and      *)
(* accrual.  The vault's own specification uses the closed form            *)
(* (VaultMath!MulDivFloor, MulDivRem); the properties here are what makes  *)
(* that substitution sound.                                                *)
(***************************************************************************)
EXTENDS VaultMath

VARIABLES left, right, denominator,           \* the arguments
          termQ, termR, resultQ, resultR,     \* the loop's registers
          multiplier,                         \* the bits of right still to do
          pc                                  \* where the call is

args == <<left, right, denominator>>
vars == <<left, right, denominator, termQ, termR, resultQ, resultR,
          multiplier, pc>>

Returned == pc \in {"done", "overflow"}

\* The call is rejected before the loop: a negative factor or a denominator
\* that is not positive.
BadArguments == left < 0 \/ right < 0 \/ denominator <= 0

Init ==
    /\ left \in -1 .. MaxI
    /\ right \in -1 .. MaxI
    /\ denominator \in -1 .. MaxI
    /\ termQ = 0 /\ termR = 0 /\ resultQ = 0 /\ resultR = 0
    /\ multiplier = 0
    /\ pc = "entry"

Reject ==
    /\ pc = "entry"
    /\ BadArguments
    /\ pc' = "overflow"
    /\ UNCHANGED <<args, termQ, termR, resultQ, resultR, multiplier>>

Enter ==
    /\ pc = "entry"
    /\ ~BadArguments
    /\ termQ' = left \div denominator
    /\ termR' = left % denominator
    /\ resultQ' = 0
    /\ resultR' = 0
    /\ multiplier' = right
    /\ pc' = IF right > 0 THEN "add" ELSE "done"
    /\ UNCHANGED args

(***************************************************************************)
(* The first half of an iteration: add the term if the lowest bit is set,  *)
(* halve the multiplier, leave the loop if no bit is left.                 *)
(***************************************************************************)

\* Faulty variant: a remainder that reaches the denominator is not carried.
CarryStrict == IF termR > denominator - resultR THEN 1 ELSE 0
Carry == IF termR >= denominator - resultR THEN 1 ELSE 0

\* Faulty variant: the lowest bit is cleared, nothing is shifted.
BitCleared == multiplier - (multiplier % 2)
Halved == multiplier \div 2

\* Faulty variant: the loop tests for the last bit only at its head, after one
\* doubling too many.
TestAtHead == IF multiplier = 0 THEN "done" ELSE "double"
AfterAdd == IF Halved = 0 THEN "done" ELSE "double"

BitIsSet == multiplier % 2 = 1

SumFits == Fits(resultQ + termQ) /\ Fits(resultQ + termQ + Carry)

AddTerm ==
    /\ pc = "add"
    /\ BitIsSet => SumFits
    /\ IF BitIsSet
       THEN /\ resultQ' = resultQ + termQ + Carry
            /\ resultR' = IF Carry = 1 THEN termR - (denominator - resultR)
                                       ELSE resultR + termR
       ELSE UNCHANGED <<resultQ, resultR>>
    /\ multiplier' = Halved
    /\ pc' = AfterAdd
    /\ UNCHANGED <<args, termQ, termR>>

AddOverflows ==
    /\ pc = "add"
    /\ BitIsSet /\ ~SumFits
    /\ pc' = "overflow"
    /\ UNCHANGED <<args, termQ, termR, resultQ, resultR, multiplier>>

(***************************************************************************)
(* The second half: double the term for the next bit.                      *)
(***************************************************************************)

DoubleCarry == IF termR >= denominator - termR THEN 1 ELSE 0

DoubleFits == Fits(termQ * 2) /\ Fits(termQ * 2 + DoubleCarry)

DoubleTerm ==
    /\ pc = "double"
    /\ DoubleFits
    /\ termR' = IF DoubleCarry = 1 THEN termR - (denominator - termR)
                                   ELSE termR + termR
    /\ termQ' = termQ * 2 + DoubleCarry
    /\ pc' = "add"
    /\ UNCHANGED <<args, resultQ, resultR, multiplier>>

DoubleOverflows ==
    /\ pc = "double"
    /\ ~DoubleFits
    /\ pc' = "overflow"
    /\ UNCHANGED <<args, termQ, termR, resultQ, resultR, multiplier>>

Next == \/ Reject \/ Enter
        \/ AddTerm \/ AddOverflows
        \/ DoubleTerm \/ DoubleOverflows

\* Sequential code: a call that can take a step takes it.
Spec == Init /\ [][Next]_vars /\ WF_vars(Next)

-----------------------------------------------------------------------------
(***************************************************************************)
(* Properties                                                              *)
(***************************************************************************)

\* Every register stays within i128, and so do the subtractions the code
\* leaves unchecked (`denominator - result_r`, `term_r - (denominator - ..)`).
TypeOK ==
    /\ pc \in {"entry", "add", "double", "done", "overflow"}
    /\ left \in -1 .. MaxI
    /\ right \in -1 .. MaxI
    /\ denominator \in -1 .. MaxI
    /\ termQ \in 0 .. MaxI
    /\ termR \in 0 .. MaxI
    /\ resultQ \in 0 .. MaxI
    /\ resultR \in 0 .. MaxI
    /\ multiplier \in 0 .. MaxI

\* When mul_div_parts returns Ok, it returns exactly
\* (floor(left * right / denominator), left * right % denominator).
ResultExact ==
    pc = "done" =>
        /\ resultQ = MulDivFloor(left, right, denominator)
        /\ resultR = MulDivRem(left, right, denominator)

\* mul_div_parts reports Overflow for no other reason than a bad argument or
\* a final quotient that does not fit in i128: no intermediate term overflows
\* when the result would have been representable.
OverflowOnlyWhenUnrepresentable ==
    pc = "overflow" =>
        BadArguments \/ ~Fits(MulDivFloor(left, right, denominator))

\* The loop ends: every call returns.
Terminates == <>Returned

\* The loop invariant: the partial sum and the terms still to be added make
\* up the product.  It is what the two properties above rest on.
Pending == (termQ * denominator + termR) * multiplier

LoopInv ==
    /\ pc \in {"add", "double", "done"} =>
        /\ ~BadArguments
        /\ termR < denominator
        /\ resultR < denominator
    /\ pc \in {"add", "double"} => multiplier > 0
    /\ pc = "add" =>
        Pending + resultQ * denominator + resultR = left * right
    /\ pc = "double" =>
        2 * Pending + resultQ * denominator + resultR = left * right
    /\ pc = "done" =>
        /\ multiplier = 0
        /\ resultQ * denominator + resultR = left * right
=============================================================================
