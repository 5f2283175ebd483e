-------------------------- MODULE MulDivLoopProofs --------------------------
(***************************************************************************)
(* Partial correctness of mul_div_parts for every size of the integer type *)
(* and all arguments: the loop invariant of MulDivLoop is inductive, and   *)
(* with it the function returns the exact quotient and remainder or fails  *)
(* because the quotient is not representable.                              *)
(***************************************************************************)
EXTENDS MulDivLoop, VaultMathLemmas

IInv == TypeOK /\ LoopInv /\ OverflowOnlyWhenUnrepresentable

\* The value of the current binary term left * 2^k.
Term == termQ * denominator + termR

\* The value summed so far.
Sum == resultQ * denominator + resultR

\* When a quotient and remainder make up part of the product, the floor of the
\* product is at least that quotient.
LEMMA PartOfProduct ==
    ASSUME NEW l \in Nat, NEW r \in Nat, NEW d \in Nat \ {0},
           NEW q \in Nat, q * d <= l * r, q > MaxI
    PROVE  ~Fits(MulDivFloor(l, r, d))
<1>1. l * r \in Nat
    BY MulNat
<1>2. q <= (l * r) \div d
    BY <1>1, DivLargest
<1>3. (l * r) \div d \in Nat
    BY <1>1, DivRem
<1> QED
    BY <1>2, <1>3, MaxIAssumption DEF Fits, MulDivFloor

LEMMA InitIInv == Init => IInv
BY MaxIAssumption DEF Init, IInv, TypeOK, LoopInv, OverflowOnlyWhenUnrepresentable

LEMMA EnterIInv ==
    ASSUME IInv, Enter PROVE IInv'
<1>1. /\ left \in 0 .. MaxI /\ right \in 0 .. MaxI /\ denominator \in 1 .. MaxI
      /\ left \in Nat /\ denominator \in Nat \ {0} /\ MaxI \in Nat
    BY MaxIAssumption DEF IInv, TypeOK, Enter, BadArguments
<1>2. PICK q \in Nat, r \in 0 .. denominator - 1 :
          /\ q = left \div denominator /\ r = left % denominator
          /\ left = q * denominator + r
    BY <1>1, DivRem
<1>3. q <= MaxI
    <2>1. q * 1 <= q * denominator
        BY <1>1
    <2> QED
        BY <1>1, <1>2, <2>1
<1>4. termQ' = q /\ termR' = r /\ resultQ' = 0 /\ resultR' = 0 /\ multiplier' = right
    BY <1>2 DEF Enter
<1>5. UNCHANGED args
    BY DEF Enter
<1>6. CASE right > 0
    <2>1. pc' = "add"
        BY <1>6 DEF Enter
    <2>2. TypeOK'
        BY <1>1, <1>2, <1>3, <1>4, <1>5, <2>1 DEF TypeOK, args
    <2>3. Pending' + resultQ' * denominator' + resultR' = left' * right'
        <3>1. Pending' = left * right
            BY <1>2, <1>4, <1>5 DEF Pending, args
        <3> QED
            BY <1>1, <1>4, <1>5, <3>1 DEF args
    <2> QED
        BY <1>1, <1>2, <1>4, <1>5, <1>6, <2>1, <2>2, <2>3
        DEF IInv, LoopInv, OverflowOnlyWhenUnrepresentable, BadArguments, args
<1>7. CASE right = 0
    <2>1. pc' = "done"
        BY <1>7 DEF Enter
    <2>2. TypeOK'
        BY <1>1, <1>2, <1>3, <1>4, <1>5, <2>1 DEF TypeOK, args
    <2>3. resultQ' * denominator' + resultR' = left' * right'
        BY <1>1, <1>4, <1>5, <1>7 DEF args
    <2> QED
        BY <1>1, <1>2, <1>4, <1>5, <1>7, <2>1, <2>2, <2>3
        DEF IInv, LoopInv, OverflowOnlyWhenUnrepresentable, BadArguments, args
<1> QED
    BY <1>1, <1>6, <1>7

LEMMA RejectIInv ==
    ASSUME IInv, Reject PROVE IInv'
BY DEF IInv, TypeOK, LoopInv, OverflowOnlyWhenUnrepresentable, Reject, args,
       BadArguments

\* What the invariant says inside the loop, with the types of the registers.
LEMMA InLoop ==
    ASSUME IInv, pc \in {"add", "double"}
    PROVE  /\ MaxI \in Nat
           /\ left \in 0 .. MaxI /\ right \in 0 .. MaxI
           /\ denominator \in 1 .. MaxI
           /\ termQ \in 0 .. MaxI /\ resultQ \in 0 .. MaxI
           /\ termR \in 0 .. denominator - 1 /\ resultR \in 0 .. denominator - 1
           /\ multiplier \in 1 .. MaxI
           /\ Term \in Nat /\ Sum \in Nat
           /\ Term * multiplier \in Nat
           /\ pc = "add" => Term * multiplier + Sum = left * right
           /\ pc = "double" => 2 * (Term * multiplier) + Sum = left * right
<1>1. /\ MaxI \in Nat
      /\ left \in 0 .. MaxI /\ right \in 0 .. MaxI
      /\ denominator \in 1 .. MaxI
      /\ termQ \in 0 .. MaxI /\ resultQ \in 0 .. MaxI
      /\ termR \in 0 .. denominator - 1 /\ resultR \in 0 .. denominator - 1
      /\ multiplier \in 1 .. MaxI
    BY MaxIAssumption DEF IInv, TypeOK, LoopInv, BadArguments
<1>2. termQ * denominator \in Nat /\ resultQ * denominator \in Nat
    BY <1>1, MulNat
<1>3. Term \in Nat /\ Sum \in Nat
    BY <1>1, <1>2 DEF Term, Sum
<1>4. Term * multiplier \in Nat
    BY <1>1, <1>3, MulNat
<1>5. pc = "add" => Term * multiplier + Sum = left * right
    <2>1. pc = "add" => Pending + resultQ * denominator + resultR = left * right
        BY DEF IInv, LoopInv
    <2> QED
        BY <1>1, <1>2, <1>4, <2>1 DEF Pending, Term, Sum
<1>6. pc = "double" => 2 * (Term * multiplier) + Sum = left * right
    <2>1. pc = "double" =>
              2 * Pending + resultQ * denominator + resultR = left * right
        BY DEF IInv, LoopInv
    <2> QED
        BY <1>1, <1>2, <1>4, <2>1 DEF Pending, Term, Sum
<1> QED
    BY <1>1, <1>3, <1>4, <1>5, <1>6

\* Adding the term with its carry adds its value and leaves a proper remainder.
LEMMA CarryAdds ==
    ASSUME NEW d \in Nat \ {0}, NEW p \in Nat, NEW q \in Nat,
           NEW r \in 0 .. d - 1, NEW s \in 0 .. d - 1,
           NEW c \in {0, 1}, c = 1 <=> r >= d - s
    PROVE  LET t == IF c = 1 THEN r - (d - s) ELSE s + r
           IN  /\ t \in 0 .. d - 1
               /\ (p + q + c) * d + t = (p * d + s) + (q * d + r)
<1>1. (p + q + c) * d = p * d + q * d + c * d
    OBVIOUS
<1>2. c * d = IF c = 1 THEN d ELSE 0
    OBVIOUS
<1>3. p * d \in Nat /\ q * d \in Nat
    BY MulNat
<1> QED
    BY <1>1, <1>2, <1>3

LEMMA AddTermIInv ==
    ASSUME IInv, AddTerm PROVE IInv'
<1>1. pc = "add"
    BY DEF AddTerm
<1> USE <1>1
<1>2. /\ MaxI \in Nat
      /\ left \in 0 .. MaxI /\ right \in 0 .. MaxI
      /\ denominator \in 1 .. MaxI
      /\ termQ \in 0 .. MaxI /\ resultQ \in 0 .. MaxI
      /\ termR \in 0 .. denominator - 1 /\ resultR \in 0 .. denominator - 1
      /\ multiplier \in 1 .. MaxI
      /\ Term \in Nat /\ Sum \in Nat
      /\ Term * multiplier + Sum = left * right
    BY InLoop
<1>3. UNCHANGED <<left, right, denominator, termQ, termR>>
    BY DEF AddTerm, args
<1>4. PICK half \in Nat, bit \in {0, 1} :
          /\ half = multiplier \div 2 /\ bit = multiplier % 2
          /\ multiplier = 2 * half + bit
    BY <1>2
<1>5. multiplier' = half
    BY <1>4 DEF AddTerm, Halved
<1>6. pc' = IF half = 0 THEN "done" ELSE "double"
    BY <1>4 DEF AddTerm, AfterAdd, Halved
\* The sum grows by the term exactly when the bit is set.
<1>7. /\ resultQ' \in 0 .. MaxI /\ resultR' \in 0 .. denominator - 1
      /\ Sum' = IF bit = 1 THEN Sum + Term ELSE Sum
    <2>1. CASE bit = 1
        <3>1. resultQ + termQ + Carry <= MaxI
            BY <1>4, <2>1 DEF AddTerm, BitIsSet, SumFits, Fits
        <3>2. Carry \in {0, 1} /\ (Carry = 1 <=> termR >= denominator - resultR)
            BY DEF Carry
        <3>3. /\ resultQ' = resultQ + termQ + Carry
              /\ resultR' = IF Carry = 1 THEN termR - (denominator - resultR)
                                         ELSE resultR + termR
            BY <1>4, <2>1 DEF AddTerm, BitIsSet
        <3>4. /\ resultR' \in 0 .. denominator - 1
              /\ (resultQ + termQ + Carry) * denominator + resultR'
                     = (resultQ * denominator + resultR) + (termQ * denominator + termR)
            BY <1>2, <3>2, <3>3, CarryAdds
        <3>5. resultQ' \in 0 .. MaxI
            BY <1>2, <3>1, <3>2, <3>3
        <3> QED
            BY <1>3, <2>1, <3>3, <3>4, <3>5 DEF Sum, Term
    <2>2. CASE bit = 0
        BY <1>2, <1>3, <1>4, <2>2 DEF AddTerm, BitIsSet, Sum
    <2> QED
        BY <2>1, <2>2
\* Half of the terms are left, each worth twice as much.
<1>8. Term * multiplier = 2 * (Term * half) + (IF bit = 1 THEN Term ELSE 0)
    BY <1>2, <1>4
<1>9. 2 * (Term * half) + Sum' = left * right
    BY <1>2, <1>4, <1>7, <1>8, MulNat
<1>10. Sum' = resultQ' * denominator + resultR'
    BY <1>3 DEF Sum
<1>11. TypeOK'
    BY <1>2, <1>3, <1>4, <1>5, <1>6, <1>7 DEF TypeOK
<1>12. ~BadArguments' /\ termR' < denominator' /\ resultR' < denominator'
    BY <1>2, <1>3, <1>7 DEF BadArguments
<1>13. CASE half = 0
    <2>1. resultQ' * denominator' + resultR' = left' * right'
        BY <1>2, <1>3, <1>9, <1>10, <1>13
    <2> QED
        BY <1>5, <1>6, <1>11, <1>12, <1>13, <2>1
        DEF IInv, LoopInv, OverflowOnlyWhenUnrepresentable
<1>14. CASE half # 0
    <2>1. Pending' = Term * half
        BY <1>3, <1>5 DEF Pending, Term
    <2>2. 2 * Pending' + resultQ' * denominator' + resultR' = left' * right'
        <3>1. resultQ' * denominator' \in Int /\ Term * half \in Int
            BY <1>2, <1>3, <1>4, <1>7
        <3>2. 2 * Pending' + Sum' = left' * right'
            BY <1>3, <1>9, <2>1
        <3>3. Sum' = resultQ' * denominator' + resultR'
            BY DEF Sum
        <3>4. 2 * Pending' \in Int /\ resultR' \in Int
            BY <1>7, <2>1, <3>1
        <3> QED
            BY <3>1, <3>2, <3>3, <3>4
    <2> QED
        BY <1>4, <1>5, <1>6, <1>11, <1>12, <1>14, <2>2
        DEF IInv, LoopInv, OverflowOnlyWhenUnrepresentable
<1> QED
    BY <1>13, <1>14

LEMMA AddOverflowsIInv ==
    ASSUME IInv, AddOverflows PROVE IInv'
<1>1. pc = "add" /\ pc' = "overflow"
    BY DEF AddOverflows
<1>2. /\ MaxI \in Nat
      /\ left \in 0 .. MaxI /\ right \in 0 .. MaxI
      /\ denominator \in 1 .. MaxI
      /\ termQ \in 0 .. MaxI /\ resultQ \in 0 .. MaxI
      /\ termR \in 0 .. denominator - 1 /\ resultR \in 0 .. denominator - 1
      /\ multiplier \in 1 .. MaxI
      /\ Term \in Nat /\ Sum \in Nat
      /\ Term * multiplier + Sum = left * right
    BY <1>1, InLoop
<1>3. Carry \in {0, 1} /\ (Carry = 1 <=> termR >= denominator - resultR)
    BY DEF Carry
<1>4. resultQ + termQ + Carry > MaxI
    BY <1>2, <1>3 DEF AddOverflows, SumFits, Fits
<1>5. (resultQ + termQ + Carry) * denominator <= Sum + Term
    <2> DEFINE t == IF Carry = 1 THEN termR - (denominator - resultR)
                                 ELSE resultR + termR
    <2>1. /\ t \in 0 .. denominator - 1
          /\ (resultQ + termQ + Carry) * denominator + t
                 = (resultQ * denominator + resultR) + (termQ * denominator + termR)
        BY <1>2, <1>3, CarryAdds
    <2>2. (resultQ + termQ + Carry) * denominator \in Int
        BY <1>2, <1>3
    <2> QED
        BY <1>2, <2>1, <2>2 DEF Sum, Term
<1>6. Term * 1 <= Term * multiplier
    BY <1>2
<1>7. (resultQ + termQ + Carry) * denominator <= left * right
    <2>1. (resultQ + termQ + Carry) * denominator \in Int
        BY <1>2, <1>3
    <2>2. Term * multiplier \in Int
        BY <1>2
    <2> QED
        BY <1>2, <1>5, <1>6, <2>1, <2>2
<1>8. ~Fits(MulDivFloor(left, right, denominator))
    BY <1>2, <1>3, <1>4, <1>7, PartOfProduct
<1>9. UNCHANGED <<left, right, denominator, termQ, termR, resultQ, resultR, multiplier>>
    BY DEF AddOverflows, args
<1> QED
    BY <1>1, <1>8, <1>9
    DEF IInv, TypeOK, LoopInv, OverflowOnlyWhenUnrepresentable, MulDivFloor, Fits

LEMMA DoubleTermIInv ==
    ASSUME IInv, DoubleTerm PROVE IInv'
<1>1. pc = "double" /\ pc' = "add"
    BY DEF DoubleTerm
<1>2. /\ MaxI \in Nat
      /\ left \in 0 .. MaxI /\ right \in 0 .. MaxI
      /\ denominator \in 1 .. MaxI
      /\ termQ \in 0 .. MaxI /\ resultQ \in 0 .. MaxI
      /\ termR \in 0 .. denominator - 1 /\ resultR \in 0 .. denominator - 1
      /\ multiplier \in 1 .. MaxI
      /\ Term \in Nat /\ Sum \in Nat
      /\ 2 * (Term * multiplier) + Sum = left * right
    BY <1>1, InLoop
<1>3. DoubleCarry \in {0, 1} /\ (DoubleCarry = 1 <=> termR >= denominator - termR)
    BY DEF DoubleCarry
<1>4. /\ termQ' = termQ * 2 + DoubleCarry
      /\ termR' = IF DoubleCarry = 1 THEN termR - (denominator - termR)
                                     ELSE termR + termR
      /\ UNCHANGED <<left, right, denominator, resultQ, resultR, multiplier>>
      /\ termQ * 2 + DoubleCarry <= MaxI
    BY DEF DoubleTerm, args, DoubleFits, Fits
<1>5. /\ termR' \in 0 .. denominator - 1
      /\ (termQ + termQ + DoubleCarry) * denominator + termR'
             = (termQ * denominator + termR) + (termQ * denominator + termR)
    BY <1>2, <1>3, <1>4, CarryAdds
<1>6. termQ' = termQ + termQ + DoubleCarry
    BY <1>2, <1>3, <1>4
<1>7. termQ' * denominator + termR' = 2 * Term
    BY <1>2, <1>5, <1>6 DEF Term
<1>8. Pending' = 2 * (Term * multiplier)
    BY <1>2, <1>4, <1>7 DEF Pending
<1>9. Pending' + resultQ' * denominator' + resultR' = left' * right'
    <2>1. resultQ * denominator \in Int /\ Term * multiplier \in Int
        BY <1>2
    <2> QED
        BY <1>2, <1>4, <1>8, <2>1 DEF Sum
<1>10. TypeOK'
    BY <1>1, <1>2, <1>3, <1>4, <1>5 DEF TypeOK
<1> QED
    BY <1>1, <1>2, <1>4, <1>5, <1>9, <1>10
    DEF IInv, LoopInv, OverflowOnlyWhenUnrepresentable, BadArguments

LEMMA DoubleOverflowsIInv ==
    ASSUME IInv, DoubleOverflows PROVE IInv'
<1>1. pc = "double" /\ pc' = "overflow"
    BY DEF DoubleOverflows
<1>2. /\ MaxI \in Nat
      /\ left \in 0 .. MaxI /\ right \in 0 .. MaxI
      /\ denominator \in 1 .. MaxI
      /\ termQ \in 0 .. MaxI /\ resultQ \in 0 .. MaxI
      /\ termR \in 0 .. denominator - 1 /\ resultR \in 0 .. denominator - 1
      /\ multiplier \in 1 .. MaxI
      /\ Term \in Nat /\ Sum \in Nat
      /\ 2 * (Term * multiplier) + Sum = left * right
    BY <1>1, InLoop
<1>3. DoubleCarry \in {0, 1} /\ (DoubleCarry = 1 <=> termR >= denominator - termR)
    BY DEF DoubleCarry
<1>4. termQ + termQ + DoubleCarry > MaxI
    BY <1>2, <1>3 DEF DoubleOverflows, DoubleFits, Fits
<1>5. (termQ + termQ + DoubleCarry) * denominator <= Term + Term
    <2> DEFINE t == IF DoubleCarry = 1 THEN termR - (denominator - termR)
                                       ELSE termR + termR
    <2>1. /\ t \in 0 .. denominator - 1
          /\ (termQ + termQ + DoubleCarry) * denominator + t
                 = (termQ * denominator + termR) + (termQ * denominator + termR)
        BY <1>2, <1>3, CarryAdds
    <2>2. (termQ + termQ + DoubleCarry) * denominator \in Int
        BY <1>2, <1>3
    <2> QED
        BY <1>2, <2>1, <2>2 DEF Term
<1>6. Term * 1 <= Term * multiplier
    BY <1>2
<1>7. (termQ + termQ + DoubleCarry) * denominator <= left * right
    <2>1. (termQ + termQ + DoubleCarry) * denominator \in Int
        BY <1>2, <1>3
    <2>2. Term * multiplier \in Int
        BY <1>2
    <2> QED
        BY <1>2, <1>5, <1>6, <2>1, <2>2
<1>8. ~Fits(MulDivFloor(left, right, denominator))
    BY <1>2, <1>3, <1>4, <1>7, PartOfProduct
<1>9. UNCHANGED <<left, right, denominator, termQ, termR, resultQ, resultR, multiplier>>
    BY DEF DoubleOverflows, args
<1> QED
    BY <1>1, <1>8, <1>9
    DEF IInv, TypeOK, LoopInv, OverflowOnlyWhenUnrepresentable, MulDivFloor, Fits

\* The loop invariant, the register types and the meaning of an overflow are
\* preserved by every step of mul_div_parts.
THEOREM LoopInvariance == Spec => []IInv
<1>1. IInv /\ [Next]_vars => IInv'
    <2> SUFFICES ASSUME IInv, [Next]_vars PROVE IInv'
        OBVIOUS
    <2>1. CASE UNCHANGED vars
        BY <2>1 DEF vars, args, IInv, TypeOK, LoopInv, BadArguments, Pending,
                    OverflowOnlyWhenUnrepresentable, MulDivFloor, Fits
    <2> QED
        BY <2>1, RejectIInv, EnterIInv, AddTermIInv, AddOverflowsIInv,
           DoubleTermIInv, DoubleOverflowsIInv DEF Next
<1> QED
    BY <1>1, InitIInv, PTL DEF Spec

\* Every register of mul_div_parts stays within i128, for every i128: none of its
\* unchecked subtractions can go wrong.
THEOREM LoopTypeCorrect == Spec => []TypeOK
<1>1. IInv => TypeOK
    BY DEF IInv
<1> QED
    BY <1>1, LoopInvariance, PTL

\* What mul_div_parts returns is the exact quotient and remainder.
THEOREM LoopResultExact == Spec => []ResultExact
<1>1. IInv => ResultExact
    <2> SUFFICES ASSUME IInv, pc = "done"
                 PROVE  /\ resultQ = (left * right) \div denominator
                        /\ resultR = (left * right) % denominator
        BY DEF ResultExact, MulDivFloor, MulDivRem
    <2>1. /\ left \in Nat /\ right \in Nat /\ denominator \in Nat \ {0}
          /\ resultQ \in Int /\ resultR \in 0 .. denominator - 1
          /\ left * right = resultQ * denominator + resultR
        BY MaxIAssumption DEF IInv, TypeOK, LoopInv, BadArguments
    <2>2. left * right \in Nat
        BY <2>1, MulNat
    <2> QED
        BY <2>1, <2>2, DivRemUnique
<1> QED
    BY <1>1, LoopInvariance, PTL

\* mul_div_parts fails only on bad arguments or an unrepresentable quotient.
THEOREM LoopOverflowExact == Spec => []OverflowOnlyWhenUnrepresentable
<1>1. IInv => OverflowOnlyWhenUnrepresentable
    BY DEF IInv
<1> QED
    BY <1>1, LoopInvariance, PTL
=============================================================================
