----------------------------- MODULE VaultMath ------------------------------
(***************************************************************************)
(* The checked integer arithmetic of the YieldVault contract               *)
(* (contracts/yield_vault/src/lib.rs).  Every amount of the contract is an *)
(* i128; an operation whose result leaves the type returns Overflow and    *)
(* the transaction is rolled back.  Operands are never negative, so only   *)
(* the upper end of the type, MaxI, matters.                               *)
(*                                                                         *)
(* The operators here give the value an operation returns when it          *)
(* succeeds; Fits is the test that it does.  MulDivLoop shows that the     *)
(* contract's doubling loop computes exactly MulDivFloor and its remainder *)
(* and fails exactly when the quotient does not fit.                       *)
(***************************************************************************)
EXTENDS Integers

CONSTANTS MaxI,         \* i128::MAX
          SimApyBps,    \* SIM_APY_BPS
          YieldDenom    \* YIELD_DENOM = BPS_DENOM * SIM_YEAR

ASSUME MaxIAssumption == MaxI \in Nat
ASSUME RateAssumption == SimApyBps \in Nat /\ YieldDenom \in Nat \ {0}

\* The result of a checked operation on non-negative operands is representable.
Fits(x) == x <= MaxI

MulDivFloor(left, right, denominator) == (left * right) \div denominator

MulDivRem(left, right, denominator) == (left * right) % denominator

MulDivCeil(left, right, denominator) ==
    MulDivFloor(left, right, denominator)
        + (IF MulDivRem(left, right, denominator) = 0 THEN 0 ELSE 1)

\* Faulty variant: a carried fraction that completes a unit is kept as well.
YieldPartsKeepingCarry(principal, elapsed, remainder) ==
    LET rateElapsed   == SimApyBps * elapsed
        whole         == MulDivFloor(principal, rateElapsed, YieldDenom)
        baseRemainder == MulDivRem(principal, rateElapsed, YieldDenom)
    IN  IF baseRemainder >= YieldDenom - remainder
        THEN [amount |-> whole + 1, rem |-> baseRemainder]
        ELSE [amount |-> whole, rem |-> baseRemainder + remainder]

(***************************************************************************)
(* simulated_yield_parts: the whole units of yield that `principal` earns  *)
(* in `elapsed` seconds, and the fraction (in units of 1/YieldDenom) that  *)
(* is carried to the next accrual together with the one carried so far.    *)
(***************************************************************************)
SimulatedYieldParts(principal, elapsed, remainder) ==
    LET rateElapsed   == SimApyBps * elapsed
        whole         == MulDivFloor(principal, rateElapsed, YieldDenom)
        baseRemainder == MulDivRem(principal, rateElapsed, YieldDenom)
    IN  IF baseRemainder >= YieldDenom - remainder
        THEN [amount |-> whole + 1,
              rem    |-> baseRemainder - (YieldDenom - remainder)]
        ELSE [amount |-> whole, rem |-> baseRemainder + remainder]

\* The two products of simulated_yield_parts that can leave i128.
YieldFits(principal, elapsed, remainder) ==
    /\ Fits(SimApyBps * elapsed)
    /\ Fits(SimulatedYieldParts(principal, elapsed, remainder).amount)
=============================================================================
