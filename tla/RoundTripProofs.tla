--------------------------- MODULE RoundTripProofs ---------------------------
(***************************************************************************)
(* Proofs about the round trip script for every vault, every deposit and   *)
(* every number of runs: that all it does to the vault are calls of the    *)
(* contract, that the margin it leaves when it sizes the redemption        *)
(* suffices, and which of its checks can raise a false alarm, and when.    *)
(*                                                                         *)
(* The inductive invariant TripInv says what the script knows at each      *)
(* stage: how the records it has read relate to the vault as it is now.    *)
(* What can change between a read and its use is the accrued yield only,   *)
(* and that is followed to the last fraction of a unit: reads round it,    *)
(* the fractions that AccruedFractions counts are exact.                   *)
(***************************************************************************)
EXTENDS RoundTrip, YieldVaultProofs

State == [principal : Nat, accrued : Nat, shares : Nat, lastTs : Nat]

Holdings == [vault : Nat, user : Nat]

Preparing == {"read start", "check start", "deposit"}
Minted    == {"read deposit", "check deposit"}
Waiting   == {"wait", "read accrual", "again", "read again"}
Sizing    == {"redeem all", "build redeem", "redeem"}
Steps     == {"idle", "final"} \cup Preparing \cup Minted \cup Waiting \cup Sizing

Script == [at : Steps, deposit : Nat, seenAt : Nat, shares : Int, value : Int,
           start : State, after : State, state1 : State, state2 : State,
           startBalances : Holdings, afterBalances : Holdings]

ScriptTyped ==
    /\ script \in Script
    /\ script.at # "idle" => script.deposit \in Deposits

(***************************************************************************)
(* Yield to the last fraction: what has accrued (or was ever credited) by  *)
(* now, in units of 1 / YieldDenom.  Crystallizing does not change it, and *)
(* every second of the clock adds principal * SimApyBps.  EarnedSince is   *)
(* what the principal has earned since a time.                             *)
(***************************************************************************)
EarnedSince(time) == acct.principal * (SimApyBps * (now - time))

Fractions(units) == units * YieldDenom + acct.rem + EarnedSince(acct.lastTs)

AccruedFractions  == Fractions(acct.accrued)
CreditedFractions == Fractions(credited)

\* The most fractions that all runs can be credited in a second.
MaxRate == SimApyBps * (MaxRuns * Endowment)

\* The runs whose deposit may have been made.
DepositsMade == IF script.at \in Preparing THEN runs - 1 ELSE runs

\* The vault has had no other holder than the script, was never paused and never
\* given tokens for its yield.
OnlyHolder ==
    /\ funded = 0 /\ ~acct.paused /\ now <= MaxTime
    /\ acct.accrued <= credited
    /\ shareOf[Deployer] = acct.shares
    /\ token[Deployer] + token[Vault] = Endowment
    /\ script.at # "idle" => Initialized

\* So its yield is bounded by what the runs can have deposited.
YieldBounded ==
    /\ runs \in 0 .. MaxRuns /\ DepositsMade \in Nat
    /\ acct.principal <= DepositsMade * Endowment
    /\ CreditedFractions <= MaxRate * now

\* What the script has read before its deposit is what is there.
StartSeen ==
    /\ script.at \in {"check start", "deposit"} =>
           /\ script.start.principal = acct.principal
           /\ script.start.shares = acct.shares
    /\ script.at = "check start" => Assets(script.start) >= token[Vault]
    /\ script.at = "deposit" => script.startBalances = Balances

\* The deposit has changed what was read by what it should.
DepositSeen ==
    script.at \in Minted =>
        /\ script.value > 0
        /\ acct.shares = script.start.shares + script.value
        /\ acct.principal = script.start.principal + script.deposit
        /\ token[Vault] = script.startBalances.vault + script.deposit
        /\ script.startBalances.user = token[Deployer] + script.deposit
        /\ script.start.shares = 0 => script.value = script.deposit

\* Until the script redeems, its deposit earns and nobody moves a token or a share.
PositionHeld ==
    /\ script.at \in Minted \cup Waiting \cup Sizing =>
           /\ acct.shares > 0
           /\ acct.principal >= script.deposit
    /\ script.at \in Waiting \cup Sizing => script.afterBalances = Balances

\* The yield it waits for comes, counted from the read or from the pause.
YieldSeen ==
    /\ script.at = "check deposit" =>
           /\ script.after.shares = acct.shares
           /\ script.after.principal = acct.principal
           /\ Assets(script.after) >= script.after.shares
           /\ script.after.accrued * YieldDenom <= AccruedFractions
    /\ script.at = "wait" =>
           /\ script.seenAt <= now
           /\ script.after.accrued * YieldDenom + EarnedSince(script.seenAt)
                  <= AccruedFractions
    /\ script.at = "read accrual" =>
           script.after.accrued * YieldDenom + YieldDenom <= AccruedFractions
    /\ script.at \in {"again", "read again"} => YieldDenom <= AccruedFractions

\* The totals the redemption is sized by are less than the yield since then and one
\* unit from the current ones.
SizeSeen ==
    /\ script.at \in Sizing =>
           /\ script.state2.principal = acct.principal
           /\ script.state2.shares = acct.shares
           /\ script.state2.accrued >= 1 /\ script.seenAt <= now
           /\ script.state2.accrued * YieldDenom <= AccruedFractions
           /\ AccruedFractions < script.state2.accrued * YieldDenom + YieldDenom
                                     + EarnedSince(script.seenAt)
    /\ script.at = "redeem" =>
           /\ script.shares = RedeemableShares
           /\ script.shares > 0 /\ script.shares <= acct.shares

\* The redemption has changed what was there by what it should.
RedemptionSeen ==
    script.at = "final" =>
        /\ script.value > 0 /\ script.value >= FloorPayout
        /\ token[Vault] = Liquidity - script.value
        /\ token[Deployer] = script.afterBalances.user + script.value
        /\ acct.shares = script.state2.shares - script.shares

\* The checks that no theorem is about: those that compare with the rate, and those
\* that hold only while a share is worth less than a third of MarginUnits.
RoundingChecks == RateChecks \cup {"drained", "recovered"}

\* No other check ever fails.
ChecksHold == failed \subseteq RoundingChecks

\* What those two rest on, once the redemption has been executed: a share is worth
\* less than a third of MarginUnits, and the fee allowance covers the margin.  The
\* source has MarginUnits of 1000, so it is a price of 333 and more for a share that
\* starts at one; its margin is some 8500 units, its allowance ten million.
ShareIsCheap     == 3 * Assets(script.state2) <= (MarginUnits - 1) * script.state2.shares
FeesCoverMargin  == MarginAssets + MarginUnits <= FeeAllowance

RedemptionAffordable == script.at = "final" => ShareIsCheap /\ FeesCoverMargin

\* What the deposit moved, and how the redemption that was executed had been sized.
DepositMoved ==
    /\ script.at \in Waiting \cup Sizing \cup {"final"} =>
           /\ script.afterBalances.vault = script.startBalances.vault + script.deposit
           /\ script.startBalances.user = script.afterBalances.user + script.deposit
    /\ script.at = "final" =>
           /\ script.shares = RedeemableShares /\ script.shares > 0
           /\ script.state2.shares > 0 /\ script.state2.shares <= script.state2.principal
           /\ script.value <= Liquidity

\* What the vault is like, which the theorems about the contract give.
VaultFacts == IInv /\ PrincipalOutlastsShares /\ ShortfallIsUnfundedYield

\* What the script has seen.
Seen == StartSeen /\ DepositSeen /\ PositionHeld /\ YieldSeen /\ SizeSeen /\ RedemptionSeen

TripInv == VaultFacts /\ ScriptTyped /\ OnlyHolder /\ YieldBounded /\ Seen /\ ChecksHold

-----------------------------------------------------------------------------
(***************************************************************************)
(* Every step of the script is a call of the contract                      *)
(***************************************************************************)
LEMMA Amounts0 ==
    ASSUME IInv
    PROVE  /\ acct \in Record /\ acct.principal \in Nat /\ acct.accrued \in Nat
           /\ acct.rem \in 0 .. YieldDenom - 1 /\ acct.shares \in Nat
           /\ acct.lastTs \in Nat /\ acct.lastTs <= now /\ now \in Nat
           /\ PendingYield(acct) \in Nat /\ credited \in Nat
           /\ token[Vault] \in Nat /\ token[Deployer] \in Nat
           /\ shareOf[Deployer] \in 0 .. MaxI /\ Deployer \in Users /\ Deployer # Vault
<1>1. acct \in Record
    BY SoundIsBacked DEF IInv, Backed
<1>2. /\ now \in Nat /\ acct.lastTs <= now /\ credited \in Nat
      /\ token \in [Users \cup {Vault} -> Nat] /\ shareOf \in [Users -> 0 .. MaxI]
    BY DEF IInv, TypeOK
<1>3. Deployer \in Users /\ Deployer # Vault
    BY DeployerAssumption, UsersAssumption
<1> QED
    BY <1>1, <1>2, <1>3, PendingNat DEF Record

\* Reads of the vault are records of natural numbers.
LEMMA ReadsTyped ==
    ASSUME IInv
    PROVE  VaultState \in State /\ Balances \in Holdings
BY Amounts0 DEF VaultState, Balances, State, Holdings

LEMMA NothingReadTyped == NoState \in State /\ NoBalances \in Holdings
BY DEF NoState, NoBalances, State, Holdings

\* What the script computes from typed records is an integer.
LEMMA SizesTyped ==
    ASSUME ScriptTyped, script.state2.shares <= script.state2.principal,
           script.state2.shares > 0
    PROVE  RedeemableShares \in Int
<1> DEFINE p == script.state2.principal
           s == script.state2.shares
           d == Assets(script.state2)
<1>1. p \in Nat /\ s \in Nat /\ d \in Nat \ {0} /\ Liquidity \in Nat
    BY DEF ScriptTyped, Script, State, Holdings, Assets, Liquidity
<1>2. AssetsPerSecond \in Nat
    BY <1>1, RateAssumption, FloorCeil DEF AssetsPerSecond
<1>3. MarginAssets \in Nat
    BY <1>2, ScriptAssumption, MulNat DEF MarginAssets
<1> HIDE DEF p, s, d
<1>4. MulDivFloor(MarginAssets, s, d) \in Nat /\ MulDivFloor(Liquidity, s, d) \in Nat
    BY <1>1, <1>3, FloorCeil
<1> QED
    BY <1>4 DEF RedeemableShares, MarginShares, s, d

\* Neither the script nor the others do anything to the vault but call it.
LEMMA TripStepIsVaultStep ==
    ASSUME IInv, ScriptTyped, [TripNext]_tripVars
    PROVE  [Next]_vars
<1>1. CASE UNCHANGED tripVars
    BY <1>1 DEF tripVars
<1>2. CASE MakeDeposit
    <2>1. Deposit(Deployer, script.deposit) /\ script.deposit \in Nat
        BY <1>2 DEF MakeDeposit, ScriptTyped, Script
    <2>2. script.deposit <= MaxI
        <3>1. Fits(Accrue(acct).principal + script.deposit)
            BY <2>1 DEF Deposit
        <3>2. Accrue(acct).principal \in Nat
            BY Amounts0, AccrueKeepsPrincipal
        <3> QED
            BY <2>1, <3>1, <3>2, MaxIAssumption DEF Fits
    <2>3. script.deposit \in Amounts
        BY <2>1, <2>2, MaxIAssumption DEF Amounts
    <2> QED
        BY <2>1, <2>3, DeployerAssumption DEF Next
<1>3. CASE MakeRedeem
    <2>1. /\ Redeem(Deployer, script.shares) /\ script.shares > 0
          /\ script.shares <= shareOf[Deployer] /\ script.shares \in Int
        BY <1>3 DEF MakeRedeem, ScriptTyped, Script, Redeem, CanRedeem, Settlable
    <2>2. script.shares \in Amounts
        BY <2>1, Amounts0, MaxIAssumption DEF Amounts
    <2> QED
        BY <2>1, <2>2, DeployerAssumption DEF Next
<1>4. CASE Crystallize
    BY <1>4 DEF Crystallize, Next
<1>5. CASE Others
    BY <1>5, DeployerAssumption DEF Others, Next
<1>6. CASE \/ Begin \/ ReadStart \/ CheckStart \/ ReadDeposit \/ CheckDeposit
           \/ CheckAccrual \/ CheckAgain \/ RedeemAll \/ BuildRedeem
           \/ RedeemFails \/ CheckFinal \/ Interrupted
    BY <1>6 DEF Begin, ReadStart, CheckStart, ReadDeposit, CheckDeposit, CheckAccrual,
                CheckAgain, RedeemAll, BuildRedeem, RedeemFails, CheckFinal, Interrupted
<1> QED
    BY <1>1, <1>2, <1>3, <1>4, <1>5, <1>6 DEF TripNext, Stage

\* So what is true of the contract stays true.
LEMMA VaultFactsStep ==
    ASSUME VaultFacts, [Next]_vars
    PROVE  VaultFacts'
<1>1. IInv'
    BY StepIInv DEF VaultFacts
<1>2. PrincipalOutlastsShares'
    BY DepositKeepsPrincipal, RedemptionKeepsPrincipal, OthersKeepPrincipal
    DEF VaultFacts, Next
<1>3. ShortfallIsUnfundedYield'
    BY ShortfallStep DEF VaultFacts
<1> QED
    BY <1>1, <1>2, <1>3 DEF VaultFacts

-----------------------------------------------------------------------------
(***************************************************************************)
(* Fractions of yield                                                      *)
(***************************************************************************)

\* Accruing cuts the fractions of now into whole units and a remainder.
LEMMA FractionsAccrue ==
    ASSUME IInv, NEW c \in Nat
    PROVE  /\ Accrue(acct).rem \in 0 .. YieldDenom - 1
           /\ Fractions(c) = (c + PendingYield(acct)) * YieldDenom + Accrue(acct).rem
<1> DEFINE e == now - acct.lastTs
           y == PendingYield(acct)
           r == Accrue(acct).rem
<1>1. /\ acct \in Record /\ e \in Nat /\ acct.principal \in Nat /\ now \in Nat
      /\ acct.lastTs \in Nat /\ acct.rem \in 0 .. YieldDenom - 1 /\ y \in Nat
    BY Amounts0
<1>2. r = IF NothingDue(acct) THEN acct.rem ELSE Due(acct).rem
    BY <1>1, Amounts0, AccrueExact
<1>3. /\ y * YieldDenom + r = acct.rem + acct.principal * (SimApyBps * e)
      /\ r \in 0 .. YieldDenom - 1
    <2>1. CASE NothingDue(acct)
        <3>1. e = 0 \/ acct.principal = 0
            BY <1>1, <2>1, Amounts0 DEF NothingDue
        <3>2. SimApyBps * e \in Nat /\ (e = 0 => SimApyBps * e = 0)
            BY <1>1, RateAssumption
        <3>3. acct.principal * (SimApyBps * e) = 0
            BY <1>1, <3>1, <3>2
        <3>4. y = 0 /\ r = acct.rem
            BY <1>2, <2>1 DEF PendingYield
        <3> HIDE DEF y, r, e
        <3> QED
            BY <1>1, <3>3, <3>4, RateAssumption
    <2>2. CASE ~NothingDue(acct)
        <3>1. y = SimulatedYieldParts(acct.principal, e, acct.rem).amount
            BY <2>2 DEF PendingYield, Due
        <3>2. r = SimulatedYieldParts(acct.principal, e, acct.rem).rem
            BY <1>2, <2>2 DEF Due
        <3> HIDE DEF y, r, e
        <3>3. SimApyBps * e \in Nat
            BY <1>1, RateAssumption
        <3>4. acct.principal * (SimApyBps * e) \in Nat
            BY <1>1, <3>3, MulNat
        <3>5. acct.rem \in Int
            BY <1>1
        <3> QED
            BY <1>1, <3>1, <3>2, <3>4, <3>5, YieldPartsExact
    <2> QED
        BY <2>1, <2>2
<1>4. Fractions(c) = c * YieldDenom + acct.rem + acct.principal * (SimApyBps * e)
    BY DEF Fractions, EarnedSince
<1>5. SimApyBps * e \in Nat
    BY <1>1, RateAssumption
<1>6. acct.principal * (SimApyBps * e) \in Nat
    BY <1>1, <1>5, MulNat
<1> HIDE DEF y, r, e
<1>7. (c + y) * YieldDenom = c * YieldDenom + y * YieldDenom
      /\ c * YieldDenom \in Nat /\ y * YieldDenom \in Nat
    BY <1>1, RateAssumption, MulNat
<1> QED
    BY <1>1, <1>3, <1>4, <1>6, <1>7, RateAssumption DEF y, r

\* A view rounds the fractions down.
LEMMA FractionsRead ==
    ASSUME IInv, NEW c \in Nat
    PROVE  /\ Fractions(c) \in Nat
           /\ (c + PendingYield(acct)) * YieldDenom <= Fractions(c)
           /\ Fractions(c) < (c + PendingYield(acct)) * YieldDenom + YieldDenom
<1> DEFINE q == (c + PendingYield(acct)) * YieldDenom
           r == Accrue(acct).rem
<1>1. q \in Nat /\ r \in 0 .. YieldDenom - 1 /\ Fractions(c) = q + r
    BY FractionsAccrue, Amounts0, RateAssumption, MulNat
<1> HIDE DEF q, r
<1>2. /\ Fractions(c) \in Nat /\ q <= Fractions(c) /\ Fractions(c) < q + YieldDenom
    BY <1>1, RateAssumption
<1> QED
    BY <1>2 DEF q

\* A step that leaves a record accrued up to now.
LEMMA FractionsAfter ==
    ASSUME acct' \in Record, acct'.lastTs = now', NEW c \in Nat
    PROVE  Fractions(c)' = c * YieldDenom + acct'.rem
<1>1. acct'.principal \in Nat /\ acct'.rem \in Nat /\ acct'.lastTs \in Nat
    BY RateAssumption DEF Record
<1> PICK p \in Nat, r \in Nat, t \in Nat :
        p = acct'.principal /\ r = acct'.rem /\ t = acct'.lastTs
    BY <1>1
<1>2. Fractions(c)' = c * YieldDenom + r + p * (SimApyBps * (t - t))
    BY DEF Fractions, EarnedSince
<1>3. SimApyBps * (t - t) = 0
    BY RateAssumption
<1>4. p * (SimApyBps * (t - t)) = 0
    BY <1>3
<1>5. c * YieldDenom \in Nat
    BY RateAssumption, MulNat
<1> QED
    BY <1>2, <1>4, <1>5

\* What accrued_yield and the calls that accrue first do to the fractions: they keep
\* them, but for a part of the remainder that a redemption drops.
LEMMA AccruedCarried ==
    ASSUME IInv, acct' \in Record, acct'.lastTs = now', acct'.rem = Accrue(acct).rem,
           acct'.accrued = acct.accrued + PendingYield(acct)
    PROVE  AccruedFractions' = AccruedFractions
<1> PICK c \in Nat : c = acct'.accrued
    BY DEF Record
<1>1. AccruedFractions' = c * YieldDenom + acct'.rem
    BY FractionsAfter DEF AccruedFractions, Fractions
<1>2. AccruedFractions = c * YieldDenom + Accrue(acct).rem
    BY Amounts0, FractionsAccrue DEF AccruedFractions
<1> QED
    BY <1>1, <1>2

LEMMA CreditedCarried ==
    ASSUME IInv, acct' \in Record, acct'.lastTs = now', acct'.rem <= Accrue(acct).rem,
           credited' = credited + PendingYield(acct)
    PROVE  CreditedFractions' <= CreditedFractions
<1> PICK c \in Nat : c = credited' /\ c = credited + PendingYield(acct)
    BY Amounts0
<1>1. CreditedFractions' = c * YieldDenom + acct'.rem
    BY FractionsAfter DEF CreditedFractions, Fractions
<1>2. CreditedFractions = c * YieldDenom + Accrue(acct).rem
      /\ Accrue(acct).rem \in 0 .. YieldDenom - 1
    BY Amounts0, FractionsAccrue DEF CreditedFractions
<1>3. c * YieldDenom \in Nat /\ acct'.rem \in Nat
    BY RateAssumption, MulNat DEF Record
<1> QED
    BY <1>1, <1>2, <1>3, RateAssumption

\* Every second adds the yield of the principal at the rate.
LEMMA FractionsTick ==
    ASSUME IInv, acct' = acct, now' = now + 1, NEW c \in Nat
    PROVE  Fractions(c)' = Fractions(c) + acct.principal * SimApyBps
<1> DEFINE p == acct.principal
           e == now - acct.lastTs
           m == SimApyBps * e
<1>1. p \in Nat /\ e \in Nat /\ (now + 1) - acct.lastTs = e + 1 /\ acct.rem \in 0 .. YieldDenom - 1
    BY Amounts0
<1>2. SimApyBps * (e + 1) = m + SimApyBps /\ m \in Nat /\ SimApyBps \in Nat
    BY <1>1, RateAssumption
<1>3. Fractions(c) = c * YieldDenom + acct.rem + p * m
    BY DEF Fractions, EarnedSince
<1>4. Fractions(c)' = c * YieldDenom + acct.rem + p * (m + SimApyBps)
    <2>1. Fractions(c)' = c * YieldDenom + acct.rem + p * (SimApyBps * ((now + 1) - acct.lastTs))
        BY DEF Fractions, EarnedSince
    <2> HIDE DEF e, m, p
    <2> QED
        BY <1>1, <1>2, <2>1
<1> HIDE DEF p, e, m
<1>5. p * (m + SimApyBps) = p * m + p * SimApyBps /\ p * m \in Nat /\ p * SimApyBps \in Nat
    BY <1>1, <1>2
<1>6. c * YieldDenom \in Nat /\ acct.rem \in Int
    BY <1>1, RateAssumption, MulNat
<1> QED
    BY <1>3, <1>4, <1>5, <1>6 DEF p

-----------------------------------------------------------------------------
(***************************************************************************)
(* What the script's steps and the others' do to the vault                 *)
(***************************************************************************)
LEMMA CrystallizeEffect ==
    ASSUME IInv, AccrueYield
    PROVE  /\ acct'.principal = acct.principal /\ acct'.shares = acct.shares
           /\ acct'.paused = acct.paused
           /\ acct'.accrued = acct.accrued + PendingYield(acct)
           /\ credited' = credited + PendingYield(acct)
           /\ AccruedFractions' = AccruedFractions
           /\ CreditedFractions' <= CreditedFractions
           /\ UNCHANGED <<admin, shareOf, token, now, funded>>
<1>1. /\ acct' = Accrue(acct) /\ credited' = credited + PendingYield(acct)
      /\ UNCHANGED <<admin, shareOf, token, now, funded>>
    BY DEF AccrueYield
<1>2. /\ Accrue(acct) \in Record
      /\ acct'.principal = acct.principal /\ acct'.shares = acct.shares
      /\ acct'.paused = acct.paused /\ acct'.lastTs = now
      /\ acct'.accrued = acct.accrued + PendingYield(acct)
    BY <1>1, Amounts0, AccrueExact
<1>3. AccruedFractions' = AccruedFractions
    BY <1>1, <1>2, AccruedCarried
<1>4. CreditedFractions' <= CreditedFractions
    <2>1. Accrue(acct).rem \in Int
        BY FractionsAccrue, RateAssumption
    <2> QED
        BY <1>1, <1>2, <2>1, CreditedCarried
<1> QED
    BY <1>1, <1>2, <1>3, <1>4

LEMMA TickEffect ==
    ASSUME IInv, LedgerTick
    PROVE  /\ now' = now + 1 /\ now' <= MaxTime
           /\ AccruedFractions' = AccruedFractions + acct.principal * SimApyBps
           /\ CreditedFractions' = CreditedFractions + acct.principal * SimApyBps
           /\ UNCHANGED <<admin, acct, shareOf, token, funded, credited>>
<1>1. /\ now' = now + 1 /\ now < MaxTime
      /\ UNCHANGED <<admin, acct, shareOf, token, funded, credited>>
    BY DEF LedgerTick
<1>2. PICK a \in Nat, c \in Nat : a = acct.accrued /\ c = credited
    BY Amounts0
<1>3. /\ Fractions(a)' = Fractions(a) + acct.principal * SimApyBps
      /\ Fractions(c)' = Fractions(c) + acct.principal * SimApyBps
    BY <1>1, FractionsTick
<1>4. now' <= MaxTime
    BY <1>1, Amounts0, BoundsAssumption
<1> QED
    BY <1>1, <1>2, <1>3, <1>4 DEF AccruedFractions, CreditedFractions, Fractions

LEMMA MakeDepositEffect ==
    ASSUME IInv, NEW x \in Nat, Deposit(Deployer, x), shareOf[Deployer] = acct.shares
    PROVE  LET s == SharesFor(Accrue(acct), x)
           IN  /\ x > 0 /\ x <= token[Deployer] /\ s \in Nat /\ s > 0
               /\ acct'.principal = acct.principal + x
               /\ acct'.shares = acct.shares + s
               /\ acct.shares = 0 => s = x
               /\ acct'.paused = acct.paused
               /\ acct'.accrued = acct.accrued + PendingYield(acct)
               /\ credited' = credited + PendingYield(acct)
               /\ AccruedFractions' = AccruedFractions
               /\ CreditedFractions' <= CreditedFractions
               /\ token'[Deployer] = token[Deployer] - x
               /\ token'[Vault] = token[Vault] + x
               /\ shareOf'[Deployer] = acct'.shares
               /\ UNCHANGED <<admin, now, funded>>
<1> DEFINE a == Accrue(acct)
           s == SharesFor(a, x)
<1>1. /\ x > 0 /\ s > 0 /\ token[Deployer] >= x
      /\ token' = [token EXCEPT ![Deployer] = @ - x, ![Vault] = @ + x]
      /\ acct' = [a EXCEPT !.principal = @ + x, !.shares = @ + s]
      /\ shareOf' = [shareOf EXCEPT ![Deployer] = @ + s]
      /\ credited' = credited + PendingYield(acct)
      /\ UNCHANGED <<admin, now, funded>>
    BY DEF Deposit
<1>2. /\ a \in Record /\ a.shares = acct.shares /\ a.principal = acct.principal
      /\ a.lastTs = now /\ a.paused = acct.paused
      /\ a.accrued = acct.accrued + PendingYield(acct) /\ a.rem \in 0 .. YieldDenom - 1
    BY Amounts0, AccrueExact DEF Record
<1>3. s \in Nat /\ (acct.shares = 0 => s = x)
    <2>1. CASE a.shares = 0
        BY <1>2, <2>1 DEF SharesFor
    <2>2. CASE a.shares # 0
        <3>1. TotalAccounted(a) \in Nat \ {0} /\ a.shares \in Nat
            BY <1>2, <2>2, Amounts0, CurrentRecord
        <3> HIDE DEF a
        <3> QED
            BY <1>2, <2>2, <3>1, FloorCeil DEF SharesFor
    <2> QED
        BY <2>1, <2>2
<1> HIDE DEF s, a
<1>4. /\ acct'.principal = acct.principal + x /\ acct'.shares = acct.shares + s
      /\ acct'.paused = acct.paused /\ acct'.lastTs = now' /\ acct'.rem = a.rem
      /\ acct'.accrued = acct.accrued + PendingYield(acct)
    BY <1>1, <1>2 DEF Record
<1>5. acct' \in Record
    <2>1. acct.principal + x \in Nat /\ acct.shares + s \in Nat
        BY <1>3, Amounts0
    <2> QED
        BY <1>1, <1>2, <2>1 DEF Record
<1>6. AccruedFractions' = AccruedFractions
    BY <1>4, <1>5, AccruedCarried DEF a
<1>7. CreditedFractions' <= CreditedFractions
    <2>1. acct'.rem <= a.rem
        BY <1>2, <1>4, RateAssumption
    <2> QED
        BY <1>1, <1>4, <1>5, <2>1, CreditedCarried DEF a
<1>8. /\ token'[Deployer] = token[Deployer] - x /\ token'[Vault] = token[Vault] + x
      /\ shareOf'[Deployer] = shareOf[Deployer] + s
    <2>1. /\ Deployer \in DOMAIN token /\ Vault \in DOMAIN token /\ Deployer # Vault
          /\ Deployer \in DOMAIN shareOf
        BY Amounts0 DEF IInv, TypeOK
    <2> QED
        BY <1>1, <2>1
<1>9. x <= token[Deployer]
    BY <1>1, Amounts0
<1> QED
    BY <1>1, <1>3, <1>4, <1>6, <1>7, <1>8, <1>9 DEF s, a

LEMMA MakeRedeemEffect ==
    ASSUME IInv, NEW n \in Int, Redeem(Deployer, n), shareOf[Deployer] = acct.shares
    PROVE  LET x == AssetsFor(Accrue(acct), n)
           IN  /\ n > 0 /\ n <= acct.shares /\ x \in Nat /\ x > 0 /\ x <= token[Vault]
               /\ acct'.principal \in 0 .. acct.principal
               /\ acct'.shares = acct.shares - n
               /\ acct'.paused = acct.paused
               /\ acct'.accrued <= acct.accrued + PendingYield(acct)
               /\ credited' = credited + PendingYield(acct)
               /\ CreditedFractions' <= CreditedFractions
               /\ token'[Deployer] = token[Deployer] + x
               /\ token'[Vault] = token[Vault] - x
               /\ shareOf'[Deployer] = acct'.shares
               /\ UNCHANGED <<admin, now, funded>>
<1> DEFINE a == Accrue(acct)
           x == AssetsFor(a, n)
<1>1. /\ CanAccrue /\ n > 0 /\ n <= acct.shares /\ token[Vault] >= x
      /\ acct' = Settle(a, x, n)
      /\ token' = [token EXCEPT ![Vault] = @ - x, ![Deployer] = @ + x]
      /\ shareOf' = [shareOf EXCEPT ![Deployer] = @ - n]
      /\ credited' = credited + PendingYield(acct)
      /\ UNCHANGED <<admin, now, funded>>
    BY DEF Redeem, CanRedeem, Settlable, PayOut
<1>2. /\ a \in Record /\ a.shares = acct.shares /\ a.principal = acct.principal
      /\ a.lastTs = now /\ a.paused = acct.paused
      /\ a.accrued = acct.accrued + PendingYield(acct)
    BY Amounts0, AccrueExact
<1>3. Sound(a) /\ Backed(a)
    BY <1>1, AfterAccrual, SoundIsBacked
<1>4. n \in 1 .. a.shares
    BY <1>1, <1>2, Amounts0
<1>5. x \in 1 .. TotalAccounted(a) /\ x \in Nat
    <2>1. x \in 1 .. TotalAccounted(a)
        BY <1>3, <1>4, RedeemAmount
    <2>2. TotalAccounted(a) \in Nat
        BY CurrentRecord
    <2> QED
        BY <2>1, <2>2
<1> HIDE DEF x, a
<1>6. /\ acct' \in Record /\ acct'.principal \in 0 .. a.principal
      /\ acct'.accrued \in 0 .. a.accrued /\ acct'.rem \in 0 .. a.rem
      /\ acct'.shares = a.shares - n /\ acct'.lastTs = a.lastTs /\ acct'.paused = a.paused
    BY <1>1, <1>3, <1>4, <1>5, SettleExact
<1>7. acct'.accrued <= acct.accrued + PendingYield(acct)
    BY <1>2, <1>6, Amounts0
<1>8. CreditedFractions' <= CreditedFractions
    <2>1. acct'.rem <= a.rem
        BY <1>2, <1>6, RateAssumption DEF Record
    <2> QED
        BY <1>1, <1>2, <1>6, <2>1, CreditedCarried DEF a
<1>9. /\ token'[Deployer] = token[Deployer] + x /\ token'[Vault] = token[Vault] - x
      /\ shareOf'[Deployer] = shareOf[Deployer] - n
    <2>1. /\ Deployer \in DOMAIN token /\ Vault \in DOMAIN token /\ Deployer # Vault
          /\ Deployer \in DOMAIN shareOf
        BY Amounts0 DEF IInv, TypeOK
    <2> QED
        BY <1>1, <2>1
<1>10. x <= token[Vault] /\ x > 0
    BY <1>1, <1>5, Amounts0
<1> QED
    BY <1>1, <1>2, <1>5, <1>6, <1>7, <1>8, <1>9, <1>10 DEF x, a

-----------------------------------------------------------------------------
(***************************************************************************)
(* The margin                                                              *)
(***************************************************************************)

\* A vault without tokens for its yield owes all of it on top of what it holds.
LEMMA Owed ==
    ASSUME VaultFacts, OnlyHolder
    PROVE  /\ TotalCurrent = acct.principal + (acct.accrued + PendingYield(acct))
           /\ TotalCurrent = token[Vault] + (credited + PendingYield(acct))
           /\ TotalCurrent >= token[Vault] + (acct.accrued + PendingYield(acct))
<1>1. TotalAccounted(acct) - token[Vault] = credited - 0 /\ acct.accrued <= credited
    BY DEF VaultFacts, OnlyHolder, ShortfallIsUnfundedYield
<1>2. TotalAccounted(acct) = acct.principal + acct.accrued
      /\ TotalCurrent = TotalAccounted(acct) + PendingYield(acct)
    BY DEF TotalAccounted, TotalCurrent
<1> QED
    BY <1>1, <1>2, Amounts0 DEF VaultFacts

\* All that is ever credited is far below the limits of the type.
LEMMA CreditedFits ==
    ASSUME VaultFacts, OnlyHolder, YieldBounded
    PROVE  credited + PendingYield(acct) <= MaxI - Endowment
<1> DEFINE u == credited + PendingYield(acct)
<1>1. u \in Nat /\ u * YieldDenom <= CreditedFractions
    BY Amounts0, FractionsRead DEF VaultFacts, CreditedFractions
<1>2. MaxRate \in Nat
    <2>1. MaxRuns * Endowment \in Nat
        BY ScriptAssumption, BoundsAssumption, MulNat
    <2> QED
        BY <2>1, RateAssumption, MulNat DEF MaxRate
<1>3. MaxRate * now <= MaxRate * MaxTime /\ MaxRate * MaxTime \in Nat /\ MaxRate * now \in Nat
    <2>1. now \in Nat /\ now <= MaxTime /\ MaxTime \in Nat
        BY Amounts0, BoundsAssumption DEF VaultFacts, OnlyHolder
    <2> QED
        BY <1>2, <2>1
<1>4. Endowment + MaxRate * MaxTime <= MaxI
    BY SizeAssumption DEF MaxRate
<1>5. CreditedFractions <= MaxRate * now /\ CreditedFractions \in Nat
    BY Amounts0, FractionsRead DEF YieldBounded, VaultFacts, CreditedFractions
<1>6. u <= u * YieldDenom /\ u * YieldDenom \in Nat
    BY <1>1, RateAssumption
<1> HIDE DEF u
<1>7. u <= MaxI - Endowment
    BY <1>1, <1>3, <1>4, <1>5, <1>6, BoundsAssumption, MaxIAssumption
<1> QED
    BY <1>7 DEF u

\* So no call of the script fails for an overflow.
LEMMA NothingOverflows ==
    ASSUME VaultFacts, OnlyHolder, YieldBounded
    PROVE  AccrualFits(acct) /\ Fits(TotalAccounted(Accrue(acct)))
<1> DEFINE y == PendingYield(acct)
<1>1. /\ credited + y <= MaxI - Endowment /\ acct.accrued <= credited
      /\ y \in Nat /\ credited \in Nat /\ acct.accrued \in Nat
    BY CreditedFits, Amounts0 DEF VaultFacts, OnlyHolder
<1>2. Fits(acct.accrued + y) /\ Fits(y)
    BY <1>1, BoundsAssumption, MaxIAssumption DEF Fits
<1>3. Fits(TotalAccounted(Accrue(acct)))
    <2>1. TotalAccounted(Accrue(acct)) = token[Vault] + (credited + y)
        BY Owed, CurrentRecord DEF VaultFacts
    <2>2. token[Vault] <= Endowment
        BY Amounts0, BoundsAssumption DEF VaultFacts, OnlyHolder
    <2> HIDE DEF y
    <2> QED
        BY <1>1, <2>1, <2>2, Amounts0, BoundsAssumption, MaxIAssumption DEF Fits, VaultFacts
<1>4. Fits(SimApyBps * (now - acct.lastTs))
    <2> DEFINE e == now - acct.lastTs
    <2>1. e \in Nat /\ e <= MaxTime /\ MaxTime \in Nat
        BY Amounts0, BoundsAssumption DEF VaultFacts, OnlyHolder
    <2> HIDE DEF e
    <2>2. SimApyBps * e <= SimApyBps * MaxTime /\ SimApyBps * e \in Nat
          /\ SimApyBps * MaxTime \in Nat
        BY <2>1, RateAssumption
    <2> QED
        BY <2>2, SizeAssumption, MaxIAssumption DEF Fits, e
<1>5. CASE NothingDue(acct)
    BY <1>3, <1>5 DEF AccrualFits
<1>6. CASE ~NothingDue(acct)
    <2>1. y = SimulatedYieldParts(acct.principal, now - acct.lastTs, acct.rem).amount
        BY <1>6 DEF PendingYield, Due
    <2> QED
        BY <1>2, <1>3, <1>4, <2>1 DEF AccrualFits, YieldFits
<1> QED
    BY <1>5, <1>6

\* The arithmetic of the margin.  S shares were sized at a price of T / S for L tokens,
\* with a margin of M; R of them are paid at most L after a yield of up to M.
LEMMA MarginCovers ==
    ASSUME NEW T \in Nat, NEW S \in Nat \ {0}, S <= T, NEW L \in Nat, NEW M \in Nat,
           NEW y \in 0 .. M, NEW R \in 1 .. S,
           R = MulDivFloor(L, S, T) - (MulDivFloor(M, S, T) + 2)
    PROVE  MulDivFloor(R, T + y, S) \in 1 .. L
<1> DEFINE q == MulDivFloor(L, S, T)
           m == MulDivFloor(M, S, T)
           k == MulDivFloor(R, T + y, S)
<1>1. T \in Nat \ {0} /\ S \in Nat /\ R \in Nat /\ y \in Nat /\ T + y \in Nat
    OBVIOUS
<1>2. q \in Nat /\ q * T <= L * S
    BY <1>1, FloorCeil
<1>3. m \in Nat /\ M * S < m * T + T
    BY <1>1, FloorCeil
<1>4. k \in Nat /\ k * S <= R * (T + y) /\ R * (T + y) < k * S + S
    BY <1>1, FloorCeil
<1>5. q = R + m + 2
    BY <1>2, <1>3
<1> HIDE DEF q, m, k
<1>6. q * T = R * T + m * T + 2 * T /\ R * T \in Nat /\ m * T \in Nat
    BY <1>1, <1>3, <1>5
<1>7. R * (T + y) = R * T + R * y
    BY <1>1
<1>8. R * y <= S * M
    <2>1. R * y <= S * y
        BY <1>1, MulMono
    <2>2. S * y <= S * M
        BY <1>1
    <2> QED
        BY <1>1, <2>1, <2>2
<1>9. S * M = M * S /\ M * S \in Nat /\ L * S \in Nat /\ R * y \in Nat /\ k * S \in Nat
    BY <1>1, <1>4
<1>10. k * S <= L * S
    BY <1>2, <1>3, <1>4, <1>6, <1>7, <1>8, <1>9
<1>11. k <= L
    BY <1>4, <1>10, MulCancel
<1>12. k # 0
    <2> SUFFICES ASSUME k = 0 PROVE FALSE
        OBVIOUS
    <2>1. R * (T + y) < S
        BY <1>4
    <2>2. 1 * T <= R * T
        BY <1>1, MulMono
    <2> QED
        BY <1>1, <1>6, <1>7, <1>9, <2>1, <2>2
<1> QED
    BY <1>4, <1>11, <1>12 DEF k

\* A count of units that is within a fraction count, and one that is just above it.
LEMMA UnitsBelow ==
    ASSUME NEW a \in Int, NEW b \in Int, a * YieldDenom < b * YieldDenom + YieldDenom
    PROVE  a <= b
<1> SUFFICES ASSUME b + 1 <= a PROVE FALSE
    OBVIOUS
<1>1. (b + 1) * YieldDenom <= a * YieldDenom
    BY RateAssumption, MulMono
<1>2. (b + 1) * YieldDenom = b * YieldDenom + YieldDenom
    BY RateAssumption
<1>3. a * YieldDenom \in Int /\ b * YieldDenom \in Int
    BY RateAssumption
<1> QED
    BY <1>1, <1>2, <1>3, RateAssumption

\* What is read of the accrued yield is the whole units of its fractions.
LEMMA AccruedRead ==
    ASSUME IInv
    PROVE  LET v == acct.accrued + PendingYield(acct)
           IN  /\ v \in Nat /\ AccruedFractions \in Nat
               /\ v * YieldDenom <= AccruedFractions
               /\ AccruedFractions < v * YieldDenom + YieldDenom
               /\ \A c \in Nat : c * YieldDenom <= AccruedFractions => c <= v
<1> DEFINE v == acct.accrued + PendingYield(acct)
<1>1. v \in Nat /\ AccruedFractions \in Nat /\ v * YieldDenom <= AccruedFractions
      /\ AccruedFractions < v * YieldDenom + YieldDenom
    BY Amounts0, FractionsRead DEF AccruedFractions
<1> HIDE DEF v
<1>2. ASSUME NEW c \in Nat, c * YieldDenom <= AccruedFractions
      PROVE  c <= v
    <2>1. c * YieldDenom \in Int /\ v * YieldDenom \in Int
        BY <1>1, RateAssumption
    <2>2. c * YieldDenom < v * YieldDenom + YieldDenom
        BY <1>1, <1>2, <2>1, RateAssumption
    <2> QED
        BY <1>1, <2>2, UnitsBelow
<1> QED
    BY <1>1, <1>2 DEF v

\* While a redemption is sized the yield has grown, but by no more than the time since
\* the read has added, and a rounding.
LEMMA YieldSinceSizing ==
    ASSUME IInv, ScriptTyped, SizeSeen, script.at \in Sizing,
           now <= script.seenAt + MarginSeconds
    PROVE  (acct.accrued + PendingYield(acct)) - script.state2.accrued \in 0 .. MarginAssets
<1> DEFINE v == acct.accrued + PendingYield(acct)
           z == script.state2.accrued
           p == acct.principal
           n == now - script.seenAt
           q == AssetsPerSecond
           m == MarginAssets
<1>1. /\ v \in Nat /\ AccruedFractions \in Nat /\ v * YieldDenom <= AccruedFractions
      /\ \A c \in Nat : c * YieldDenom <= AccruedFractions => c <= v
    BY AccruedRead
<1>2. /\ z \in Nat /\ z * YieldDenom <= AccruedFractions
      /\ AccruedFractions < z * YieldDenom + YieldDenom + p * (SimApyBps * n)
    BY DEF SizeSeen, ScriptTyped, Script, State, EarnedSince
<1>3. p \in Nat /\ n \in Nat /\ n <= MarginSeconds /\ MarginSeconds \in Nat
    BY Amounts0, ScriptAssumption DEF SizeSeen, ScriptTyped, Script
<1>4. q \in Nat /\ p * SimApyBps < q * YieldDenom + YieldDenom
    <2>1. q = MulDivFloor(p, SimApyBps, YieldDenom)
        BY DEF AssetsPerSecond, SizeSeen
    <2> HIDE DEF p, q
    <2> QED
        BY <1>3, <2>1, RateAssumption, FloorCeil
<1>5. m = q * MarginSeconds + MarginUnits /\ m \in Nat
    <2>1. m = q * MarginSeconds + MarginUnits
        BY DEF MarginAssets
    <2> HIDE DEF q, m
    <2> QED
        BY <1>4, <2>1, ScriptAssumption, MulNat
<1> HIDE DEF v, z, p, n, q, m
<1>6. (q + 1) * n <= m
    <2>1. (q + 1) * n <= (q + 1) * MarginSeconds
        BY <1>3, <1>4
    <2>2. (q + 1) * MarginSeconds = q * MarginSeconds + MarginSeconds
        BY <1>3, <1>4
    <2>3. MarginSeconds <= MarginUnits /\ MarginUnits \in Nat
        BY MarginAssumption, ScriptAssumption
    <2>4. (q + 1) * n \in Nat /\ q * MarginSeconds \in Nat
        BY <1>3, <1>4
    <2> QED
        BY <1>3, <1>5, <2>1, <2>2, <2>3, <2>4
<1>7. p * (SimApyBps * n) <= m * YieldDenom
    <2>1. p * (SimApyBps * n) = (p * SimApyBps) * n
        BY <1>3, RateAssumption
    <2>2. p * SimApyBps \in Nat /\ q * YieldDenom + YieldDenom = (q + 1) * YieldDenom
        BY <1>3, <1>4, RateAssumption
    <2>3. (q + 1) * YieldDenom \in Nat
        BY <1>4, RateAssumption
    <2>4. (p * SimApyBps) * n <= ((q + 1) * YieldDenom) * n
        <3>1. p * SimApyBps <= (q + 1) * YieldDenom
            BY <1>4, <2>2, <2>3
        <3> QED
            BY <1>3, <2>2, <2>3, <3>1, MulMono
    <2>5. ((q + 1) * YieldDenom) * n = ((q + 1) * n) * YieldDenom
        BY <1>3, <1>4, RateAssumption
    <2>6. ((q + 1) * n) * YieldDenom <= m * YieldDenom
        <3>1. (q + 1) * n \in Nat
            BY <1>3, <1>4
        <3> QED
            BY <1>5, <1>6, <3>1, RateAssumption, MulMono
    <2> DEFINE h == (p * SimApyBps) * n
               i == ((q + 1) * n) * YieldDenom
    <2>7. h \in Int /\ i \in Int /\ m * YieldDenom \in Int
        BY <1>3, <1>4, <1>5, <2>2, RateAssumption
    <2>8. h <= i /\ i <= m * YieldDenom /\ p * (SimApyBps * n) = h
        BY <2>1, <2>4, <2>5, <2>6
    <2> HIDE DEF h, i
    <2> QED
        BY <2>7, <2>8
<1>8. v <= z + m
    <2> DEFINE w == p * (SimApyBps * n)
    <2>1. w \in Int
        BY <1>3, RateAssumption
    <2>2. (z + m) * YieldDenom = z * YieldDenom + m * YieldDenom
          /\ z * YieldDenom \in Int /\ m * YieldDenom \in Int /\ v * YieldDenom \in Int
        BY <1>1, <1>2, <1>5, RateAssumption
    <2> HIDE DEF w
    <2>3. w <= m * YieldDenom /\ AccruedFractions < z * YieldDenom + YieldDenom + w
        BY <1>2, <1>7 DEF w
    <2>4. v * YieldDenom < (z + m) * YieldDenom + YieldDenom
        BY <1>1, <2>1, <2>2, <2>3, RateAssumption
    <2> QED
        BY <1>1, <1>2, <1>5, <2>4, UnitsBelow
<1>9. z <= v
    BY <1>1, <1>2
<1> QED
    BY <1>1, <1>2, <1>5, <1>8, <1>9 DEF v, z, m

\* A redemption sized with the margin can be executed for as long as the margin lasts.
LEMMA MarginLasts ==
    ASSUME TripInv
    PROVE  MarginSuffices
<1> SUFFICES ASSUME script.at = "redeem", now <= script.seenAt + MarginSeconds
             PROVE  CanRedeem(Deployer, script.shares)
    BY DEF MarginSuffices
<1> DEFINE a == Accrue(acct)
           s2 == script.state2
           y == (acct.accrued + PendingYield(acct)) - s2.accrued
           T == Assets(s2)
           S == s2.shares
           R == script.shares
           L == Liquidity
           M == MarginAssets
<1>1. IInv /\ ScriptTyped /\ SizeSeen /\ PositionHeld /\ OnlyHolder /\ VaultFacts
      /\ YieldBounded /\ PrincipalOutlastsShares
    BY DEF TripInv, VaultFacts, Seen
<1>2. /\ s2.principal = acct.principal /\ S = acct.shares /\ s2.accrued \in Nat
      /\ R = RedeemableShares /\ R > 0 /\ R <= acct.shares /\ R \in Int
      /\ acct.shares > 0 /\ L = token[Vault]
    <2>1. script.at \in Sizing /\ script.at \in Minted \cup Waiting \cup Sizing
          /\ script.at \in Waiting \cup Sizing
        BY DEF Sizing
    <2>2. s2 \in State /\ R \in Int
        BY <1>1 DEF ScriptTyped, Script
    <2>3. script.afterBalances = Balances
        BY <1>1, <2>1 DEF PositionHeld
    <2>4. L = token[Vault]
        BY <2>3 DEF Liquidity, Balances
    <2> QED
        BY <1>1, <2>1, <2>2, <2>4 DEF SizeSeen, PositionHeld, State
<1>3. y \in 0 .. M
    BY <1>1, YieldSinceSizing, ScriptAssumption DEF Sizing
<1>4. /\ T \in Nat /\ S \in Nat \ {0} /\ S <= T /\ L \in Nat /\ R \in 1 .. S
      /\ TotalAccounted(a) = T + y /\ a.shares = S
    BY <1>1, <1>2, Amounts0, CurrentRecord, Owed DEF Assets, PrincipalOutlastsShares
<1>5. M \in Nat
    <2>1. AssetsPerSecond = MulDivFloor(acct.principal, SimApyBps, YieldDenom)
        BY <1>2 DEF AssetsPerSecond
    <2>2. AssetsPerSecond \in Nat
        BY <1>1, <2>1, Amounts0, RateAssumption, FloorCeil
    <2>3. MarginSeconds \in Nat /\ MarginUnits \in Nat
        BY ScriptAssumption
    <2>4. AssetsPerSecond * MarginSeconds \in Nat
        BY <2>2, <2>3, MulNat
    <2> QED
        BY <2>3, <2>4 DEF MarginAssets
<1>6. R = MulDivFloor(L, S, T) - (MulDivFloor(M, S, T) + 2)
    BY <1>2 DEF RedeemableShares, MarginShares
<1> HIDE DEF y, T, S, R, L, M
<1>7. MulDivFloor(R, T + y, S) \in 1 .. L
    BY <1>3, <1>4, <1>5, <1>6, MarginCovers
<1>8. AssetsFor(a, R) \in 1 .. L
    BY <1>4, <1>7 DEF AssetsFor
<1>9. CanAccrue /\ Fits(TotalAccounted(a))
    <2>1. Initialized /\ ~acct.paused
        BY <1>1 DEF OnlyHolder
    <2> QED
        BY <1>1, <2>1, NothingOverflows DEF CanAccrue
<1>10. shareOf[Deployer] = acct.shares
    BY <1>1 DEF OnlyHolder
<1>11. Settlable(Deployer, a, AssetsFor(a, R), R) /\ R > 0
    BY <1>2, <1>4, <1>8, <1>10 DEF Settlable
<1> QED
    BY <1>9, <1>11 DEF CanRedeem, R

-----------------------------------------------------------------------------
(***************************************************************************)
(* The vault while the script is its only holder                           *)
(***************************************************************************)
LEMMA TripInitInv == TripInit => TripInv
<1> SUFFICES ASSUME TripInit PROVE TripInv
    OBVIOUS
<1>1. /\ Init /\ script = Idle /\ failed = {} /\ runs = 0
      /\ admin = NoUser /\ now = 0 /\ funded = 0 /\ credited = 0
      /\ acct = [principal |-> 0, accrued |-> 0, rem |-> 0, shares |-> 0,
                 lastTs |-> 0, paused |-> FALSE]
      /\ token[Vault] = 0 /\ token[Deployer] = Endowment /\ shareOf[Deployer] = 0
    BY DeployerAssumption, UsersAssumption DEF TripInit, Init
<1>2. VaultFacts
    BY <1>1, InitIInv DEF VaultFacts, PrincipalOutlastsShares, ShortfallIsUnfundedYield,
                          TotalAccounted
<1>3. script.at = "idle" /\ ScriptTyped
    BY <1>1, NothingReadTyped DEF ScriptTyped, Script, Idle, Steps
<1>4. OnlyHolder
    BY <1>1, <1>3, BoundsAssumption DEF OnlyHolder
<1>5. YieldBounded
    <2>1. DepositsMade = 0
        BY <1>1, <1>3 DEF DepositsMade, Preparing
    <2>2. MaxRate \in Int
        BY RateAssumption, ScriptAssumption, BoundsAssumption, MulNat DEF MaxRate
    <2>3. CreditedFractions = 0
        <3>1. CreditedFractions = 0 * YieldDenom + 0 + 0 * (SimApyBps * (0 - 0))
            BY <1>1 DEF CreditedFractions, Fractions, EarnedSince
        <3> QED
            BY <3>1, RateAssumption
    <2> QED
        BY <1>1, <2>1, <2>2, <2>3, ScriptAssumption, BoundsAssumption DEF YieldBounded
<1>6. Seen
    BY <1>3 DEF Seen, StartSeen, DepositSeen, PositionHeld, YieldSeen, SizeSeen,
                RedemptionSeen, Minted, Waiting, Sizing
<1>7. ChecksHold
    BY <1>1 DEF ChecksHold
<1> QED
    BY <1>2, <1>3, <1>4, <1>5, <1>6, <1>7 DEF TripInv

\* The steps that only read the vault.
Reading ==
    \/ Begin \/ ReadStart \/ CheckStart \/ ReadDeposit \/ CheckDeposit \/ CheckAccrual
    \/ CheckAgain \/ RedeemAll \/ BuildRedeem \/ RedeemFails \/ CheckFinal \/ Interrupted

\* They are made on an initialized vault and count a run once.
LEMMA ReadingCounts ==
    ASSUME ScriptTyped, Reading, runs \in 0 .. MaxRuns, DepositsMade \in Nat,
           script.at # "idle" => Initialized
    PROVE  /\ UNCHANGED vars
           /\ script'.at # "idle" => Initialized
           /\ runs' \in 0 .. MaxRuns /\ DepositsMade' \in Nat /\ DepositsMade' >= DepositsMade
<1>1. CASE Begin
    <2>1. /\ script.at = "idle" /\ script'.at = "read start" /\ runs' = runs + 1
          /\ runs < MaxRuns /\ Initialized /\ UNCHANGED vars
        BY <1>1 DEF Begin, Idle
    <2>2. DepositsMade = runs /\ DepositsMade' = runs' - 1
        BY <2>1 DEF DepositsMade, Preparing
    <2>3. runs \in Nat /\ MaxRuns \in Nat
        BY ScriptAssumption
    <2>4. runs' - 1 = runs /\ runs' \in 0 .. MaxRuns
        <3>1. runs' = runs + 1 /\ runs < MaxRuns
            BY <2>1
        <3> QED
            BY <2>3, <3>1
    <2>5. DepositsMade = runs /\ DepositsMade' = runs
        BY <2>2, <2>4, Zenon
    <2>6. DepositsMade' \in Nat /\ DepositsMade' >= DepositsMade
        BY <2>3, <2>5
    <2> QED
        BY <2>1, <2>4, <2>6
<1>2. CASE \/ ReadStart \/ CheckStart
    <2>1. /\ script.at \in Preparing /\ script'.at \in Preparing /\ script.at # "idle"
          /\ runs' = runs /\ UNCHANGED vars
        BY <1>2 DEF ReadStart, CheckStart, ScriptTyped, Script, Preparing
    <2>2. DepositsMade = runs - 1 /\ DepositsMade' = runs - 1
        BY <2>1 DEF DepositsMade
    <2> QED
        BY <2>1, <2>2
<1>3. CASE \/ ReadDeposit \/ CheckDeposit \/ CheckAccrual \/ CheckAgain \/ RedeemAll
           \/ BuildRedeem \/ RedeemFails \/ CheckFinal
    <2>1. script'.at \notin Preparing /\ script.at \notin Preparing
        BY <1>3 DEF ReadDeposit, CheckDeposit, CheckAccrual, CheckAgain, RedeemAll, BuildRedeem,
                    RedeemFails, CheckFinal, Goto, ScriptTyped, Script, Preparing
    <2>2. script.at # "idle" /\ runs' = runs /\ UNCHANGED vars
        BY <1>3 DEF ReadDeposit, CheckDeposit, CheckAccrual, CheckAgain, RedeemAll, BuildRedeem,
                    RedeemFails, CheckFinal
    <2>3. DepositsMade = runs /\ DepositsMade' = runs
        BY <2>1, <2>2 DEF DepositsMade
    <2> QED
        BY <2>2, <2>3
<1>4. CASE Interrupted
    <2>1. script'.at = "idle" /\ runs' = runs /\ UNCHANGED vars
        BY <1>4 DEF Interrupted, Goto, ScriptTyped, Script
    <2>2. DepositsMade' = runs /\ DepositsMade \in {runs, runs - 1}
        BY <2>1 DEF DepositsMade, Preparing
    <2> QED
        BY <2>1, <2>2
<1> QED
    BY <1>1, <1>2, <1>3, <1>4 DEF Reading

\* The two calls of accrue_yield.
LEMMA CrystallizeScript ==
    ASSUME ScriptTyped, Crystallize
    PROVE  /\ AccrueYield /\ now >= script.seenAt + WaitSeconds /\ UNCHANGED <<failed, runs>>
           /\ \/ script.at = "wait" /\ script' = [script EXCEPT !.at = "read accrual"]
              \/ script.at = "again" /\ script' = [script EXCEPT !.at = "read again"]
           /\ \/ script.at = "wait" /\ script'.at = "read accrual"
              \/ script.at = "again" /\ script'.at = "read again"
<1>1. /\ script.at \in {"wait", "again"} /\ AccrueYield
      /\ now >= script.seenAt + WaitSeconds /\ UNCHANGED <<failed, runs>>
      /\ script' = [script EXCEPT !.at = AccrueStages[script.at]]
    BY DEF Crystallize, AccrueStages, Goto
<1>2. AccrueStages["wait"] = "read accrual" /\ AccrueStages["again"] = "read again"
    BY DEF AccrueStages
<1> QED
    BY <1>1, <1>2 DEF ScriptTyped, Script

\* The steps of the others, which the script does not see.
LEMMA OthersSteps ==
    ASSUME Others
    PROVE  /\ Initialize(Deployer) \/ AccrueYield \/ LedgerTick
           /\ UNCHANGED <<script, failed, runs>>
BY DEF Others

LEMMA OnlyHolderStep ==
    ASSUME TripInv, [TripNext]_tripVars
    PROVE  OnlyHolder'
<1>1. /\ IInv /\ ScriptTyped /\ OnlyHolder /\ YieldBounded
    BY DEF TripInv, VaultFacts
<1>2. CASE UNCHANGED tripVars
    BY <1>1, <1>2 DEF tripVars, vars, OnlyHolder, Initialized
<1>3. CASE Reading
    <2>1. UNCHANGED vars /\ (script'.at # "idle" => Initialized)
        BY <1>1, <1>3, ReadingCounts DEF OnlyHolder, YieldBounded
    <2> QED
        BY <1>1, <2>1 DEF vars, OnlyHolder, Initialized
<1>4. CASE MakeDeposit
    <2>1. /\ Deposit(Deployer, script.deposit) /\ script.deposit \in Nat /\ script.at = "deposit"
        BY <1>1, <1>4 DEF MakeDeposit, ScriptTyped, Script
    <2>2. /\ acct'.accrued = acct.accrued + PendingYield(acct)
          /\ credited' = credited + PendingYield(acct)
          /\ token'[Deployer] = token[Deployer] - script.deposit
          /\ token'[Vault] = token[Vault] + script.deposit
          /\ shareOf'[Deployer] = acct'.shares /\ acct'.paused = acct.paused
          /\ UNCHANGED <<admin, now, funded>>
        BY <1>1, <2>1, MakeDepositEffect DEF OnlyHolder
    <2> QED
        BY <1>1, <2>1, <2>2, Amounts0 DEF OnlyHolder, Initialized
<1>5. CASE MakeRedeem
    <2>1. /\ Redeem(Deployer, script.shares) /\ script.shares \in Int /\ script.at = "redeem"
        BY <1>1, <1>5 DEF MakeRedeem, ScriptTyped, Script
    <2>2. PICK x \in Nat :
              /\ acct'.accrued <= acct.accrued + PendingYield(acct)
              /\ credited' = credited + PendingYield(acct)
              /\ token'[Deployer] = token[Deployer] + x
              /\ token'[Vault] = token[Vault] - x
              /\ shareOf'[Deployer] = acct'.shares /\ acct'.paused = acct.paused
              /\ UNCHANGED <<admin, now, funded>>
        BY <1>1, <2>1, MakeRedeemEffect DEF OnlyHolder
    <2>3. acct'.accrued \in Nat
        <3>1. IInv'
            BY <1>1, TripStepIsVaultStep, StepIInv
        <3> QED
            BY <3>1, MaxIAssumption DEF IInv, TypeOK, Accounting
    <2> QED
        BY <1>1, <2>1, <2>2, <2>3, Amounts0 DEF OnlyHolder, Initialized
<1>6. ASSUME AccrueYield, script.at # "idle" => Initialized,
             script'.at # "idle" => script.at # "idle"
      PROVE  OnlyHolder'
    BY <1>1, <1>6, CrystallizeEffect, Amounts0 DEF OnlyHolder, Initialized
<1>7. CASE Crystallize
    <2>1. AccrueYield /\ script.at # "idle"
        BY <1>7 DEF Crystallize, AccrueStages
    <2> QED
        BY <1>1, <1>6, <2>1 DEF OnlyHolder
<1>8. CASE Others
    <2>1. CASE Initialize(Deployer)
        <3>1. /\ ~Initialized /\ acct'.accrued = 0 /\ acct'.shares = 0 /\ acct'.paused = FALSE
              /\ UNCHANGED <<shareOf, token, now, funded, credited, script>>
            BY <1>8, <2>1, OthersSteps DEF Initialize
        <3>2. acct.shares = 0
            BY <1>1, <3>1 DEF IInv
        <3> QED
            BY <1>1, <3>1, <3>2, Amounts0 DEF OnlyHolder
    <2>2. CASE AccrueYield
        BY <1>1, <1>6, <1>8, <2>2, OthersSteps DEF OnlyHolder
    <2>3. CASE LedgerTick
        BY <1>1, <1>8, <2>3, OthersSteps, TickEffect DEF OnlyHolder, Initialized
    <2> QED
        BY <1>8, <2>1, <2>2, <2>3, OthersSteps
<1> QED
    BY <1>2, <1>3, <1>4, <1>5, <1>7, <1>8 DEF TripNext, Stage, Reading

LEMMA CreditedNat == IInv => CreditedFractions \in Nat
BY FractionsRead, Amounts0 DEF CreditedFractions

LEMMA CreditedNatPrimed == IInv' => (CreditedFractions \in Nat)'
BY CreditedNat, PTL

\* A deposit adds at most the endowment to the principal, and to the bound.
LEMMA YieldBoundedStep ==
    ASSUME TripInv, [TripNext]_tripVars
    PROVE  YieldBounded'
<1> DEFINE P == acct.principal
           N == DepositsMade
<1>1. /\ IInv /\ ScriptTyped /\ OnlyHolder /\ YieldBounded /\ P \in Nat /\ N \in Nat
      /\ runs \in Nat /\ runs <= MaxRuns /\ MaxRuns \in Nat /\ Endowment \in Nat
    BY Amounts0, ScriptAssumption, BoundsAssumption DEF TripInv, VaultFacts, YieldBounded
<1>2. MaxRate \in Nat /\ now \in Nat
    BY Amounts0, <1>1, RateAssumption, MulNat DEF MaxRate
<1>3. IInv' /\ acct'.principal \in Nat
    <2>1. IInv'
        BY <1>1, TripStepIsVaultStep, StepIInv
    <2> QED
        BY <2>1, MaxIAssumption DEF IInv, TypeOK, Accounting
<1> HIDE DEF P, N
<1>4. /\ CreditedFractions \in Nat /\ CreditedFractions' \in Nat
      /\ CreditedFractions <= MaxRate * now /\ MaxRate * now \in Nat
      /\ P <= N * Endowment /\ N * Endowment \in Nat
    BY <1>1, <1>2, <1>3, CreditedNat, CreditedNatPrimed, MulNat DEF YieldBounded, P, N
<1>5. ASSUME runs' \in 0 .. MaxRuns, DepositsMade' \in Nat, DepositsMade' >= N,
             acct'.principal <= P, CreditedFractions' <= CreditedFractions, now' = now
      PROVE  YieldBounded'
    <2>1. CreditedFractions' <= MaxRate * now'
        BY <1>4, <1>5
    <2>2. N * Endowment <= DepositsMade' * Endowment /\ DepositsMade' * Endowment \in Nat
        <3>1. \A m \in Nat : N <= m => N * Endowment <= m * Endowment /\ m * Endowment \in Nat
            BY <1>1, MulMono, MulNat
        <3>2. N <= DepositsMade'
            BY <1>1, <1>5
        <3> QED
            BY <1>5, <3>1, <3>2
    <2>3. acct'.principal <= DepositsMade' * Endowment
        BY <1>1, <1>3, <1>4, <1>5, <2>2
    <2> QED
        BY <1>5, <2>1, <2>3 DEF YieldBounded
<1>6. CASE UNCHANGED tripVars
    <2>1. /\ runs' = runs /\ DepositsMade' = DepositsMade /\ acct' = acct /\ now' = now
          /\ CreditedFractions' = CreditedFractions
        BY <1>6 DEF tripVars, vars, DepositsMade, CreditedFractions, Fractions, EarnedSince
    <2> QED
        BY <1>1, <1>4, <1>5, <2>1 DEF N, P
<1>7. CASE Reading
    <2>1. /\ UNCHANGED vars /\ runs' \in 0 .. MaxRuns
          /\ DepositsMade' \in Nat /\ DepositsMade' >= DepositsMade
        BY <1>1, <1>7, ReadingCounts DEF OnlyHolder, YieldBounded
    <2>2. acct' = acct /\ now' = now /\ CreditedFractions' = CreditedFractions
        BY <2>1 DEF vars, CreditedFractions, Fractions, EarnedSince
    <2> QED
        BY <1>1, <1>4, <1>5, <2>1, <2>2 DEF N, P
<1>8. CASE MakeDeposit
    <2> PICK x \in Nat : x = script.deposit
        BY <1>1 DEF ScriptTyped, Script
    <2>1. /\ Deposit(Deployer, x) /\ script.at = "deposit" /\ script'.at = "read deposit"
        BY <1>1, <1>8 DEF MakeDeposit, ScriptTyped, Script
    <2>2. /\ acct'.principal = P + x /\ x <= token[Deployer] /\ runs' = runs
          /\ CreditedFractions' <= CreditedFractions /\ now' = now
        BY <1>1, <1>8, <2>1, MakeDepositEffect DEF OnlyHolder, P, MakeDeposit
    <2>3. N = runs - 1 /\ DepositsMade' = runs
        BY <2>1, <2>2 DEF DepositsMade, Preparing, N
    <2>4. DepositsMade' = N + 1
        BY <1>1, <2>3
    <2>5. token[Deployer] <= Endowment /\ token[Deployer] \in Nat
        BY <1>1, Amounts0 DEF OnlyHolder
    <2>6. acct'.principal <= DepositsMade' * Endowment
        <3>1. (N + 1) * Endowment = N * Endowment + Endowment
            BY <1>1
        <3>2. DepositsMade' * Endowment = N * Endowment + Endowment
            BY <2>4, <3>1
        <3>3. x <= Endowment
            BY <1>1, <2>2, <2>5
        <3> QED
            BY <1>1, <1>4, <2>2, <3>2, <3>3
    <2>7. CreditedFractions' <= MaxRate * now'
        BY <1>4, <2>2
    <2>8. DepositsMade' \in Nat
        BY <1>1, <2>3
    <2>9. runs' \in 0 .. MaxRuns
        BY <1>1, <2>2
    <2> QED
        BY <2>6, <2>7, <2>8, <2>9 DEF YieldBounded
<1>9. CASE MakeRedeem
    <2>1. /\ Redeem(Deployer, script.shares) /\ script.shares \in Int
          /\ script.at = "redeem" /\ script'.at = "final" /\ runs' = runs
        BY <1>1, <1>9 DEF MakeRedeem, ScriptTyped, Script
    <2>2. /\ acct'.principal \in 0 .. P
          /\ CreditedFractions' <= CreditedFractions /\ now' = now
        BY <1>1, <2>1, MakeRedeemEffect DEF OnlyHolder, P
    <2>3. N = runs /\ DepositsMade' = runs
        BY <2>1 DEF DepositsMade, Preparing, N
    <2> QED
        BY <1>1, <1>5, <2>1, <2>2, <2>3
<1>10. ASSUME AccrueYield, UNCHANGED runs, DepositsMade' = N PROVE YieldBounded'
    <2>1. acct'.principal = P /\ CreditedFractions' <= CreditedFractions /\ now' = now
        BY <1>1, <1>10, CrystallizeEffect DEF P
    <2> QED
        BY <1>1, <1>5, <1>10, <2>1
<1>11. CASE Crystallize
    <2>1. /\ AccrueYield /\ runs' = runs
          /\ script.at \notin Preparing /\ script'.at \notin Preparing
        BY <1>1, <1>11, CrystallizeScript DEF Preparing
    <2>2. DepositsMade' = N
        BY <2>1 DEF DepositsMade, N
    <2> QED
        BY <1>10, <2>1, <2>2
<1>12. CASE Others
    <2>1. runs' = runs /\ script' = script /\ DepositsMade' = N
        BY <1>12, OthersSteps DEF DepositsMade, N
    <2>2. CASE Initialize(Deployer)
        <3>1. /\ acct' = [principal |-> 0, accrued |-> 0, rem |-> 0, shares |-> 0,
                          lastTs |-> now, paused |-> FALSE]
              /\ now' = now /\ credited' = credited
            BY <2>2 DEF Initialize
        <3>2. CreditedFractions' = credited * YieldDenom
            <4>1. CreditedFractions' = credited * YieldDenom + 0 + 0 * (SimApyBps * (now - now))
                BY <3>1 DEF CreditedFractions, Fractions, EarnedSince
            <4> QED
                BY <4>1, <1>1, Amounts0, RateAssumption
        <3>3. credited * YieldDenom <= CreditedFractions
            <4>1. (credited + PendingYield(acct)) * YieldDenom <= CreditedFractions
                BY <1>1, Amounts0, FractionsRead DEF CreditedFractions
            <4>2. credited * YieldDenom <= (credited + PendingYield(acct)) * YieldDenom
                BY <1>1, Amounts0, RateAssumption, MulMono
            <4>3. credited * YieldDenom \in Int
                  /\ (credited + PendingYield(acct)) * YieldDenom \in Int
                BY <1>1, Amounts0, RateAssumption
            <4> QED
                BY <1>4, <4>1, <4>2, <4>3
        <3> QED
            BY <1>1, <1>5, <2>1, <3>1, <3>2, <3>3
    <2>3. CASE AccrueYield
        BY <1>10, <2>1, <2>3
    <2>4. CASE LedgerTick
        <3>1. /\ now' = now + 1 /\ acct' = acct
              /\ CreditedFractions' = CreditedFractions + P * SimApyBps
            BY <1>1, <2>4, TickEffect DEF P
        <3>2. P * SimApyBps <= MaxRate
            <4>1. N * Endowment <= MaxRuns * Endowment
                <5>1. N <= MaxRuns
                    BY <1>1 DEF DepositsMade, N
                <5> QED
                    BY <1>1, <5>1, MulMono
            <4>2. P <= MaxRuns * Endowment /\ MaxRuns * Endowment \in Nat
                BY <1>1, <1>4, <4>1, MulNat
            <4>3. P * SimApyBps <= (MaxRuns * Endowment) * SimApyBps
                BY <1>1, <4>2, RateAssumption, MulMono
            <4> QED
                BY <4>2, <4>3, RateAssumption DEF MaxRate
        <3>3. MaxRate * (now + 1) = MaxRate * now + MaxRate /\ P * SimApyBps \in Nat
            BY <1>1, <1>2, RateAssumption, MulNat
        <3>4. CreditedFractions' <= MaxRate * now'
            BY <1>2, <1>4, <3>1, <3>2, <3>3
        <3> QED
            BY <1>1, <1>4, <2>1, <3>1, <3>4 DEF YieldBounded, P
    <2> QED
        BY <1>12, <2>2, <2>3, <2>4, OthersSteps
<1> QED
    BY <1>6, <1>7, <1>8, <1>9, <1>11, <1>12 DEF TripNext, Stage, Reading

-----------------------------------------------------------------------------
(***************************************************************************)
(* What the script has seen                                                *)
(***************************************************************************)
LEMMA ScriptTypedStep ==
    ASSUME TripInv, [TripNext]_tripVars
    PROVE  ScriptTyped'
<1>1. /\ IInv /\ ScriptTyped /\ OnlyHolder /\ SizeSeen /\ PositionHeld
      /\ PrincipalOutlastsShares /\ script \in Script
      /\ script.at # "idle" => script.deposit \in Deposits
    BY DEF TripInv, VaultFacts, Seen, ScriptTyped
<1>2. VaultState \in State /\ Balances \in Holdings /\ now \in Nat
    BY <1>1, ReadsTyped, Amounts0
<1>3. CASE UNCHANGED script
    BY <1>1, <1>3 DEF ScriptTyped
<1>4. CASE Begin
    <2>1. PICK deposit \in Deposits :
              script' = [Idle EXCEPT !.at = "read start", !.deposit = deposit]
        BY <1>4 DEF Begin
    <2>2. deposit \in Nat
        BY ScriptAssumption
    <2>3. "read start" \in Steps /\ "idle" \in Steps
        BY DEF Steps, Preparing
    <2>4. Idle \in Script
        BY NothingReadTyped DEF Idle, Script, Steps
    <2> QED
        BY <2>1, <2>2, <2>3, <2>4 DEF ScriptTyped, Script
<1>5. ASSUME NEW step \in Steps, script' = [script EXCEPT !.at = step],
             step # "idle" => script.at # "idle"
      PROVE  ScriptTyped'
    BY <1>1, <1>5 DEF ScriptTyped, Script
<1>6. CASE Interrupted \/ RedeemAll \/ RedeemFails \/ CheckFinal
    <2>1. "idle" \in Steps /\ "build redeem" \in Steps
        BY DEF Steps, Sizing
    <2> QED
        BY <1>5, <1>6, <2>1 DEF Interrupted, RedeemAll, RedeemFails, CheckFinal, Goto
<1>7. CASE Crystallize
    <2>1. "read accrual" \in Steps /\ "read again" \in Steps
        BY DEF Steps, Waiting
    <2> QED
        BY <1>1, <1>5, <1>7, <2>1, CrystallizeScript
<1>8. CASE ReadStart
    <2>1. "check start" \in Steps
        BY DEF Steps, Preparing
    <2> QED
        BY <1>1, <1>2, <1>8, <2>1 DEF ReadStart, ScriptTyped, Script
<1>9. CASE CheckStart
    <2>1. "deposit" \in Steps
        BY DEF Steps, Preparing
    <2> QED
        BY <1>1, <1>2, <1>9, <2>1 DEF CheckStart, ScriptTyped, Script
<1>10. CASE MakeDeposit
    <2>1. "read deposit" \in Steps
        BY DEF Steps, Minted
    <2>2. SharesFor(Accrue(acct), script.deposit) \in Int
        BY <1>1, <1>10, MakeDepositEffect DEF MakeDeposit, Script, OnlyHolder
    <2> QED
        BY <1>1, <1>10, <2>1, <2>2 DEF MakeDeposit, ScriptTyped, Script
<1>11. CASE ReadDeposit
    <2>1. "check deposit" \in Steps
        BY DEF Steps, Minted
    <2> QED
        BY <1>1, <1>2, <1>11, <2>1 DEF ReadDeposit, ScriptTyped, Script
<1>12. CASE CheckDeposit
    <2>1. "wait" \in Steps
        BY DEF Steps, Waiting
    <2> QED
        BY <1>1, <1>2, <1>12, <2>1 DEF CheckDeposit, ScriptTyped, Script
<1>13. CASE CheckAccrual
    <2>1. "again" \in Steps
        BY DEF Steps, Waiting
    <2> QED
        BY <1>1, <1>2, <1>13, <2>1 DEF CheckAccrual, ScriptTyped, Script
<1>14. CASE CheckAgain
    <2>1. "redeem all" \in Steps
        BY DEF Steps, Sizing
    <2> QED
        BY <1>1, <1>2, <1>14, <2>1 DEF CheckAgain, ScriptTyped, Script
<1>15. CASE BuildRedeem
    <2>1. "redeem" \in Steps /\ "idle" \in Steps
        BY DEF Steps, Sizing
    <2>2. script.at = "build redeem"
        BY <1>15 DEF BuildRedeem
    <2>3. RedeemableShares \in Int
        <3>1. script.at \in Sizing /\ script.at \in Minted \cup Waiting \cup Sizing
            BY <2>2 DEF Sizing
        <3>2. /\ script.state2.shares = acct.shares /\ acct.shares > 0
              /\ script.state2.principal = acct.principal
            BY <1>1, <3>1 DEF SizeSeen, PositionHeld
        <3>3. acct.principal >= acct.shares
            BY <1>1 DEF PrincipalOutlastsShares
        <3> QED
            BY <1>1, <3>2, <3>3, Amounts0, SizesTyped
    <2>4. \/ script' = [script EXCEPT !.at = "redeem", !.shares = RedeemableShares]
          \/ script' = [script EXCEPT !.at = "idle"]
        BY <1>15 DEF BuildRedeem
    <2> QED
        BY <1>1, <2>1, <2>2, <2>3, <2>4 DEF ScriptTyped, Script
<1>16. CASE MakeRedeem
    <2>1. "final" \in Steps
        BY DEF Steps
    <2>2. AssetsFor(Accrue(acct), script.shares) \in Int
        BY <1>1, <1>16, MakeRedeemEffect DEF MakeRedeem, Script, OnlyHolder
    <2> QED
        BY <1>1, <1>16, <2>1, <2>2 DEF MakeRedeem, ScriptTyped, Script
<1> QED
    BY <1>3, <1>4, <1>6, <1>7, <1>8, <1>9, <1>10, <1>11, <1>12, <1>13, <1>14, <1>15, <1>16,
       OthersSteps DEF TripNext, Stage, tripVars

\* The yield of the principal grows with the clock.
LEMMA EarnedTyped ==
    ASSUME IInv, NEW t \in Nat, t <= now
    PROVE  EarnedSince(t) \in Nat /\ EarnedSince(now) = 0
<1>1. acct.principal \in Nat /\ now \in Nat /\ now - t \in Nat /\ now - now = 0
    BY Amounts0
<1>2. SimApyBps * (now - t) \in Nat /\ SimApyBps * (now - now) = 0
    BY <1>1, RateAssumption
<1> QED
    BY <1>1, <1>2, MulNat DEF EarnedSince

LEMMA EarnedTick ==
    ASSUME IInv, acct'.principal = acct.principal, now' = now + 1, NEW t \in Nat, t <= now
    PROVE  EarnedSince(t)' = EarnedSince(t) + acct.principal * SimApyBps
<1> DEFINE p == acct.principal
           e == now - t
<1>1. p \in Nat /\ e \in Nat /\ (now + 1) - t = e + 1
    BY Amounts0
<1>2. EarnedSince(t) = p * (SimApyBps * e)
    BY DEF EarnedSince
<1>3. EarnedSince(t)' = p * (SimApyBps * (e + 1))
    <2>1. EarnedSince(t)' = p * (SimApyBps * ((now + 1) - t))
        BY DEF EarnedSince
    <2> HIDE DEF p, e
    <2> QED
        BY <1>1, <2>1
<1> HIDE DEF p, e
<1>4. SimApyBps * (e + 1) = SimApyBps * e + SimApyBps /\ SimApyBps * e \in Nat
    BY <1>1, RateAssumption
<1>5. p * (SimApyBps * e + SimApyBps) = p * (SimApyBps * e) + p * SimApyBps
    BY <1>1, <1>4, RateAssumption
<1> QED
    BY <1>2, <1>3, <1>4, <1>5 DEF p

\* The only thing that changes under the script is the accrued yield, by what the
\* principal earns in the meantime.
Quiet ==
    /\ acct'.principal = acct.principal /\ acct'.shares = acct.shares
    /\ token' = token
    /\ \/ now' = now /\ AccruedFractions' = AccruedFractions
       \/ /\ now' = now + 1
          /\ AccruedFractions' = AccruedFractions + acct.principal * SimApyBps

LEMMA OthersAreQuiet ==
    ASSUME IInv, UNCHANGED vars \/ AccrueYield \/ LedgerTick
    PROVE  Quiet
<1>1. CASE UNCHANGED vars
    BY <1>1 DEF vars, Quiet, AccruedFractions, Fractions, EarnedSince
<1>2. CASE AccrueYield
    BY <1>2, CrystallizeEffect DEF Quiet
<1>3. CASE LedgerTick
    BY <1>3, TickEffect DEF Quiet
<1> QED
    BY <1>1, <1>2, <1>3

\* While the script waits for the next step everything it has seen stays true.
LEMMA SeenKept ==
    ASSUME IInv, ScriptTyped, Seen, Quiet, script' = script
    PROVE  Seen'
<1> DEFINE w == EarnedSince(script.seenAt)
           g == acct.principal * SimApyBps
           d == script.after.accrued * YieldDenom
           z == script.state2.accrued * YieldDenom
<1>1. /\ acct'.principal = acct.principal /\ acct'.shares = acct.shares /\ token' = token
      /\ StartSeen /\ DepositSeen /\ PositionHeld /\ YieldSeen /\ SizeSeen /\ RedemptionSeen
    BY DEF Quiet, Seen
<1>2. /\ AccruedFractions \in Nat /\ AccruedFractions' \in Nat /\ g \in Nat
      /\ d \in Nat /\ z \in Nat /\ now \in Nat /\ now' \in Nat /\ script.seenAt \in Nat
      /\ now <= now' /\ AccruedFractions <= AccruedFractions'
    <2>1. /\ AccruedFractions \in Nat /\ now \in Nat /\ acct.principal \in Nat
        BY AccruedRead, Amounts0
    <2>2. /\ script.seenAt \in Nat /\ script.after.accrued \in Nat
          /\ script.state2.accrued \in Nat
        BY DEF ScriptTyped, Script, State
    <2>3. g \in Nat /\ d \in Nat /\ z \in Nat
        BY <2>1, <2>2, RateAssumption, MulNat
    <2> HIDE DEF g, d, z
    <2>4. \/ now' = now /\ AccruedFractions' = AccruedFractions
          \/ now' = now + 1 /\ AccruedFractions' = AccruedFractions + g
        BY DEF Quiet, g
    <2> QED
        BY <2>1, <2>2, <2>3, <2>4
<1>3. Balances' = Balances
    BY <1>1 DEF Balances
<1>4. script.seenAt <= now =>
          /\ w \in Nat /\ w' \in Nat
          /\ AccruedFractions' - w' = AccruedFractions - w
    <2> SUFFICES ASSUME script.seenAt <= now
                 PROVE  w \in Nat /\ w' \in Nat /\ AccruedFractions' - w' = AccruedFractions - w
        OBVIOUS
    <2>1. w \in Nat
        BY <1>2, EarnedTyped
    <2>2. CASE now' = now /\ AccruedFractions' = AccruedFractions
        <3>1. w' = w
            BY <1>1, <2>2 DEF EarnedSince
        <3> QED
            BY <2>1, <2>2, <3>1
    <2>3. CASE now' = now + 1 /\ AccruedFractions' = AccruedFractions + g
        <3>1. w' = w + g
            <4> PICK t \in Nat : t = script.seenAt
                BY <1>2
            <4>1. EarnedSince(t)' = EarnedSince(t) + g
                BY <1>1, <2>3, EarnedTick
            <4> QED
                BY <4>1 DEF EarnedSince
        <3> HIDE DEF w, g
        <3> QED
            BY <1>2, <2>1, <2>3, <3>1
    <2> QED
        BY <2>2, <2>3 DEF Quiet
<1> HIDE DEF w, g, d, z
<1>5. StartSeen'
    BY <1>1, <1>3, Zenon DEF StartSeen, Assets
<1>6. DepositSeen'
    BY <1>1, Zenon DEF DepositSeen
<1>7. PositionHeld'
    BY <1>1, <1>3, Zenon DEF PositionHeld
<1>8. YieldSeen'
    <2>1. ASSUME script.at = "check deposit"
          PROVE  /\ script.after.shares = acct'.shares
                 /\ script.after.principal = acct'.principal
                 /\ Assets(script.after) >= script.after.shares
                 /\ d <= AccruedFractions'
        <3>1. /\ script.after.shares = acct.shares
              /\ script.after.principal = acct.principal
              /\ Assets(script.after) >= script.after.shares
              /\ d <= AccruedFractions
            BY <1>1, <2>1, Zenon DEF YieldSeen, d
        <3>2. d <= AccruedFractions'
            BY <1>2, <3>1
        <3> QED
            BY <1>1, <3>1, <3>2
    <2>2. ASSUME script.at = "wait"
          PROVE  script.seenAt <= now' /\ d + w' <= AccruedFractions'
        <3>1. script.seenAt <= now /\ d + w <= AccruedFractions
            BY <1>1, <2>2 DEF YieldSeen, d, w
        <3> QED
            BY <1>2, <1>4, <3>1
    <2>3. ASSUME script.at = "read accrual"
          PROVE  d + YieldDenom <= AccruedFractions'
        <3>1. d + YieldDenom <= AccruedFractions
            BY <1>1, <2>3 DEF YieldSeen, d
        <3> QED
            BY <1>2, <3>1, RateAssumption
    <2>4. ASSUME script.at \in {"again", "read again"}
          PROVE  YieldDenom <= AccruedFractions'
        <3>1. YieldDenom <= AccruedFractions
            BY <1>1, <2>4 DEF YieldSeen
        <3> QED
            BY <1>2, <3>1, RateAssumption
    <2> QED
        BY <2>1, <2>2, <2>3, <2>4, Zenon DEF YieldSeen, d, w
<1>9. SizeSeen'
    <2>1. ASSUME script.at \in Sizing
          PROVE  /\ script.state2.principal = acct'.principal
                 /\ script.state2.shares = acct'.shares
                 /\ script.state2.accrued >= 1 /\ script.seenAt <= now'
                 /\ z <= AccruedFractions'
                 /\ AccruedFractions' < z + YieldDenom + w'
        <3>1. /\ script.state2.principal = acct.principal
              /\ script.state2.shares = acct.shares
              /\ script.state2.accrued >= 1 /\ script.seenAt <= now
              /\ z <= AccruedFractions
              /\ AccruedFractions < z + YieldDenom + w
            BY <1>1, <2>1 DEF SizeSeen, z, w
        <3>2. script.seenAt <= now' /\ z <= AccruedFractions'
              /\ AccruedFractions' < z + YieldDenom + w'
            BY <1>2, <1>4, <3>1, RateAssumption
        <3> QED
            BY <1>1, <3>1, <3>2
    <2>2. RedeemableShares' = RedeemableShares
        BY DEF RedeemableShares, MarginShares, MarginAssets, AssetsPerSecond, Liquidity, Assets
    <2>3. ASSUME script.at = "redeem"
          PROVE  /\ script.shares = RedeemableShares'
                 /\ script.shares > 0 /\ script.shares <= acct'.shares
        BY <1>1, <2>2, <2>3, Zenon DEF SizeSeen
    <2> QED
        BY <2>1, <2>3, Zenon DEF SizeSeen, z, w
<1>10. RedemptionSeen'
    <2>1. FloorPayout' = FloorPayout /\ Liquidity' = Liquidity
        BY DEF FloorPayout, Liquidity, Assets
    <2> QED
        BY <1>1, <2>1, Zenon DEF RedemptionSeen
<1> QED
    BY <1>5, <1>6, <1>7, <1>8, <1>9, <1>10 DEF Seen

\* Between runs, and before it has read anything, the script knows nothing.
LEMMA NothingSeen ==
    ASSUME script'.at \in {"idle", "read start"}
    PROVE  Seen'
BY DEF Seen, StartSeen, DepositSeen, PositionHeld, YieldSeen, SizeSeen, RedemptionSeen,
       Minted, Waiting, Sizing

\* The reads and checks before the deposit.
LEMMA PreparingSeen ==
    ASSUME TripInv, ReadStart \/ CheckStart
    PROVE  Seen'
<1>1. /\ IInv /\ ScriptTyped /\ OnlyHolder /\ VaultFacts /\ StartSeen /\ script \in Script
      /\ UNCHANGED vars
    BY DEF TripInv, Seen, VaultFacts, ScriptTyped, ReadStart, CheckStart
<1>2. CASE ReadStart
    <2>1. script'.at = "check start" /\ script'.start = VaultState
        BY <1>1, <1>2 DEF ReadStart, Script
    <2>2. /\ VaultState.principal = acct.principal /\ VaultState.shares = acct.shares
          /\ Assets(VaultState) = TotalCurrent
        BY <1>1, Owed DEF VaultState, Assets
    <2>3. TotalCurrent >= token[Vault]
        BY <1>1, Owed, Amounts0
    <2> QED
        BY <1>1, <2>1, <2>2, <2>3
        DEF vars, Seen, StartSeen, DepositSeen, PositionHeld, YieldSeen, SizeSeen,
            RedemptionSeen, Minted, Waiting, Sizing
<1>3. CASE CheckStart
    <2>1. /\ script.at = "check start" /\ script'.at = "deposit"
          /\ script'.start = script.start /\ script'.startBalances = Balances
        BY <1>1, <1>3 DEF CheckStart, Script
    <2>2. script.start.principal = acct.principal /\ script.start.shares = acct.shares
        BY <1>1, <2>1 DEF StartSeen
    <2>3. Balances' = Balances
        BY <1>1 DEF vars, Balances
    <2> QED
        BY <1>1, <2>1, <2>2, <2>3
        DEF vars, Seen, StartSeen, DepositSeen, PositionHeld, YieldSeen, SizeSeen,
            RedemptionSeen, Minted, Waiting, Sizing
<1> QED
    BY <1>2, <1>3

\* The deposit itself.
LEMMA MakeDepositSeen ==
    ASSUME TripInv, MakeDeposit
    PROVE  Seen'
<1>1. /\ IInv /\ ScriptTyped /\ OnlyHolder /\ StartSeen /\ script \in Script
    BY DEF TripInv, Seen, VaultFacts, ScriptTyped
<1> PICK x \in Nat : x = script.deposit
    BY <1>1 DEF Script
<1> DEFINE s == SharesFor(Accrue(acct), x)
<1>2. /\ script.at = "deposit" /\ Deposit(Deployer, x)
      /\ script'.at = "read deposit" /\ script'.value = s
      /\ script'.deposit = x /\ script'.start = script.start
      /\ script'.startBalances = script.startBalances
    BY <1>1 DEF MakeDeposit, Script
<1>3. /\ x > 0 /\ x <= token[Deployer] /\ s \in Nat /\ s > 0
      /\ acct'.principal = acct.principal + x
      /\ acct'.shares = acct.shares + s
      /\ acct.shares = 0 => s = x
      /\ token'[Deployer] = token[Deployer] - x
      /\ token'[Vault] = token[Vault] + x
    BY <1>1, <1>2, MakeDepositEffect DEF OnlyHolder
<1>4. /\ script.start.principal = acct.principal /\ script.start.shares = acct.shares
      /\ script.startBalances.vault = token[Vault]
      /\ script.startBalances.user = token[Deployer]
    <2>1. /\ script.start.principal = acct.principal /\ script.start.shares = acct.shares
          /\ script.startBalances = Balances
        BY <1>1, <1>2 DEF StartSeen
    <2> QED
        BY <2>1 DEF Balances
<1> HIDE DEF s
<1>5. /\ acct'.shares > 0 /\ acct'.principal >= x
      /\ script.startBalances.user = token'[Deployer] + x
    BY <1>1, <1>3, <1>4, Amounts0
<1>6. DepositSeen'
    <2>1. /\ script'.value > 0
          /\ acct'.shares = script'.start.shares + script'.value
          /\ acct'.principal = script'.start.principal + script'.deposit
          /\ token'[Vault] = script'.startBalances.vault + script'.deposit
          /\ script'.startBalances.user = token'[Deployer] + script'.deposit
          /\ script'.start.shares = 0 => script'.value = script'.deposit
        BY <1>2, <1>3, <1>4, <1>5
    <2> QED
        BY <2>1, Zenon DEF DepositSeen
<1>7. PositionHeld'
    BY <1>2, <1>5 DEF PositionHeld, Minted, Waiting, Sizing
<1> QED
    BY <1>2, <1>6, <1>7
    DEF Seen, StartSeen, YieldSeen, SizeSeen, RedemptionSeen, Sizing

\* The reads and checks after it.
LEMMA MintedSeen ==
    ASSUME TripInv, ReadDeposit \/ CheckDeposit
    PROVE  Seen'
<1>1. /\ IInv /\ ScriptTyped /\ DepositSeen /\ PositionHeld /\ YieldSeen /\ script \in Script
      /\ UNCHANGED vars
    BY DEF TripInv, Seen, VaultFacts, ScriptTyped, ReadDeposit, CheckDeposit
<1>2. acct' = acct /\ token' = token /\ now' = now /\ AccruedFractions' = AccruedFractions
      /\ Balances' = Balances
    BY <1>1 DEF vars, AccruedFractions, Fractions, EarnedSince, Balances
<1>3. CASE ReadDeposit
    <2>1. /\ script.at = "read deposit" /\ script'.at = "check deposit"
          /\ script' = [script EXCEPT !.at = "check deposit", !.after = VaultState]
          /\ script'.after = VaultState
        BY <1>1, <1>3 DEF ReadDeposit, Script
    <2>2. /\ script'.value = script.value /\ script'.start = script.start
          /\ script'.deposit = script.deposit /\ script'.startBalances = script.startBalances
        BY <1>1, <2>1 DEF Script
    <2>3. DepositSeen'
        BY <1>1, <1>2, <2>1, <2>2, Zenon DEF DepositSeen, Minted
    <2>4. acct.shares > 0 /\ acct.principal >= script.deposit
        BY <1>1, <2>1 DEF PositionHeld, Minted
    <2>5. PositionHeld'
        BY <1>2, <2>1, <2>2, <2>4 DEF PositionHeld, Minted, Waiting, Sizing
    <2>6. YieldSeen'
        <3>1. /\ VaultState.shares = acct.shares /\ VaultState.principal = acct.principal
              /\ VaultState.accrued = acct.accrued + PendingYield(acct)
            BY DEF VaultState
        <3>2. Assets(VaultState) >= acct.shares
            BY <1>1, <3>1, CurrentRecord, Amounts0 DEF Assets, TotalCurrent, TotalAccounted
        <3>3. VaultState.accrued * YieldDenom <= AccruedFractions
            BY <1>1, <3>1, AccruedRead
        <3> QED
            BY <1>2, <2>1, <3>1, <3>2, <3>3 DEF YieldSeen
    <2> QED
        BY <2>1, <2>3, <2>5, <2>6 DEF Seen, StartSeen, SizeSeen, RedemptionSeen, Sizing
<1>4. CASE CheckDeposit
    <2>1. /\ script.at = "check deposit" /\ script'.at = "wait"
          /\ script'.afterBalances = Balances /\ script'.seenAt = now
          /\ script'.after = script.after /\ script'.deposit = script.deposit
        BY <1>1, <1>4 DEF CheckDeposit, Script
    <2>2. acct.shares > 0 /\ acct.principal >= script.deposit
        BY <1>1, <2>1 DEF PositionHeld, Minted
    <2>3. PositionHeld'
        BY <1>2, <2>1, <2>2 DEF PositionHeld, Minted, Waiting, Sizing
    <2>4. YieldSeen'
        <3> DEFINE d == script.after.accrued * YieldDenom
        <3>1. d <= AccruedFractions /\ d \in Nat
            BY <1>1, <2>1, RateAssumption, MulNat DEF YieldSeen, Script, State
        <3>2. EarnedSince(now) = 0
            BY <1>1, Amounts0, EarnedTyped
        <3>3. EarnedSince(script.seenAt)' = EarnedSince(now)
            BY <1>2, <2>1 DEF EarnedSince
        <3>4. script'.seenAt <= now'
            <4>1. now <= now
                BY <1>1, Amounts0
            <4> QED
                BY <1>2, <2>1, <4>1, Zenon
        <3>5. script'.after.accrued * YieldDenom = d
            BY <2>1
        <3> HIDE DEF d
        <3>6. d + EarnedSince(script.seenAt)' <= AccruedFractions'
            BY <1>2, <3>1, <3>2, <3>3
        <3> QED
            BY <2>1, <3>4, <3>5, <3>6 DEF YieldSeen
    <2> QED
        BY <2>1, <2>3, <2>4 DEF Seen, StartSeen, DepositSeen, SizeSeen, RedemptionSeen,
                                Minted, Sizing
<1> QED
    BY <1>3, <1>4

\* The yield that comes while it waits is at least a unit, on top of what it has read.
LEMMA DepositEarns ==
    ASSUME IInv, NEW x \in Deposits, acct.principal >= x,
           NEW t \in Nat, now >= t + WaitSeconds
    PROVE  EarnedSince(t) >= YieldDenom
<1> DEFINE p == acct.principal
           n == now - t
           m == SimApyBps * n
           k == SimApyBps * WaitSeconds
<1>1. /\ p \in Nat /\ n \in Nat /\ WaitSeconds \in Nat /\ WaitSeconds <= n
      /\ x \in Nat /\ x <= p
    BY Amounts0, ScriptAssumption
<1>2. k <= m /\ k \in Nat /\ m \in Nat
    <2> HIDE DEF p, n
    <2> QED
        BY <1>1, RateAssumption
<1>3. x * k >= YieldDenom
    BY WaitAssumption
<1>4. EarnedSince(t) = p * m
    BY DEF EarnedSince
<1> HIDE DEF p, n, m, k
<1>5. x * k <= p * k
    BY <1>1, <1>2, MulMono
<1>6. p * k <= p * m
    BY <1>1, <1>2
<1>7. x * k \in Nat /\ p * k \in Nat /\ p * m \in Nat
    BY <1>1, <1>2, MulNat
<1> QED
    BY <1>3, <1>4, <1>5, <1>6, <1>7, RateAssumption

\* The calls of accrue_yield.
LEMMA CrystallizeSeen ==
    ASSUME TripInv, Crystallize
    PROVE  Seen'
<1>1. /\ IInv /\ ScriptTyped /\ PositionHeld /\ YieldSeen /\ script \in Script
    BY DEF TripInv, Seen, VaultFacts, ScriptTyped
<1>2. AccrueYield /\ now >= script.seenAt + WaitSeconds
    BY <1>1, CrystallizeScript
<1>3. /\ acct'.principal = acct.principal /\ acct'.shares = acct.shares /\ token' = token
      /\ AccruedFractions' = AccruedFractions /\ Balances' = Balances
    BY <1>1, <1>2, CrystallizeEffect DEF Balances
<1>4. ASSUME script.at \in Waiting, script'.at \in Waiting,
             script'.deposit = script.deposit, script'.afterBalances = script.afterBalances
      PROVE  PositionHeld'
    <2>1. acct.shares > 0 /\ acct.principal >= script.deposit
          /\ script.afterBalances = Balances
        BY <1>1, <1>4 DEF PositionHeld
    <2> QED
        BY <1>3, <1>4, <2>1 DEF PositionHeld
<1>5. CASE script.at = "wait"
    <2>1. /\ script'.at = "read accrual" /\ script'.deposit = script.deposit
          /\ script'.afterBalances = script.afterBalances /\ script'.after = script.after
        BY <1>1, <1>5, CrystallizeScript DEF Script
    <2>2. PositionHeld'
        BY <1>4, <1>5, <2>1 DEF Waiting
    <2>3. YieldSeen'
        <3> DEFINE d == script.after.accrued * YieldDenom
                   w == EarnedSince(script.seenAt)
        <3>1. d + w <= AccruedFractions
            BY <1>1, <1>5 DEF YieldSeen
        <3>2. w >= YieldDenom
            <4>1. acct.principal >= script.deposit
                BY <1>1, <1>5 DEF PositionHeld, Waiting
            <4>2. script.deposit \in Deposits /\ script.seenAt \in Nat
                BY <1>1, <1>5 DEF ScriptTyped, Script
            <4> QED
                BY <1>1, <1>2, <4>1, <4>2, DepositEarns
        <3>3. d \in Nat /\ w \in Nat /\ AccruedFractions \in Nat
            <4>1. script.after.accrued \in Nat /\ script.seenAt \in Nat /\ script.seenAt <= now
                BY <1>1, <1>5 DEF Script, State, YieldSeen
            <4> QED
                BY <1>1, <4>1, RateAssumption, MulNat, EarnedTyped, AccruedRead
        <3> HIDE DEF d, w
        <3>4. d + YieldDenom <= AccruedFractions'
            BY <1>3, <3>1, <3>2, <3>3, RateAssumption
        <3> QED
            BY <2>1, <3>4 DEF YieldSeen, d
    <2> QED
        BY <2>1, <2>2, <2>3
        DEF Seen, StartSeen, DepositSeen, SizeSeen, RedemptionSeen, Minted, Sizing
<1>6. CASE script.at = "again"
    <2>1. /\ script'.at = "read again" /\ script'.deposit = script.deposit
          /\ script'.afterBalances = script.afterBalances
        BY <1>1, <1>6, CrystallizeScript DEF Script
    <2>2. PositionHeld'
        BY <1>4, <1>6, <2>1 DEF Waiting
    <2>3. YieldSeen'
        BY <1>1, <1>3, <1>6, <2>1 DEF YieldSeen
    <2> QED
        BY <2>1, <2>2, <2>3
        DEF Seen, StartSeen, DepositSeen, SizeSeen, RedemptionSeen, Minted, Sizing
<1> QED
    BY <1>1, <1>5, <1>6, CrystallizeScript

\* The checks of the accrued yield.
LEMMA WaitingSeen ==
    ASSUME TripInv, CheckAccrual \/ CheckAgain
    PROVE  Seen'
<1>1. /\ IInv /\ ScriptTyped /\ PositionHeld /\ YieldSeen /\ script \in Script
      /\ UNCHANGED vars
    BY DEF TripInv, Seen, VaultFacts, ScriptTyped, CheckAccrual, CheckAgain
<1>2. acct' = acct /\ token' = token /\ now' = now /\ AccruedFractions' = AccruedFractions
      /\ Balances' = Balances
    BY <1>1 DEF vars, AccruedFractions, Fractions, EarnedSince, Balances
<1>3. /\ script.at \in Waiting /\ script'.at \in Waiting \cup Sizing
      /\ script'.deposit = script.deposit /\ script'.afterBalances = script.afterBalances
    BY <1>1 DEF CheckAccrual, CheckAgain, Script, Waiting, Sizing
<1>4. PositionHeld'
    <2>1. acct.shares > 0 /\ acct.principal >= script.deposit
          /\ script.afterBalances = Balances
        BY <1>1, <1>3 DEF PositionHeld
    <2> QED
        BY <1>2, <1>3, <2>1 DEF PositionHeld
<1>5. YieldDenom <= AccruedFractions
    <2>1. CASE CheckAgain
        BY <1>1, <2>1 DEF YieldSeen, CheckAgain
    <2>2. CASE CheckAccrual
        <3> DEFINE d == script.after.accrued * YieldDenom
        <3>1. d + YieldDenom <= AccruedFractions
            BY <1>1, <2>2 DEF YieldSeen, CheckAccrual
        <3>2. d \in Nat /\ AccruedFractions \in Nat
            BY <1>1, RateAssumption, MulNat, AccruedRead DEF Script, State
        <3> HIDE DEF d
        <3> QED
            BY <3>1, <3>2, RateAssumption
    <2> QED
        BY <2>1, <2>2
<1>6. CASE CheckAccrual
    <2>1. script'.at = "again"
        BY <1>1, <1>6 DEF CheckAccrual, Script
    <2> QED
        BY <1>2, <1>4, <1>5, <2>1
        DEF Seen, StartSeen, DepositSeen, YieldSeen, SizeSeen, RedemptionSeen, Minted, Sizing
<1>7. CASE CheckAgain
    <2> DEFINE v == acct.accrued + PendingYield(acct)
               z == v * YieldDenom
    <2>1. /\ script'.at = "redeem all" /\ script'.state2 = VaultState
          /\ script'.seenAt = now
        BY <1>1, <1>7 DEF CheckAgain, Script
    <2>2. /\ VaultState.principal = acct.principal /\ VaultState.shares = acct.shares
          /\ VaultState.accrued = v
        BY DEF VaultState
    <2>3. /\ v \in Nat /\ AccruedFractions \in Nat /\ z <= AccruedFractions
          /\ AccruedFractions < z + YieldDenom /\ z \in Nat
        BY <1>1, AccruedRead, RateAssumption, MulNat
    <2>4. v >= 1
        <3>1. 1 * YieldDenom <= AccruedFractions /\ 1 \in Nat
            BY <1>5, RateAssumption
        <3> HIDE DEF v
        <3>2. 1 <= v
            BY <1>1, <3>1, AccruedRead DEF v
        <3> QED
            BY <2>3, <3>2
    <2>5. EarnedSince(script.seenAt)' = 0
        <3>1. EarnedSince(now) = 0
            BY <1>1, Amounts0, EarnedTyped
        <3> QED
            BY <1>2, <2>1, <3>1 DEF EarnedSince
    <2>6. now <= now
        BY <1>1, Amounts0
    <2> HIDE DEF v
    <2>7. SizeSeen'
        <3>1. AccruedFractions' < z + YieldDenom + EarnedSince(script.seenAt)'
            <4> HIDE DEF z
            <4> QED
                BY <1>2, <2>3, <2>5, RateAssumption
        <3>2. /\ script'.state2.principal = acct'.principal
              /\ script'.state2.shares = acct'.shares
              /\ script'.state2.accrued >= 1 /\ script'.seenAt <= now'
              /\ script'.state2.accrued * YieldDenom = z
              /\ z <= AccruedFractions'
            BY <1>2, <2>1, <2>2, <2>3, <2>4, <2>6
        <3> QED
            BY <2>1, <3>1, <3>2 DEF SizeSeen
    <2> QED
        BY <1>4, <2>1, <2>7
        DEF Seen, StartSeen, DepositSeen, YieldSeen, RedemptionSeen, Minted
<1> QED
    BY <1>6, <1>7

\* Sizing the redemption.
LEMMA SizingSeen ==
    ASSUME TripInv, RedeemAll \/ BuildRedeem
    PROVE  Seen'
<1>1. /\ IInv /\ ScriptTyped /\ OnlyHolder /\ PositionHeld /\ SizeSeen /\ script \in Script
      /\ UNCHANGED vars
    BY DEF TripInv, Seen, VaultFacts, ScriptTyped, RedeemAll, BuildRedeem
<1>2. acct' = acct /\ token' = token /\ now' = now /\ AccruedFractions' = AccruedFractions
      /\ Balances' = Balances
    BY <1>1 DEF vars, AccruedFractions, Fractions, EarnedSince, Balances
<1>3. script.at \in {"redeem all", "build redeem"} /\ script.at \in Sizing
    BY DEF RedeemAll, BuildRedeem, Sizing
<1>4. /\ acct.shares > 0 /\ acct.principal >= script.deposit
      /\ script.afterBalances = Balances
    BY <1>1, <1>3 DEF PositionHeld
<1>5. /\ script.state2.principal = acct.principal
      /\ script.state2.shares = acct.shares
      /\ script.state2.accrued >= 1 /\ script.seenAt <= now
      /\ script.state2.accrued * YieldDenom <= AccruedFractions
      /\ AccruedFractions < script.state2.accrued * YieldDenom + YieldDenom
                                + EarnedSince(script.seenAt)
    BY <1>1, <1>3 DEF SizeSeen
<1>6. ASSUME script'.at \in Sizing, script'.deposit = script.deposit,
             script'.afterBalances = script.afterBalances, script'.state2 = script.state2,
             script'.seenAt = script.seenAt,
             script'.at = "redeem" => /\ script'.shares = RedeemableShares
                                      /\ script'.shares > 0 /\ script'.shares <= acct.shares
      PROVE  Seen'
    <2>1. PositionHeld'
        BY <1>2, <1>4, <1>6 DEF PositionHeld, Sizing
    <2>2. EarnedSince(script.seenAt)' = EarnedSince(script.seenAt)
        BY <1>2, <1>6 DEF EarnedSince
    <2>3. RedeemableShares' = RedeemableShares
        BY <1>6 DEF RedeemableShares, MarginShares, MarginAssets, AssetsPerSecond, Liquidity,
                    Assets
    <2>4. SizeSeen'
        BY <1>2, <1>5, <1>6, <2>2, <2>3, Zenon DEF SizeSeen
    <2> QED
        BY <1>6, <2>1, <2>4
        DEF Seen, StartSeen, DepositSeen, YieldSeen, RedemptionSeen, Minted, Sizing
<1>7. CASE RedeemAll
    <2>1. script' = [script EXCEPT !.at = "build redeem"]
        BY <1>7 DEF RedeemAll, Goto
    <2> QED
        BY <1>1, <1>6, <2>1 DEF Script, Sizing
<1>8. CASE BuildRedeem
    <2>1. CASE script' = [script EXCEPT !.at = "idle"]
        BY <1>1, <2>1, NothingSeen DEF Script
    <2>2. CASE script' # [script EXCEPT !.at = "idle"]
        <3>1. /\ RedeemableShares > 0 /\ Refusal(RedeemableShares) = "none"
              /\ script' = [script EXCEPT !.at = "redeem", !.shares = RedeemableShares]
            BY <1>8, <2>2 DEF BuildRedeem
        <3>2. CanRedeem(Deployer, RedeemableShares)
            BY <3>1 DEF Refusal
        <3>3. RedeemableShares <= acct.shares
            BY <1>1, <3>2 DEF CanRedeem, Settlable, OnlyHolder
        <3> QED
            BY <1>1, <1>6, <3>1, <3>3 DEF Script, Sizing
    <2> QED
        BY <2>1, <2>2
<1> QED
    BY <1>7, <1>8

\* A share is worth no less when the redemption is executed than when it was sized.
LEMMA PayoutAtLeast ==
    ASSUME NEW n \in Nat, NEW T \in Nat, NEW U \in Nat, T <= U, NEW S \in Nat \ {0}
    PROVE  MulDivFloor(n, T, S) <= MulDivFloor(n, U, S)
<1> DEFINE f == MulDivFloor(n, T, S)
<1>1. f \in Nat /\ f * S <= n * T
    BY FloorCeil
<1>2. n * T <= n * U /\ n * T \in Nat /\ n * U \in Nat
    OBVIOUS
<1> HIDE DEF f
<1>3. f * S <= n * U
    BY <1>1, <1>2
<1>4. f <= (n * U) \div S
    BY <1>1, <1>2, <1>3, DivLargest
<1> QED
    BY <1>4 DEF f, MulDivFloor

\* The redemption itself.
LEMMA MakeRedeemSeen ==
    ASSUME TripInv, MakeRedeem
    PROVE  Seen'
<1>1. /\ IInv /\ ScriptTyped /\ OnlyHolder /\ PositionHeld /\ SizeSeen /\ script \in Script
      /\ PrincipalOutlastsShares /\ VaultFacts
    BY DEF TripInv, Seen, VaultFacts, ScriptTyped
<1> PICK n \in Int : n = script.shares
    BY <1>1 DEF Script
<1> DEFINE a == Accrue(acct)
           x == AssetsFor(a, n)
           T == Assets(script.state2)
           S == script.state2.shares
<1>2. /\ script.at = "redeem" /\ Redeem(Deployer, n)
      /\ script' = [script EXCEPT !.at = "final", !.value = x]
    BY DEF MakeRedeem
<1>3. /\ n > 0 /\ n <= acct.shares /\ x \in Nat /\ x > 0
      /\ acct'.shares = acct.shares - n
      /\ token'[Deployer] = token[Deployer] + x
      /\ token'[Vault] = token[Vault] - x
    BY <1>1, <1>2, MakeRedeemEffect DEF OnlyHolder
<1>4. /\ script'.at = "final" /\ script'.value = x /\ script'.shares = n
      /\ script'.state2 = script.state2 /\ script'.afterBalances = script.afterBalances
    BY <1>1, <1>2 DEF Script
<1>5. script.at \in Sizing
    BY <1>2 DEF Sizing
<1>6. script.afterBalances.vault = token[Vault] /\ script.afterBalances.user = token[Deployer]
      /\ acct.shares > 0
    <2>1. script.afterBalances = Balances /\ acct.shares > 0
        BY <1>1, <1>5 DEF PositionHeld
    <2> QED
        BY <2>1 DEF Balances
<1>7. /\ S = acct.shares /\ script.state2.principal = acct.principal
      /\ script.state2.accrued \in Nat /\ S \in Nat \ {0} /\ T \in Nat
      /\ script.state2.accrued * YieldDenom <= AccruedFractions
    BY <1>1, <1>5, <1>6, Amounts0 DEF SizeSeen, Script, State, Assets
<1>8. T <= TotalAccounted(a) /\ TotalAccounted(a) \in Nat /\ a.shares = S
    <2>1. script.state2.accrued <= acct.accrued + PendingYield(acct)
        BY <1>1, <1>7, AccruedRead
    <2> QED
        BY <1>1, <1>7, <2>1, Owed, CurrentRecord, Amounts0 DEF Assets
<1> HIDE DEF T, S, a
<1>9. x >= MulDivFloor(n, T, S)
    <2>1. n \in Nat
        BY <1>3
    <2>2. MulDivFloor(n, T, S) <= MulDivFloor(n, TotalAccounted(a), S)
        BY <1>7, <1>8, <2>1, PayoutAtLeast
    <2>3. x = MulDivFloor(n, TotalAccounted(a), S)
        BY <1>8 DEF AssetsFor
    <2>4. MulDivFloor(n, T, S) \in Nat
        BY <1>7, <2>1, FloorCeil
    <2> HIDE DEF x
    <2> QED
        BY <1>3, <2>2, <2>3, <2>4
<1> HIDE DEF x
<1>10. FloorPayout' = MulDivFloor(n, T, S) /\ Liquidity' = token[Vault]
    BY <1>4, <1>6 DEF FloorPayout, Liquidity, Assets, T, S
<1>11. RedemptionSeen'
    <2>1. /\ script'.value > 0 /\ script'.value >= FloorPayout'
          /\ token'[Vault] = Liquidity' - script'.value
          /\ token'[Deployer] = script'.afterBalances.user + script'.value
          /\ acct'.shares = script'.state2.shares - script'.shares
        BY <1>3, <1>4, <1>6, <1>7, <1>9, <1>10 DEF S
    <2> QED
        BY <2>1, Zenon DEF RedemptionSeen
<1> QED
    BY <1>4, <1>11
    DEF Seen, StartSeen, DepositSeen, PositionHeld, YieldSeen, SizeSeen, Minted, Waiting, Sizing

LEMMA SeenStep ==
    ASSUME TripInv, [TripNext]_tripVars
    PROVE  Seen'
<1>1. IInv /\ ScriptTyped /\ Seen /\ script \in Script
    BY DEF TripInv, VaultFacts, ScriptTyped
<1>2. CASE Begin \/ Interrupted \/ RedeemFails \/ CheckFinal
    <2>1. script'.at \in {"idle", "read start"}
        BY <1>1, <1>2 DEF Begin, Idle, Interrupted, RedeemFails, CheckFinal, Goto, Script
    <2> QED
        BY <2>1, NothingSeen
<1>3. CASE ReadStart \/ CheckStart
    BY <1>3, PreparingSeen
<1>4. CASE MakeDeposit
    BY <1>4, MakeDepositSeen
<1>5. CASE ReadDeposit \/ CheckDeposit
    BY <1>5, MintedSeen
<1>6. CASE Crystallize
    BY <1>6, CrystallizeSeen
<1>7. CASE CheckAccrual \/ CheckAgain
    BY <1>7, WaitingSeen
<1>8. CASE RedeemAll \/ BuildRedeem
    BY <1>8, SizingSeen
<1>9. CASE MakeRedeem
    BY <1>9, MakeRedeemSeen
<1>10. CASE UNCHANGED tripVars
    <2>1. UNCHANGED vars /\ script' = script
        BY <1>10 DEF tripVars
    <2> QED
        BY <1>1, <2>1, OthersAreQuiet, SeenKept
<1>11. CASE Others
    <2>1. CASE Initialize(Deployer)
        <3>1. script.at = "idle" /\ script' = script
            BY <1>11, <2>1, OthersSteps DEF Initialize, TripInv, OnlyHolder
        <3> QED
            BY <3>1, NothingSeen
    <2>2. CASE AccrueYield \/ LedgerTick
        BY <1>1, <1>11, <2>2, OthersSteps, OthersAreQuiet, SeenKept
    <2> QED
        BY <1>11, <2>1, <2>2, OthersSteps
<1> QED
    BY <1>2, <1>3, <1>4, <1>5, <1>6, <1>7, <1>8, <1>9, <1>10, <1>11 DEF TripNext, Stage

-----------------------------------------------------------------------------
(***************************************************************************)
(* The checks                                                              *)
(***************************************************************************)

\* Checks that hold, but perhaps for those of RoundingChecks, add no other failure.
LEMMA ChecksAdd ==
    ASSUME ChecksHold, NEW checks, Check(checks),
           \A label \in DOMAIN checks \ RoundingChecks : checks[label]
    PROVE  ChecksHold'
BY DEF ChecksHold, Check, RoundingChecks, RateChecks

\* What the vault owes on start is what it holds or more.
LEMMA CheckStartHolds ==
    ASSUME TripInv, CheckStart
    PROVE  ChecksHold'
<1> DEFINE checks == [claims |-> Assets(script.start) >= Balances.vault]
<1>1. script.at = "check start" /\ Check(checks)
    BY DEF CheckStart
<1>2. checks.claims
    BY <1>1 DEF TripInv, Seen, StartSeen, Balances
<1> HIDE DEF checks
<1>3. \A label \in DOMAIN checks \ RoundingChecks : checks[label]
    BY <1>2 DEF checks
<1> QED
    BY <1>1, <1>3, ChecksAdd DEF TripInv

\* The deposit minted and moved what it should.
LEMMA CheckDepositHolds ==
    ASSUME TripInv, CheckDeposit
    PROVE  ChecksHold'
<1> DEFINE s == script
           b == Balances
           checks == [minted    |-> s.value > 0,
                      delta     |-> s.after.shares - s.start.shares = s.value,
                      principal |-> s.after.principal = s.start.principal + s.deposit,
                      received  |-> b.vault = s.startBalances.vault + s.deposit,
                      left      |-> s.startBalances.user - b.user >= s.deposit,
                      price     |-> Assets(s.after) >= s.after.shares,
                      oneToOne  |-> s.start.shares = 0 => s.value = s.deposit]
<1>1. s.at = "check deposit" /\ Check(checks)
    BY DEF CheckDeposit
<1>2. /\ s.value > 0
      /\ acct.shares = s.start.shares + s.value
      /\ acct.principal = s.start.principal + s.deposit
      /\ token[Vault] = s.startBalances.vault + s.deposit
      /\ s.startBalances.user = token[Deployer] + s.deposit
      /\ s.start.shares = 0 => s.value = s.deposit
    BY <1>1 DEF TripInv, Seen, DepositSeen, Minted
<1>3. /\ s.after.shares = acct.shares
      /\ s.after.principal = acct.principal
      /\ Assets(s.after) >= s.after.shares
    BY <1>1 DEF TripInv, Seen, YieldSeen
<1>4. /\ s.value \in Int /\ s.start.shares \in Int /\ s.deposit \in Int
      /\ token[Deployer] \in Int
    BY Amounts0 DEF TripInv, VaultFacts, ScriptTyped, Script, State
<1>5. b.vault = token[Vault] /\ b.user = token[Deployer]
    BY DEF Balances
<1>6. /\ s.after.shares - s.start.shares = s.value
      /\ s.after.principal = s.start.principal + s.deposit
      /\ b.vault = s.startBalances.vault + s.deposit
      /\ s.startBalances.user - b.user >= s.deposit
    BY <1>2, <1>3, <1>4, <1>5
<1>7. /\ checks.minted /\ checks.delta /\ checks.principal /\ checks.received
      /\ checks.left /\ checks.price /\ checks.oneToOne
    BY <1>2, <1>3, <1>6, Zenon
<1>8. DOMAIN checks = {"minted", "delta", "principal", "received", "left", "price",
                       "oneToOne"}
    OBVIOUS
<1> HIDE DEF checks
<1>9. \A label \in DOMAIN checks \ RoundingChecks : checks[label]
    BY <1>7, <1>8
<1> QED
    BY <1>1, <1>9, ChecksAdd DEF TripInv

\* The yield of the wait arrived, and it raised the price of a share above one.
LEMMA CheckAccrualHolds ==
    ASSUME TripInv, CheckAccrual
    PROVE  ChecksHold'
<1> DEFINE checks == [accrued |-> VaultState.accrued > script.after.accrued,
                      rate    |-> MatchesRate(script.after.principal, script.after, VaultState),
                      total   |-> TotalCurrent = Assets(VaultState)]
           v == acct.accrued + PendingYield(acct)
           c == script.after.accrued
<1>1. script.at = "read accrual" /\ Check(checks)
    BY DEF CheckAccrual
<1>2. c * YieldDenom + YieldDenom <= AccruedFractions /\ c \in Nat
    BY <1>1 DEF TripInv, Seen, YieldSeen, ScriptTyped, Script, State
<1>3. v > c
    <2>1. (c + 1) * YieldDenom = c * YieldDenom + YieldDenom /\ c + 1 \in Nat
        BY <1>2, RateAssumption
    <2>2. (c + 1) * YieldDenom <= AccruedFractions
        BY <1>2, <2>1
    <2> HIDE DEF c
    <2>3. c + 1 <= v /\ v \in Nat
        BY <2>1, <2>2, AccruedRead DEF TripInv, VaultFacts
    <2> HIDE DEF v
    <2> QED
        BY <1>2, <2>3
<1>4. checks.accrued
    BY <1>3, Zenon DEF VaultState
<1>5. checks.total
    <2>1. TotalCurrent = Assets(VaultState)
        BY Owed DEF TripInv, VaultFacts, VaultState, Assets
    <2> QED
        BY <2>1, Zenon
<1>6. DOMAIN checks = {"accrued", "rate", "total"}
    OBVIOUS
<1> HIDE DEF checks
<1>7. \A label \in DOMAIN checks \ RoundingChecks : checks[label]
    BY <1>4, <1>5, <1>6 DEF RoundingChecks, RateChecks
<1> QED
    BY <1>1, <1>7, ChecksAdd DEF TripInv

LEMMA CheckAgainHolds ==
    ASSUME TripInv, CheckAgain
    PROVE  ChecksHold'
<1> DEFINE checks == [rateAgain |-> MatchesRate(VaultState.principal, script.state1, VaultState),
                      priceRose |-> Assets(VaultState) > VaultState.shares]
           v == acct.accrued + PendingYield(acct)
<1>1. script.at = "read again" /\ Check(checks)
    BY DEF CheckAgain
<1>2. 1 <= v /\ v \in Nat
    <2>1. 1 * YieldDenom <= AccruedFractions /\ 1 \in Nat
        <3>1. YieldDenom <= AccruedFractions
            BY <1>1 DEF TripInv, Seen, YieldSeen
        <3> QED
            BY <3>1, RateAssumption
    <2> QED
        BY <2>1, AccruedRead DEF TripInv, VaultFacts
<1>3. acct.principal >= acct.shares /\ acct.principal \in Nat /\ acct.shares \in Nat
    BY Amounts0 DEF TripInv, VaultFacts, PrincipalOutlastsShares
<1>4. Assets(VaultState) = acct.principal + v /\ VaultState.shares = acct.shares
    BY DEF Assets, VaultState
<1> HIDE DEF v
<1>5. Assets(VaultState) > VaultState.shares
    BY <1>2, <1>3, <1>4
<1>6. checks.priceRose
    BY <1>5, Zenon
<1>7. DOMAIN checks = {"rateAgain", "priceRose"}
    OBVIOUS
<1> HIDE DEF checks
<1>8. \A label \in DOMAIN checks \ RoundingChecks : checks[label]
    BY <1>6, <1>7 DEF RoundingChecks, RateChecks
<1> QED
    BY <1>1, <1>8, ChecksAdd DEF TripInv

\* Redeeming everything is refused for lack of tokens, and for nothing else.
LEMMA RedeemAllHolds ==
    ASSUME TripInv, RedeemAll
    PROVE  ChecksHold'
<1> DEFINE checks == [refused |-> Refusal(AllShares) = "NoLiquidity"]
           v == acct.accrued + PendingYield(acct)
           a == Accrue(acct)
           S == acct.shares
<1>1. script.at \in Sizing /\ Check(checks)
    BY DEF RedeemAll, Sizing
<1>2. /\ IInv /\ VaultFacts /\ OnlyHolder /\ ScriptTyped /\ SizeSeen /\ PositionHeld
    BY DEF TripInv, VaultFacts, Seen
<1>3. AllShares = S /\ S > 0 /\ S \in Nat /\ shareOf[Deployer] = S
    BY <1>1, <1>2, Amounts0 DEF AllShares, SizeSeen, PositionHeld, OnlyHolder
<1>4. 1 <= v /\ v \in Nat
    <2>1. script.state2.accrued \in Nat /\ script.state2.accrued >= 1
          /\ script.state2.accrued * YieldDenom <= AccruedFractions
        BY <1>1, <1>2 DEF SizeSeen, ScriptTyped, Script, State
    <2>2. script.state2.accrued <= v /\ v \in Nat
        BY <1>2, <2>1, AccruedRead
    <2> HIDE DEF v
    <2> QED
        BY <2>1, <2>2
<1>5. TotalCurrent > token[Vault] /\ TotalCurrent \in Nat /\ token[Vault] \in Nat
    <2>1. TotalCurrent >= token[Vault] + v
        BY <1>2, Owed
    <2> HIDE DEF v
    <2> QED
        BY <1>2, <1>4, <2>1, CurrentRecord
<1>6. AssetsFor(a, S) = TotalCurrent
    <2>1. Sound(a) /\ a.shares = S /\ TotalAccounted(a) = TotalCurrent /\ S \in 1 .. S
        <3>1. CanAccrue
            BY <1>1, <1>2, NothingOverflows DEF TripInv, CanAccrue, OnlyHolder, Sizing
        <3> QED
            BY <1>2, <1>3, <3>1, AfterAccrual
    <2> HIDE DEF a, S
    <2> QED
        BY <2>1, RedeemAmount
<1>7. token[Vault] < AssetsFor(a, S)
    BY <1>5, <1>6
<1>8. ~CanRedeem(Deployer, S)
    <2>1. ~(token[Vault] >= AssetsFor(a, S))
        BY <1>5, <1>6
    <2> QED
        BY <2>1 DEF CanRedeem, Settlable
<1>9. ~(S > shareOf[Deployer])
    BY <1>3
<1> HIDE DEF S, a, v
<1>10. Refusal(S) = "NoLiquidity"
    BY <1>3, <1>7, <1>8, <1>9 DEF Refusal, a
<1>11. checks.refused
    BY <1>3, <1>10, Zenon
<1>12. DOMAIN checks = {"refused"}
    OBVIOUS
<1> HIDE DEF checks
<1>13. \A label \in DOMAIN checks \ RoundingChecks : checks[label]
    BY <1>11, <1>12
<1> QED
    BY <1>1, <1>13, ChecksAdd DEF TripInv

\* The redemption burned, paid and left what it should.
LEMMA CheckFinalHolds ==
    ASSUME TripInv, CheckFinal
    PROVE  ChecksHold'
<1> DEFINE s == script
           b == Balances
           checks == [tokensLeft |-> b.vault = Residual,
                      atLeast    |-> s.value >= FloorPayout,
                      drained    |-> s.value <= Liquidity
                                         /\ Residual < MarginAssets + MarginUnits,
                      burned     |-> acct.shares = s.state2.shares - s.shares,
                      repaid     |-> b.user > s.afterBalances.user,
                      recovered  |-> b.user + FeeAllowance >= s.startBalances.user]
<1>1. s.at = "final" /\ Check(checks)
    BY DEF CheckFinal
<1>2. /\ s.value > 0 /\ s.value >= FloorPayout
      /\ token[Vault] = Liquidity - s.value
      /\ token[Deployer] = s.afterBalances.user + s.value
      /\ acct.shares = s.state2.shares - s.shares
    BY <1>1 DEF TripInv, Seen, RedemptionSeen
<1>3. s.value \in Int /\ s.afterBalances.user \in Int
    BY DEF TripInv, ScriptTyped, Script, Holdings
<1>4. b.vault = Residual /\ b.user = s.afterBalances.user + s.value
    BY <1>2 DEF Balances, Residual
<1>5. b.user > s.afterBalances.user
    BY <1>2, <1>3, <1>4
<1>6. checks.tokensLeft /\ checks.atLeast /\ checks.burned /\ checks.repaid
    BY <1>2, <1>4, <1>5, Zenon
<1>7. DOMAIN checks = {"tokensLeft", "atLeast", "drained", "burned", "repaid", "recovered"}
    OBVIOUS
<1> HIDE DEF checks
<1>8. \A label \in DOMAIN checks \ RoundingChecks : checks[label]
    BY <1>6, <1>7 DEF RoundingChecks
<1> QED
    BY <1>1, <1>8, ChecksAdd DEF TripInv

LEMMA ChecksHoldStep ==
    ASSUME TripInv, [TripNext]_tripVars
    PROVE  ChecksHold'
<1>1. ChecksHold
    BY DEF TripInv
<1>2. CASE CheckStart \/ CheckDeposit \/ CheckAccrual \/ CheckAgain \/ RedeemAll \/ CheckFinal
    BY <1>2, CheckStartHolds, CheckDepositHolds, CheckAccrualHolds, CheckAgainHolds,
       RedeemAllHolds, CheckFinalHolds
<1>3. CASE Begin
    BY <1>3 DEF Begin, ChecksHold
<1>4. CASE UNCHANGED failed
    BY <1>1, <1>4 DEF ChecksHold
<1>5. CASE \/ Interrupted \/ ReadStart \/ MakeDeposit \/ ReadDeposit \/ Crystallize
           \/ BuildRedeem \/ MakeRedeem \/ RedeemFails \/ Others \/ UNCHANGED tripVars
    <2>1. UNCHANGED failed
        BY <1>5 DEF Interrupted, ReadStart, MakeDeposit, ReadDeposit, Crystallize,
                    BuildRedeem, MakeRedeem, RedeemFails, Others, tripVars
    <2> QED
        BY <1>4, <2>1
<1> QED
    BY <1>2, <1>3, <1>5 DEF TripNext, Stage

-----------------------------------------------------------------------------
(***************************************************************************)
(* Draining the vault and recovering the deposit                           *)
(***************************************************************************)

\* The arithmetic of sizing.  Shares sized at a price of T / S, for L tokens with a
\* margin of M, are paid more than L less the margin and three shares and a unit.
LEMMA PayoutNearLiquidity ==
    ASSUME NEW T \in Nat, NEW S \in Nat \ {0}, S <= T, NEW L \in Nat, NEW M \in Nat,
           NEW R \in Nat, NEW u \in Nat, 3 * T <= (u - 1) * S,
           R = MulDivFloor(L, S, T) - (MulDivFloor(M, S, T) + 2)
    PROVE  L - MulDivFloor(R, T, S) < M + u
<1> DEFINE q == MulDivFloor(L, S, T)
           m == MulDivFloor(M, S, T)
           k == MulDivFloor(R, T, S)
<1>1. T \in Nat \ {0} /\ S \in Nat
    OBVIOUS
<1>2. q \in Nat /\ L * S < q * T + T
    BY <1>1, FloorCeil
<1>3. m \in Nat /\ m * T <= M * S
    BY <1>1, FloorCeil
<1>4. k \in Nat /\ R * T < k * S + S
    BY <1>1, FloorCeil
<1>5. q = R + m + 2
    BY <1>2, <1>3
<1> HIDE DEF q, m, k
<1>6. q * T = R * T + m * T + 2 * T /\ R * T \in Nat /\ m * T \in Nat
    BY <1>1, <1>3, <1>5
<1>7. L * S \in Nat /\ M * S \in Nat /\ k * S \in Nat /\ u * S \in Nat
      /\ (u - 1) * S = u * S - S
    BY <1>1, <1>4
<1>8. L * S < k * S + M * S + u * S
    BY <1>1, <1>2, <1>3, <1>4, <1>6, <1>7
<1>9. (k + M + u) * S = k * S + M * S + u * S /\ k + M + u \in Nat
    BY <1>1, <1>4
<1>10. L < k + M + u
    <2> SUFFICES ASSUME k + M + u <= L PROVE FALSE
        BY <1>9
    <2>1. (k + M + u) * S <= L * S
        BY <1>1, <1>9, MulMono
    <2> QED
        BY <1>7, <1>8, <1>9, <2>1
<1> QED
    BY <1>4, <1>10 DEF k

\* Nothing else the script does changes what it knows of the deposit.
LEMMA DepositMovedStep ==
    ASSUME TripInv, DepositMoved, [TripNext]_tripVars
    PROVE  DepositMoved'
<1>1. script \in Script /\ ScriptTyped
    BY DEF TripInv, ScriptTyped
<1>2. CASE UNCHANGED script
    BY <1>2 DEF DepositMoved, Liquidity, RedeemableShares, MarginShares, MarginAssets,
                AssetsPerSecond, Assets
<1>3. ASSUME script'.at \in Waiting \cup Sizing, script.at \in Waiting \cup Sizing,
             script'.afterBalances = script.afterBalances,
             script'.startBalances = script.startBalances,
             script'.deposit = script.deposit
      PROVE  DepositMoved'
    <2>1. script'.at # "final"
        BY <1>3 DEF Waiting, Sizing
    <2> QED
        BY <1>3, <2>1 DEF DepositMoved
<1>4. CASE script'.at \in {"idle", "read start", "check start", "deposit", "read deposit",
                           "check deposit"}
    BY <1>4 DEF DepositMoved, Waiting, Sizing
<1>5. CASE Begin \/ Interrupted \/ ReadStart \/ CheckStart \/ MakeDeposit \/ ReadDeposit
           \/ RedeemFails \/ CheckFinal
    BY <1>1, <1>4, <1>5
    DEF Begin, Idle, Interrupted, ReadStart, CheckStart, MakeDeposit, ReadDeposit,
        RedeemFails, CheckFinal, Goto, Script
<1>6. CASE CheckDeposit
    <2>1. /\ script.at = "check deposit" /\ script'.at = "wait"
          /\ script'.afterBalances = Balances
          /\ script'.startBalances = script.startBalances /\ script'.deposit = script.deposit
        BY <1>1, <1>6 DEF CheckDeposit, Script
    <2>2. /\ token[Vault] = script.startBalances.vault + script.deposit
          /\ script.startBalances.user = token[Deployer] + script.deposit
        BY <2>1 DEF TripInv, Seen, DepositSeen, Minted
    <2>3. /\ script'.afterBalances.vault = script'.startBalances.vault + script'.deposit
          /\ script'.startBalances.user = script'.afterBalances.user + script'.deposit
        <3>1. Balances.vault = token[Vault] /\ Balances.user = token[Deployer]
            BY DEF Balances
        <3> QED
            BY <2>1, <2>2, <3>1, Zenon
    <2> QED
        BY <2>1, <2>3 DEF DepositMoved
<1>7. CASE Crystallize
    <2>1. CASE script.at = "wait"
        BY <1>1, <1>3, <1>7, <2>1, CrystallizeScript DEF Script, Waiting
    <2>2. CASE script.at = "again"
        BY <1>1, <1>3, <1>7, <2>2, CrystallizeScript DEF Script, Waiting
    <2> QED
        BY <1>1, <1>7, <2>1, <2>2, CrystallizeScript
<1>8. CASE CheckAccrual \/ CheckAgain
    BY <1>1, <1>3, <1>8 DEF CheckAccrual, CheckAgain, Script, Waiting, Sizing
<1>9. CASE RedeemAll
    BY <1>1, <1>3, <1>9 DEF RedeemAll, Goto, Script, Waiting, Sizing
<1>10. CASE BuildRedeem
    <2>1. CASE script'.at = "idle"
        BY <1>4, <2>1
    <2>2. CASE script' = [script EXCEPT !.at = "redeem", !.shares = RedeemableShares]
        BY <1>1, <1>3, <1>10, <2>2 DEF BuildRedeem, Script, Sizing
    <2> QED
        BY <1>1, <1>10, <2>1, <2>2 DEF BuildRedeem, Script
<1>11. CASE MakeRedeem
    <2>1. /\ IInv /\ PrincipalOutlastsShares /\ SizeSeen /\ PositionHeld
          /\ shareOf[Deployer] = acct.shares
        BY DEF TripInv, VaultFacts, Seen, OnlyHolder
    <2> PICK n \in Int : n = script.shares
        BY <1>1 DEF Script
    <2> DEFINE x == AssetsFor(Accrue(acct), n)
    <2>2. /\ script.at = "redeem" /\ Redeem(Deployer, n)
          /\ script' = [script EXCEPT !.at = "final", !.value = x]
        BY <1>11 DEF MakeRedeem
    <2>3. x <= token[Vault]
        BY <2>1, <2>2, MakeRedeemEffect
    <2>4. /\ n = RedeemableShares /\ n > 0
          /\ script.state2.principal = acct.principal /\ script.state2.shares = acct.shares
        BY <2>1, <2>2 DEF SizeSeen, Sizing
    <2>5. acct.shares > 0 /\ Liquidity = token[Vault]
        BY <2>1, <2>2 DEF PositionHeld, Sizing, Liquidity, Balances
    <2>6. acct.shares <= acct.principal
        BY <2>1, Amounts0 DEF PrincipalOutlastsShares
    <2>7. /\ script.afterBalances.vault = script.startBalances.vault + script.deposit
          /\ script.startBalances.user = script.afterBalances.user + script.deposit
        BY <2>2 DEF DepositMoved, Sizing
    <2> HIDE DEF x
    <2>8. /\ script'.at = "final" /\ script'.value = x /\ script'.shares = n
          /\ script'.state2 = script.state2 /\ script'.deposit = script.deposit
          /\ script'.startBalances = script.startBalances
          /\ script'.afterBalances = script.afterBalances
        BY <1>1, <2>2 DEF Script
    <2>9. Liquidity' = Liquidity /\ RedeemableShares' = RedeemableShares
        BY <2>8 DEF Liquidity, RedeemableShares, MarginShares, MarginAssets, AssetsPerSecond,
                    Assets
    <2>10. /\ script'.shares = RedeemableShares' /\ script'.shares > 0
           /\ script'.state2.shares > 0 /\ script'.state2.shares <= script'.state2.principal
           /\ script'.value <= Liquidity'
        BY <2>3, <2>4, <2>5, <2>6, <2>8, <2>9
    <2>11. /\ script'.afterBalances.vault = script'.startBalances.vault + script'.deposit
           /\ script'.startBalances.user = script'.afterBalances.user + script'.deposit
        BY <2>7, <2>8
    <2> QED
        BY <2>10, <2>11, Zenon DEF DepositMoved
<1>12. CASE Others \/ UNCHANGED tripVars
    BY <1>2, <1>12 DEF Others, tripVars
<1> QED
    BY <1>5, <1>6, <1>7, <1>8, <1>9, <1>10, <1>11, <1>12 DEF TripNext, Stage

\* The redemption drains the vault to its margin, and with it the user recovers the
\* deposit.
LEMMA RedemptionDrains ==
    ASSUME TripInv, DepositMoved, RedemptionAffordable, script.at = "final"
    PROVE  /\ script.value <= Liquidity /\ Residual < MarginAssets + MarginUnits
           /\ token[Deployer] + FeeAllowance >= script.startBalances.user
<1> DEFINE T == Assets(script.state2)
           S == script.state2.shares
           L == Liquidity
           M == MarginAssets
           R == script.shares
           v == script.value
<1>1. /\ script \in Script /\ v >= FloorPayout
      /\ token[Deployer] = script.afterBalances.user + v
    BY DEF TripInv, ScriptTyped, Seen, RedemptionSeen
<1>2. /\ L = script.startBalances.vault + script.deposit
      /\ script.startBalances.user = script.afterBalances.user + script.deposit
      /\ R = RedeemableShares /\ R > 0 /\ S > 0 /\ S <= script.state2.principal /\ v <= L
    BY DEF DepositMoved, Liquidity
<1>3. 3 * T <= (MarginUnits - 1) * S /\ M + MarginUnits <= FeeAllowance
    BY DEF RedemptionAffordable, ShareIsCheap, FeesCoverMargin
<1>4. /\ script.state2.principal \in Nat /\ script.state2.accrued \in Nat /\ S \in Nat
      /\ R \in Int /\ v \in Int /\ script.afterBalances.user \in Nat
      /\ script.startBalances.vault \in Nat /\ script.deposit \in Nat /\ L \in Nat
    BY <1>1 DEF Script, State, Holdings, Liquidity
<1>5. T \in Nat /\ S \in Nat \ {0} /\ S <= T /\ R \in Nat
    BY <1>2, <1>4 DEF Assets
<1>6. MarginUnits \in Nat /\ MarginSeconds \in Nat /\ FeeAllowance \in Nat
    BY ScriptAssumption
<1>7. M \in Nat
    <2>1. AssetsPerSecond \in Nat
        BY <1>4, RateAssumption, FloorCeil DEF AssetsPerSecond
    <2> QED
        BY <1>6, <2>1, MulNat DEF MarginAssets
<1>8. R = MulDivFloor(L, S, T) - (MulDivFloor(M, S, T) + 2)
    BY <1>2 DEF RedeemableShares, MarginShares
<1>9. FloorPayout = MulDivFloor(R, T, S) /\ MulDivFloor(R, T, S) \in Nat
    BY <1>5, FloorCeil DEF FloorPayout
<1> HIDE DEF T, S, L, M, R, v
<1>10. L - MulDivFloor(R, T, S) < M + MarginUnits
    BY <1>3, <1>4, <1>5, <1>6, <1>7, <1>8, PayoutNearLiquidity
<1>11. L - v < M + MarginUnits
    BY <1>1, <1>4, <1>6, <1>7, <1>9, <1>10
<1>12. token[Deployer] + FeeAllowance >= script.startBalances.user
    BY <1>1, <1>2, <1>3, <1>4, <1>6, <1>7, <1>11
<1> QED
    BY <1>2, <1>11, <1>12 DEF Residual, L, M, v

\* Only the last checks can fail for one of those two reasons, and they do not.
LEMMA NoFalseAlarmStep ==
    ASSUME TripInv, DepositMoved, RedemptionAffordable, NoFalseAlarm,
           [TripNext]_tripVars
    PROVE  NoFalseAlarm'
<1>1. failed' \subseteq RoundingChecks
    BY ChecksHoldStep DEF ChecksHold
<1>2. ASSUME "drained" \notin failed' \ failed, "recovered" \notin failed' \ failed
      PROVE  NoFalseAlarm'
    BY <1>1, <1>2 DEF NoFalseAlarm, RoundingChecks, RateChecks
<1>3. ASSUME NEW checks, Check(checks),
             "drained" \in DOMAIN checks => checks["drained"],
             "recovered" \in DOMAIN checks => checks["recovered"]
      PROVE  NoFalseAlarm'
    BY <1>2, <1>3 DEF Check
<1>4. CASE CheckStart
    BY <1>3, <1>4 DEF CheckStart
<1>5. CASE CheckDeposit
    BY <1>3, <1>5 DEF CheckDeposit
<1>6. CASE CheckAccrual
    BY <1>3, <1>6 DEF CheckAccrual
<1>7. CASE CheckAgain
    BY <1>3, <1>7 DEF CheckAgain
<1>8. CASE RedeemAll
    BY <1>3, <1>8 DEF RedeemAll
<1>9. CASE CheckFinal
    <2> DEFINE s == script
               b == Balances
               checks == [tokensLeft |-> b.vault = Residual,
                          atLeast    |-> s.value >= FloorPayout,
                          drained    |-> s.value <= Liquidity
                                             /\ Residual < MarginAssets + MarginUnits,
                          burned     |-> acct.shares = s.state2.shares - s.shares,
                          repaid     |-> b.user > s.afterBalances.user,
                          recovered  |-> b.user + FeeAllowance >= s.startBalances.user]
    <2>1. script.at = "final" /\ Check(checks)
        BY <1>9 DEF CheckFinal
    <2>2. checks["drained"] /\ checks["recovered"]
        BY <2>1, RedemptionDrains DEF Balances
    <2> HIDE DEF checks
    <2> QED
        BY <1>3, <2>1, <2>2
<1>10. CASE Begin
    BY <1>2, <1>10 DEF Begin
<1>11. CASE \/ Interrupted \/ ReadStart \/ MakeDeposit \/ ReadDeposit \/ Crystallize
            \/ BuildRedeem \/ MakeRedeem \/ RedeemFails \/ Others \/ UNCHANGED tripVars
    <2>1. failed' = failed
        BY <1>11 DEF Interrupted, ReadStart, MakeDeposit, ReadDeposit, Crystallize,
                     BuildRedeem, MakeRedeem, RedeemFails, Others, tripVars
    <2> QED
        BY <1>2, <2>1
<1> QED
    BY <1>4, <1>5, <1>6, <1>7, <1>8, <1>9, <1>10, <1>11 DEF TripNext, Stage

-----------------------------------------------------------------------------
(***************************************************************************)
(* Theorems                                                                *)
(***************************************************************************)

\* What the script has read stays true of the vault until the script uses it, in every
\* reachable state: whatever ledgers close and whoever crystallizes in between.
THEOREM TripInvariance == TripSpec => []TripInv
<1>1. TripInv /\ [TripNext]_tripVars => TripInv'
    <2> SUFFICES ASSUME TripInv, [TripNext]_tripVars PROVE TripInv'
        OBVIOUS
    <2>1. VaultFacts'
        BY TripStepIsVaultStep, VaultFactsStep DEF TripInv, VaultFacts
    <2> QED
        BY <2>1, ScriptTypedStep, OnlyHolderStep, YieldBoundedStep, SeenStep, ChecksHoldStep
        DEF TripInv
<1> QED
    BY <1>1, TripInitInv, PTL DEF TripSpec

\* The script and the others about it only ever call the contract: all that is proved
\* of the contract holds while the script runs.
THEOREM TripImplementsVault == TripSpec => Spec
<1>1. TripInit => Init
    BY DEF TripInit
<1>2. TripInv /\ [TripNext]_tripVars => [Next]_vars
    BY TripStepIsVaultStep DEF TripInv, VaultFacts
<1> QED
    BY <1>1, <1>2, TripInvariance, PTL DEF TripSpec, Spec

\* A redemption sized with the margin is never refused while the margin lasts, for
\* every deposit, every rate and every number of runs before it.
THEOREM TripMarginSuffices == TripSpec => []MarginSuffices
<1>1. TripInv => MarginSuffices
    BY MarginLasts
<1> QED
    BY <1>1, TripInvariance, PTL

\* No check of the script fails on a vault that works, but perhaps those of
\* RoundingChecks.
THEOREM TripChecksHold == TripSpec => []ChecksHold
<1>1. TripInv => ChecksHold
    BY DEF TripInv
<1> QED
    BY <1>1, TripInvariance, PTL

\* Nor do those two, as long as the redemptions that are executed are of shares worth
\* less than a third of MarginUnits, and the fee allowance covers their margin: then
\* only MatchesRate raises a false alarm, however often the script is run and stopped.
THEOREM TripNoFalseAlarm == TripSpec /\ []RedemptionAffordable => []NoFalseAlarm
<1>1. TripInit => DepositMoved /\ NoFalseAlarm
    BY DEF TripInit, Idle, DepositMoved, NoFalseAlarm, Waiting, Sizing
<1>2. TripInv /\ DepositMoved /\ [TripNext]_tripVars => DepositMoved'
    BY DepositMovedStep
<1>3. TripInv /\ DepositMoved /\ RedemptionAffordable /\ NoFalseAlarm /\ [TripNext]_tripVars
          => NoFalseAlarm'
    BY NoFalseAlarmStep
<1> QED
    BY <1>1, <1>2, <1>3, TripInvariance, PTL DEF TripSpec
=============================================================================
