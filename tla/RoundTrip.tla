----------------------------- MODULE RoundTrip -------------------------------
(***************************************************************************)
(* The round trip on Testnet (scripts/testnet/round-trip.ts): a script     *)
(* that deposits into a deployed vault, lets it accrue, sizes a redemption *)
(* to what the vault can pay and checks at each stage what it reads.  It   *)
(* may be run again on the vault its earlier runs have left, also after a  *)
(* run that stopped half way.                                              *)
(*                                                                         *)
(* Each read and each transaction is a step of its own, over the contract  *)
(* of module YieldVault: ledgers close and anyone may crystallize yield    *)
(* between them.  A transaction is simulated when it is built and executed *)
(* later.  The script is the vault's only holder, which its checks assume. *)
(* The amounts of the source are constants here; fees are left out.        *)
(***************************************************************************)
EXTENDS YieldVault

CONSTANTS Deployer,      \* the account of the script: vault administrator and user
          Deposits,      \* the values of DEPOSIT_AMOUNT
          WaitSeconds,   \* WAIT_SECONDS, and the pause before the second accrual
          MarginSeconds, \* the seconds of yield the redemption leaves room for
          MarginUnits,   \* and the units it leaves on top
          FeeAllowance, YieldTolerance,
          MaxRuns        \* bound: runs of the script

ASSUME DeployerAssumption == Deployer \in Users
ASSUME ScriptAssumption ==
    /\ Deposits \subseteq Nat \ {0}
    /\ {WaitSeconds, MarginSeconds, MarginUnits, FeeAllowance, YieldTolerance, MaxRuns}
           \subseteq Nat

\* The amounts the script is run with are far below the limits of the contract's
\* integers: nothing it does comes near an overflow.
ASSUME SizeAssumption ==
    /\ SimApyBps * MaxTime <= MaxI
    /\ Endowment + (SimApyBps * (MaxRuns * Endowment)) * MaxTime <= MaxI

\* Every deposit earns a unit while the script waits: 1000 XLM earn one in a
\* fraction of a second.
ASSUME WaitAssumption ==
    \A deposit \in Deposits : deposit * (SimApyBps * WaitSeconds) >= YieldDenom

\* Room for the roundings of a margin counted in whole units a second: 1000 units
\* for 300 seconds.
ASSUME MarginAssumption == MarginSeconds <= MarginUnits

VARIABLES script,       \* where the script is and what it has read
          failed,       \* the checks that failed in this run
          runs

tripVars == <<vars, script, failed, runs>>

-----------------------------------------------------------------------------
(***************************************************************************)
(* Reads                                                                   *)
(***************************************************************************)

\* getVaultState as the contract answers it at the current ledger: the accrued
\* yield includes the pending part, the time is that of the last accrual.
VaultState ==
    [principal |-> acct.principal, accrued |-> acct.accrued + PendingYield(acct),
     shares |-> acct.shares, lastTs |-> acct.lastTs]

\* assetBalance of the vault and of the user.
Balances == [vault |-> token[Vault], user |-> token[Deployer]]

Assets(state) == state.principal + state.accrued

NoState    == [principal |-> 0, accrued |-> 0, shares |-> 0, lastTs |-> 0]
NoBalances == [vault |-> 0, user |-> 0]

Idle == [at |-> "idle", deposit |-> 0, seenAt |-> 0, shares |-> 0, value |-> 0,
         start |-> NoState, after |-> NoState, state1 |-> NoState, state2 |-> NoState,
         startBalances |-> NoBalances, afterBalances |-> NoBalances]

TripInit ==
    /\ Init
    /\ script = Idle /\ failed = {} /\ runs = 0

Goto(step) == script' = [script EXCEPT !.at = step]

\* check: a false condition is counted, and the script goes on.
Check(checks) == failed' = failed \cup {label \in DOMAIN checks : ~checks[label]}

\* expectedYield.
ExpectedYield(principal, elapsed) == MulDivFloor(principal, SimApyBps * elapsed, YieldDenom)

AbsDiff(a, b) == IF a > b THEN a - b ELSE b - a

-----------------------------------------------------------------------------
(***************************************************************************)
(* The stages of main                                                      *)
(***************************************************************************)

\* A run starts, on a vault just deployed or one that an earlier run has left, with
\* a deposit the account can pay.
Begin ==
    /\ script.at = "idle" /\ runs < MaxRuns /\ Initialized
    /\ \E deposit \in Deposits :
          /\ token[Deployer] >= deposit
          /\ script' = [Idle EXCEPT !.at = "read start", !.deposit = deposit]
    /\ failed' = {} /\ runs' = runs + 1
    /\ UNCHANGED vars

\* An exception, or the operator stops it.
Interrupted ==
    /\ script.at # "idle"
    /\ Goto("idle")
    /\ UNCHANGED <<vars, failed, runs>>

ReadStart ==
    /\ script.at = "read start"
    /\ script' = [script EXCEPT !.at = "check start", !.start = VaultState]
    /\ UNCHANGED <<vars, failed, runs>>

CheckStart ==
    /\ script.at = "check start"
    /\ script' = [script EXCEPT !.at = "deposit", !.startBalances = Balances]
    /\ Check([claims |-> Assets(script.start) >= Balances.vault])
    /\ UNCHANGED <<vars, runs>>

MakeDeposit ==
    /\ script.at = "deposit"
    /\ Deposit(Deployer, script.deposit)
    /\ script' = [script EXCEPT !.at = "read deposit",
                                !.value = SharesFor(Accrue(acct), script.deposit)]
    /\ UNCHANGED <<failed, runs>>

ReadDeposit ==
    /\ script.at = "read deposit"
    /\ script' = [script EXCEPT !.at = "check deposit", !.after = VaultState]
    /\ UNCHANGED <<vars, failed, runs>>

\* The shares that were minted are those the totals have grown by, the tokens
\* have arrived, and the price of a share is at least one.
CheckDeposit ==
    LET s == script
        b == Balances
    IN  /\ s.at = "check deposit"
        /\ script' = [s EXCEPT !.at = "wait", !.afterBalances = b, !.seenAt = now]
        /\ Check([minted    |-> s.value > 0,
                  delta     |-> s.after.shares - s.start.shares = s.value,
                  principal |-> s.after.principal = s.start.principal + s.deposit,
                  received  |-> b.vault = s.startBalances.vault + s.deposit,
                  left      |-> s.startBalances.user - b.user >= s.deposit,
                  price     |-> Assets(s.after) >= s.after.shares,
                  oneToOne  |-> s.start.shares = 0 => s.value = s.deposit])
        /\ UNCHANGED <<vars, runs>>

\* The two calls of accrue_yield, each after a pause.
AccrueStages == [wait |-> "read accrual", again |-> "read again"]

Crystallize ==
    /\ script.at \in DOMAIN AccrueStages
    /\ now >= script.seenAt + WaitSeconds
    /\ AccrueYield
    /\ Goto(AccrueStages[script.at])
    /\ UNCHANGED <<failed, runs>>

MatchesRate(principal, from, to) ==
    AbsDiff(to.accrued - from.accrued, ExpectedYield(principal, to.lastTs - from.lastTs))
        <= YieldTolerance

\* TotalCurrent is what the contract computes as the field assets of the state read.
CheckAccrual ==
    LET state == VaultState
    IN  /\ script.at = "read accrual"
        /\ script' = [script EXCEPT !.at = "again", !.state1 = state, !.seenAt = now]
        /\ Check([accrued |-> state.accrued > script.after.accrued,
                  rate    |-> MatchesRate(script.after.principal, script.after, state),
                  total   |-> TotalCurrent = Assets(state)])
        /\ UNCHANGED <<vars, runs>>

CheckAgain ==
    LET state == VaultState
    IN  /\ script.at = "read again"
        /\ script' = [script EXCEPT !.at = "redeem all", !.state2 = state, !.seenAt = now]
        /\ Check([rateAgain |-> MatchesRate(state.principal, script.state1, state),
                  priceRose |-> Assets(state) > state.shares])
        /\ UNCHANGED <<vars, runs>>

-----------------------------------------------------------------------------
(***************************************************************************)
(* Redeeming what is there                                                 *)
(***************************************************************************)

\* Why the simulation of a redemption fails, in the order the contract looks.
Refusal(shares) ==
    LET a == Accrue(acct)
    IN  CASE CanRedeem(Deployer, shares) -> "none"
          [] shares > shareOf[Deployer]  -> "NoShares"
          [] shares > 0 /\ token[Vault] < AssetsFor(a, shares) -> "NoLiquidity"
          [] OTHER -> "other"

\* Faulty variant: the shares just bought are taken for all there are.
AllSharesMinted == script.value
AllShares == script.state2.shares

\* Every share at once must be refused, for lack of tokens.
RedeemAll ==
    /\ script.at = "redeem all"
    /\ Goto("build redeem")
    /\ Check([refused |-> Refusal(AllShares) = "NoLiquidity"])
    /\ UNCHANGED <<vars, runs>>

Liquidity == script.afterBalances.vault

AssetsPerSecond == MulDivFloor(script.state2.principal, SimApyBps, YieldDenom)

\* Faulty variant: no room is left for yield that accrues before the execution.
MarginAssetsNow == 0
\* The yield that can accrue before the redemption is executed, and a little more.
MarginAssets == AssetsPerSecond * MarginSeconds + MarginUnits

MarginShares ==
    MulDivFloor(MarginAssets, script.state2.shares, Assets(script.state2)) + 2

RedeemableShares ==
    MulDivFloor(Liquidity, script.state2.shares, Assets(script.state2)) - MarginShares

FloorPayout == MulDivFloor(script.shares, Assets(script.state2), script.state2.shares)

\* Sizing, building and simulating; too little liquidity is an error of its own.
BuildRedeem ==
    /\ script.at = "build redeem"
    /\ script' = IF RedeemableShares > 0 /\ Refusal(RedeemableShares) = "none"
                 THEN [script EXCEPT !.at = "redeem", !.shares = RedeemableShares]
                 ELSE [script EXCEPT !.at = "idle"]
    /\ UNCHANGED <<vars, failed, runs>>

MakeRedeem ==
    /\ script.at = "redeem"
    /\ Redeem(Deployer, script.shares)
    /\ script' = [script EXCEPT !.at = "final", !.value = AssetsFor(Accrue(acct), script.shares)]
    /\ UNCHANGED <<failed, runs>>

\* What was simulated fails on execution, and the script with it.
RedeemFails ==
    /\ script.at = "redeem" /\ ~CanRedeem(Deployer, script.shares)
    /\ Goto("idle")
    /\ UNCHANGED <<vars, failed, runs>>

Residual == Liquidity - script.value

CheckFinal ==
    LET s == script
        b == Balances
    IN  /\ s.at = "final"
        /\ Goto("idle")
        /\ Check([tokensLeft |-> b.vault = Residual,
                  atLeast    |-> s.value >= FloorPayout,
                  drained    |-> s.value <= Liquidity /\ Residual < MarginAssets + MarginUnits,
                  burned     |-> acct.shares = s.state2.shares - s.shares,
                  repaid     |-> b.user > s.afterBalances.user,
                  recovered  |-> b.user + FeeAllowance >= s.startBalances.user])
        /\ UNCHANGED <<vars, runs>>

-----------------------------------------------------------------------------
Stage ==
    \/ Begin \/ ReadStart \/ CheckStart \/ MakeDeposit \/ ReadDeposit \/ CheckDeposit
    \/ Crystallize \/ CheckAccrual \/ CheckAgain \/ RedeemAll \/ BuildRedeem
    \/ MakeRedeem \/ RedeemFails \/ CheckFinal

\* Of the contract's other calls only those a stranger without shares can make.
Others ==
    /\ \/ Initialize(Deployer)
       \/ AccrueYield /\ acct # Accrue(acct)
       \/ LedgerTick
    /\ UNCHANGED <<script, failed, runs>>

TripNext == Stage \/ Interrupted \/ Others

TripSpec == TripInit /\ [][TripNext]_tripVars

-----------------------------------------------------------------------------
(***************************************************************************)
(* Properties                                                              *)
(***************************************************************************)
RateChecks == {"rate", "rateAgain"}

\* However often the script is run, stopped half way and run again on what is left,
\* and whenever ledgers close and others crystallize between its steps, its checks
\* raise no false alarm, but for the two of MatchesRate: the margin is neither
\* too small for the payout to be settled exactly nor so large that the vault is
\* not drained or the principal not recovered.
NoFalseAlarm == failed \subseteq RateChecks

\* A redemption sized with the margin is executed, although the payout grows with
\* every ledger that closes after the state it was sized by was read: the vault
\* holds enough for MarginSeconds, ten times the lifetime of the transaction.
MarginSuffices ==
    script.at = "redeem" /\ now <= script.seenAt + MarginSeconds
        => CanRedeem(Deployer, script.shares)

\* round-trip.ts:60: the accrual differs from the rate by roundings, "so allow ±2".
\* The accrued yield that is read includes what fell due since the accrual, the
\* time it is compared with does not.
AccrualMatchesRate == failed \cap RateChecks = {}

=============================================================================
