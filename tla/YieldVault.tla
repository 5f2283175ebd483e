----------------------------- MODULE YieldVault -----------------------------
(***************************************************************************)
(* The YieldVault contract (contracts/yield_vault/src/lib.rs): a vault     *)
(* that takes one token, issues proportional shares for it, credits a      *)
(* simulated time-based yield to its accounting and pays shares back out   *)
(* of the tokens it holds.                                                 *)
(*                                                                         *)
(* An action is one successful contract call in one transaction.  A call   *)
(* that returns an error is rolled back by the ledger, the accrual at its  *)
(* head included, and leaves no trace: such calls are stuttering steps,    *)
(* and the conditions under which they fail are the negated guards here.   *)
(* The token is a SEP-41 contract outside this repository; the vault only  *)
(* reads balances and transfers.  Ledger time is the environment's.        *)
(***************************************************************************)
EXTENDS VaultMath, Sequences, FiniteSets

CONSTANTS Users,        \* addresses that deposit, redeem and administer
          Vault,        \* the contract's own address
          NoUser,       \* no address
          Endowment,    \* the tokens every user starts with
          MaxTime,      \* bound: the last ledger timestamp explored
          MaxFunding    \* bound: the tokens sent to the vault from outside

ASSUME UsersAssumption == IsFiniteSet(Users) /\ Vault \notin Users /\ NoUser \notin Users
ASSUME BoundsAssumption == Endowment \in Nat /\ MaxTime \in Nat /\ MaxFunding \in Nat

VARIABLES admin,        \* Config.admin, or NoUser before initialize
          acct,         \* Accounting: principal, accrued, rem, shares, lastTs, paused
          shareOf,      \* DataKey::Shares: an absent key reads as 0
          token,        \* the asset's balances, of the users and of the vault
          now,          \* env.ledger().timestamp()
          emitted,      \* the events published by the latest transaction
          funded,       \* ghost: tokens sent to the vault other than by deposit
          credited      \* ghost: simulated yield credited since initialize

vars == <<admin, acct, shareOf, token, now, emitted, funded, credited>>

\* The i128 arguments of the calls; -1 stands for every negative one.
Amounts == -1 .. MaxI

Initialized == admin # NoUser

-----------------------------------------------------------------------------
(***************************************************************************)
(* Accounting                                                              *)
(***************************************************************************)
Accounting == [principal : 0 .. MaxI, accrued : 0 .. MaxI,
               rem : 0 .. YieldDenom - 1, shares : 0 .. MaxI,
               lastTs : Nat, paused : BOOLEAN]

TotalAccounted(a) == a.principal + a.accrued

\* No yield is due: no time has passed or nothing is invested.
NothingDue(a) == now <= a.lastTs \/ a.principal = 0

Due(a) == SimulatedYieldParts(a.principal, now - a.lastTs, a.rem)

\* Faulty variant: the yield of the time since the last call is counted
\* without the fraction carried from it.
PendingYieldWithoutRem(a) ==
    IF NothingDue(a) THEN 0
    ELSE SimulatedYieldParts(a.principal, now - a.lastTs, 0).amount
PendingYield(a) == IF NothingDue(a) THEN 0 ELSE Due(a).amount

AccrualFits(a) ==
    NothingDue(a) \/ ( /\ YieldFits(a.principal, now - a.lastTs, a.rem)
                       /\ Fits(a.accrued + PendingYield(a)) )

\* Faulty variant: an idle vault does not move its accrual time forward.
AccrueLeavingIdleTime(a) ==
    IF NothingDue(a) THEN a
    ELSE [a EXCEPT !.rem = Due(a).rem, !.accrued = @ + Due(a).amount,
                   !.lastTs = now]
\* accrue_internal.
Accrue(a) ==
    IF NothingDue(a)
    THEN [a EXCEPT !.lastTs = IF now > a.lastTs THEN now ELSE @]
    ELSE [a EXCEPT !.rem = Due(a).rem, !.accrued = @ + Due(a).amount,
                   !.lastTs = now]

\* Faulty variant: shares are issued for a deposit rounded up.
SharesForCeil(a, assets) ==
    IF a.shares = 0 THEN assets
    ELSE MulDivCeil(assets, a.shares, TotalAccounted(a))
\* The shares a deposit of `assets` mints.
SharesFor(a, assets) ==
    IF a.shares = 0 THEN assets
    ELSE MulDivFloor(assets, a.shares, TotalAccounted(a))

\* Faulty variant: redemption rounds up.
AssetsForCeil(a, shares) == MulDivCeil(shares, TotalAccounted(a), a.shares)
\* The assets a redemption of `shares` pays.
AssetsFor(a, shares) == MulDivFloor(shares, TotalAccounted(a), a.shares)

\* The shares a withdrawal of `assets` burns.
SharesToBurn(a, assets) == MulDivCeil(assets, a.shares, TotalAccounted(a))

(***************************************************************************)
(* settle_redemption on the accounting: the payout is split over principal *)
(* and accrued yield, exactly when everything goes and with the yield part *)
(* rounded down otherwise; the carried fraction shrinks with the principal.*)
(***************************************************************************)

\* Faulty variant: principal is repaid before yield.
PayoutPrincipalFirst(a, assets) ==
    LET principalOut == IF assets <= a.principal THEN assets ELSE a.principal
    IN  [principal |-> principalOut, accrued |-> assets - principalOut]
Payout(a, assets) ==
    LET yieldOut == MulDivFloor(assets, a.accrued, TotalAccounted(a))
    IN  IF assets = TotalAccounted(a)
        THEN [principal |-> a.principal, accrued |-> a.accrued]
        ELSE [principal |-> assets - yieldOut, accrued |-> yieldOut]

\* The carried fraction belongs to the principal that earned it.
ScaledRem(a, remaining) ==
    IF remaining = 0 \/ a.principal = 0 THEN 0
    ELSE MulDivFloor(a.rem, remaining, a.principal)

\* Faulty variant: the whole payout is charged to the principal.
SettleFromPrincipal(a, assets, shares) ==
    [a EXCEPT !.principal = IF assets <= @ THEN @ - assets ELSE 0,
              !.rem = ScaledRem(a, a.principal),
              !.shares = @ - shares]
Settle(a, assets, shares) ==
    LET out       == Payout(a, assets)
        remaining == a.principal - out.principal
    IN  [a EXCEPT !.principal = remaining,
                  !.accrued = @ - out.accrued,
                  !.rem = ScaledRem(a, remaining),
                  !.shares = @ - shares]

-----------------------------------------------------------------------------
(***************************************************************************)
(* Events                                                                  *)
(***************************************************************************)
Topics == {"initialize", "deposit", "withdraw", "yield", "share_mint",
           "share_burn", "pause", "unpause"}

Events == [topic : Topics, user : Users \cup {NoUser}, assets : Nat, shares : Nat]

Event(topic, user, assets, shares) ==
    [topic |-> topic, user |-> user, assets |-> assets, shares |-> shares]

\* A yield event is published only for a positive amount.
YieldEvents(a) ==
    IF PendingYield(a) > 0
    THEN <<Event("yield", NoUser, PendingYield(a), 0)>>
    ELSE <<>>

DepositEvents(u, assets, shares) ==
    << Event("deposit", u, assets, shares), Event("share_mint", u, 0, shares) >>

\* Faulty variant: the burned shares are reported as the assets paid.
WithdrawEventsSwapped(u, assets, shares) ==
    << Event("withdraw", u, assets, shares), Event("share_burn", u, 0, assets) >>
WithdrawEvents(u, assets, shares) ==
    << Event("withdraw", u, assets, shares), Event("share_burn", u, 0, shares) >>

-----------------------------------------------------------------------------
(***************************************************************************)
(* Views                                                                   *)
(***************************************************************************)
TotalCurrent == TotalAccounted(acct) + PendingYield(acct)

ConvertToShares(assets) ==
    IF acct.shares = 0 THEN assets
    ELSE MulDivFloor(assets, acct.shares, TotalCurrent)

ConvertToAssets(shares) ==
    IF acct.shares = 0 THEN 0
    ELSE MulDivFloor(shares, TotalCurrent, acct.shares)

\* Faulty variant: the ceiling is the floor of the plain proportion.
MaxRedeemableProportional ==
    IF acct.paused \/ acct.shares = 0 THEN 0
    ELSE IF token[Vault] >= TotalCurrent THEN acct.shares
    ELSE MulDivFloor(token[Vault], acct.shares, TotalCurrent)
MaxRedeemable ==
    IF acct.paused \/ acct.shares = 0 THEN 0
    ELSE IF token[Vault] <= 0 \/ TotalCurrent <= 0 THEN 0
    ELSE IF token[Vault] >= TotalCurrent THEN acct.shares
    ELSE MulDivCeil(token[Vault] + 1, acct.shares, TotalCurrent) - 1

-----------------------------------------------------------------------------
(***************************************************************************)
(* Calls                                                                   *)
(***************************************************************************)
Init ==
    /\ admin = NoUser
    /\ acct = [principal |-> 0, accrued |-> 0, rem |-> 0, shares |-> 0,
               lastTs |-> 0, paused |-> FALSE]
    /\ shareOf = [u \in Users |-> 0]
    /\ token = [holder \in Users \cup {Vault} |->
                   IF holder = Vault THEN 0 ELSE Endowment]
    /\ now = 0
    /\ emitted = <<>>
    /\ funded = 0
    /\ credited = 0

\* Names, symbols and decimals out of range are rejected before any change;
\* what is stored of them is never read again.
Initialize(u) ==
    /\ ~Initialized
    /\ admin' = u
    /\ acct' = [principal |-> 0, accrued |-> 0, rem |-> 0, shares |-> 0,
                lastTs |-> now, paused |-> FALSE]
    /\ emitted' = <<Event("initialize", u, 0, 0)>>
    /\ UNCHANGED <<shareOf, token, now, funded, credited>>

\* The head of deposit, redeem, withdraw and accrue_yield.
CanAccrue == Initialized /\ ~acct.paused /\ AccrualFits(acct)

Deposit(u, assets) ==
    LET a      == Accrue(acct)
        shares == SharesFor(a, assets)
    IN  /\ CanAccrue
        /\ assets > 0
        /\ Fits(TotalAccounted(a))
        /\ shares > 0 /\ Fits(shares)
        /\ token[u] >= assets
        /\ Fits(a.principal + assets)
        /\ Fits(a.shares + shares)
        /\ Fits(shareOf[u] + shares)
        /\ token' = [token EXCEPT ![u] = @ - assets, ![Vault] = @ + assets]
        /\ acct' = [a EXCEPT !.principal = @ + assets, !.shares = @ + shares]
        /\ shareOf' = [shareOf EXCEPT ![u] = @ + shares]
        /\ emitted' = YieldEvents(acct) \o DepositEvents(u, assets, shares)
        /\ credited' = credited + PendingYield(acct)
        /\ UNCHANGED <<admin, now, funded>>

\* Faulty variant: the shares asked for are compared with the supply only.
SettlableBySupply(u, a, assets, shares) ==
    /\ shares <= a.shares /\ a.shares > 0
    /\ assets > 0
    /\ token[Vault] >= assets
\* Faulty variant: the vault keeps a last token back.
SettlableKeepingOne(u, a, assets, shares) ==
    /\ shares <= shareOf[u] /\ a.shares > 0
    /\ assets > 0
    /\ token[Vault] > assets
\* The conditions redeem and withdraw share.
Settlable(u, a, assets, shares) ==
    /\ shares <= shareOf[u] /\ a.shares > 0
    /\ assets > 0
    /\ token[Vault] >= assets

\* Faulty variant: the holder's share balance is left as it was.
PayOutKeepingShares(u, a, assets, shares) ==
    /\ acct' = Settle(a, assets, shares)
    /\ token' = [token EXCEPT ![Vault] = @ - assets, ![u] = @ + assets]
    /\ shareOf' = shareOf
    /\ emitted' = YieldEvents(acct) \o WithdrawEvents(u, assets, shares)
    /\ credited' = credited + PendingYield(acct)
    /\ UNCHANGED <<admin, now, funded>>
\* settle_redemption: account, transfer, burn, publish.
PayOut(u, a, assets, shares) ==
    /\ acct' = Settle(a, assets, shares)
    /\ token' = [token EXCEPT ![Vault] = @ - assets, ![u] = @ + assets]
    /\ shareOf' = [shareOf EXCEPT ![u] = @ - shares]
    /\ emitted' = YieldEvents(acct) \o WithdrawEvents(u, assets, shares)
    /\ credited' = credited + PendingYield(acct)
    /\ UNCHANGED <<admin, now, funded>>

CanRedeem(u, shares) ==
    LET a == Accrue(acct)
    IN  /\ CanAccrue
        /\ shares > 0
        /\ Fits(TotalAccounted(a))
        /\ Settlable(u, a, AssetsFor(a, shares), shares)

Redeem(u, shares) ==
    LET a == Accrue(acct)
    IN  /\ CanRedeem(u, shares)
        /\ PayOut(u, a, AssetsFor(a, shares), shares)

\* Faulty variant: a withdrawal may burn the last share and leave assets.
EmptiesByRoundingNever(a, assets, shares) == FALSE
\* RoundEmpty: rounding up would burn every share for less than everything.
EmptiesByRounding(a, assets, shares) ==
    shares = a.shares /\ assets < TotalAccounted(a)

Withdraw(u, assets) ==
    LET a      == Accrue(acct)
        shares == SharesToBurn(a, assets)
    IN  /\ CanAccrue
        /\ assets > 0
        /\ Fits(TotalAccounted(a))
        /\ assets <= TotalAccounted(a)
        /\ a.shares > 0
        /\ ~EmptiesByRounding(a, assets, shares)
        /\ Settlable(u, a, assets, shares)
        /\ PayOut(u, a, assets, shares)

AccrueYield ==
    /\ CanAccrue
    /\ acct' = Accrue(acct)
    /\ emitted' = YieldEvents(acct)
    /\ credited' = credited + PendingYield(acct)
    /\ UNCHANGED <<admin, shareOf, token, now, funded>>

\* pause and unpause carry the administrator's authorization and accrue nothing.
Pause ==
    /\ Initialized /\ ~acct.paused
    /\ acct' = [acct EXCEPT !.paused = TRUE]
    /\ emitted' = <<Event("pause", admin, 0, 0)>>
    /\ UNCHANGED <<admin, shareOf, token, now, funded, credited>>

Unpause ==
    /\ Initialized /\ acct.paused
    /\ acct' = [acct EXCEPT !.paused = FALSE]
    /\ emitted' = <<Event("unpause", admin, 0, 0)>>
    /\ UNCHANGED <<admin, shareOf, token, now, funded, credited>>

-----------------------------------------------------------------------------
(***************************************************************************)
(* Environment                                                             *)
(***************************************************************************)

\* A later ledger closes.
LedgerTick ==
    /\ now < MaxTime
    /\ now' = now + 1
    /\ emitted' = <<>>
    /\ UNCHANGED <<admin, acct, shareOf, token, funded, credited>>

\* The testnet operator supplies liquidity for simulated yield: tokens reach
\* the vault by a plain transfer, which the contract does not see.
FundVault(amount) ==
    /\ funded + amount <= MaxFunding
    /\ token' = [token EXCEPT ![Vault] = @ + amount]
    /\ funded' = funded + amount
    /\ emitted' = <<>>
    /\ UNCHANGED <<admin, acct, shareOf, now, credited>>

Next ==
    \/ \E u \in Users : Initialize(u)
    \/ \E u \in Users, assets \in Amounts : Deposit(u, assets)
    \/ \E u \in Users, shares \in Amounts : Redeem(u, shares)
    \/ \E u \in Users, assets \in Amounts : Withdraw(u, assets)
    \/ AccrueYield
    \/ Pause
    \/ Unpause
    \/ LedgerTick
    \/ \E amount \in 1 .. MaxFunding : FundVault(amount)

Spec == Init /\ [][Next]_vars

=============================================================================
