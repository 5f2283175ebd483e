------------------------ MODULE YieldVaultProperties ------------------------
(***************************************************************************)
(* What must be true of the YieldVault contract whatever its users, its    *)
(* administrator, the clock and the operator who funds it do.              *)
(***************************************************************************)
EXTENDS YieldVault

\* Every stored amount is a non-negative i128.  The contract's subtractions
\* are checked against the range of i128 only, so a payout that exceeded
\* principal, accrued yield or a balance would go negative silently.
TypeOK ==
    /\ admin \in Users \cup {NoUser}
    /\ acct \in Accounting
    /\ shareOf \in [Users -> 0 .. MaxI]
    /\ token \in [Users \cup {Vault} -> Nat]
    /\ now \in Nat
    /\ acct.lastTs <= now
    /\ emitted \in Seq(Events)
    /\ funded \in Nat
    /\ credited \in Nat

-----------------------------------------------------------------------------
(***************************************************************************)
(* Shares                                                                  *)
(***************************************************************************)

\* One element for every share somebody holds.
ShareUnits(balances) ==
    {unit \in Users \X (1 .. MaxI) : unit[2] <= balances[unit[1]]}

\* Accounting.shares is the sum of all balances: deposit, redeem and withdraw
\* write the total and the holder's key separately (set_accounting, add_shares,
\* sub_shares), and nothing else in the contract ties them together.
SharesConserved == Cardinality(ShareUnits(shareOf)) = acct.shares

\* A share is never worth less than the unit of the asset it was first issued
\* for, and claims and shares run out together: no sequence of deposits and
\* redemptions, each with its own rounding, leaves claims nobody owns or shares
\* of nothing (which would make the next deposit divide by zero).
EveryShareIsBacked ==
    /\ TotalAccounted(acct) >= acct.shares
    /\ (acct.shares = 0) <=> (TotalAccounted(acct) = 0)

\* While anybody holds a share the vault has principal that earns yield.  The
\* payout's split rounds the yield part down and charges the difference to the
\* principal, withdrawal after withdrawal, and yet the principal never falls below
\* one unit a share: otherwise it could reach zero with shares outstanding, and
\* accrue_internal would skip the vault from then on.
PrincipalOutlastsShares == acct.principal >= acct.shares

\* The fraction of a unit carried between accruals is less than a unit and
\* belongs to invested principal: it never survives the principal that earned it,
\* to be paid to whoever deposits next.
RemainderBelongsToPrincipal ==
    /\ acct.rem < YieldDenom
    /\ acct.principal = 0 => acct.rem = 0

\* The current price of a share (pending yield included) never falls, whoever
\* deposits, redeems or withdraws, however amounts round, and whether or not a
\* call crystallizes the yield: nobody is diluted by somebody else's call.
PriceNeverFalls ==
    [][ acct.shares > 0 /\ acct'.shares > 0
            => TotalCurrent' * acct.shares >= TotalCurrent * acct'.shares ]_vars

\* Within a ledger no round trip gains: depositing and redeeming the minted shares
\* returns no more assets than were paid in, and redeeming part of the supply and
\* depositing the proceeds returns no more shares.  The two roundings cannot be
\* played against each other.
NoFreeRoundTrip ==
    LET a == Accrue(acct)
        Deposited(x, s) == [a EXCEPT !.principal = @ + x, !.shares = @ + s]
    IN  Initialized =>
        /\ \A x \in 1 .. Endowment :
               LET s == SharesFor(a, x)
               IN  s > 0 => AssetsFor(Deposited(x, s), s) <= x
        /\ \A s \in 1 .. acct.shares - 1 :
               LET x == AssetsFor(a, s)
               IN  x > 0 => SharesFor(Settle(a, x, s), x) <= s

-----------------------------------------------------------------------------
(***************************************************************************)
(* Views against calls                                                     *)
(***************************************************************************)

\* The amounts the views quote are the amounts the calls of the same ledger use:
\* the views add pending_yield to the stored totals, the calls accrue first.
QuotesAreHonoured ==
    LET a == Accrue(acct)
    IN  Initialized =>
        /\ TotalCurrent = TotalAccounted(a)
        /\ \A x \in 1 .. Endowment : ConvertToShares(x) = SharesFor(a, x)
        /\ acct.shares > 0 =>
               \A s \in 1 .. acct.shares : ConvertToAssets(s) = AssetsFor(a, s)

\* max_redeemable is exact (contracts/yield_vault/README.md:38): the vault can
\* settle that many shares at the current ledger and not one more.
MaxRedeemableIsExact ==
    LET Payable(s) == AssetsFor(Accrue(acct), s) <= token[Vault]
    IN  Initialized /\ ~acct.paused =>
        /\ MaxRedeemable \in 0 .. acct.shares
        /\ MaxRedeemable > 0 => Payable(MaxRedeemable)
        /\ MaxRedeemable < acct.shares => ~Payable(MaxRedeemable + 1)

\* The vault holds enough for every claim: then any holder can redeem the whole
\* balance at once.  Rounding to zero, the split of the payout or an overflow
\* inside the settlement never stands in the way.
FundedHolderCanExit ==
    /\ CanAccrue
    /\ Fits(TotalCurrent)
    /\ token[Vault] >= TotalCurrent
    => \A u \in Users : shareOf[u] > 0 => CanRedeem(u, shareOf[u])

-----------------------------------------------------------------------------
(***************************************************************************)
(* Yield and liquidity                                                     *)
(***************************************************************************)

\* When anyone calls the vault has no influence on the yield: crystallizing at an
\* intermediate ledger credits, with what follows, exactly what one accrual over
\* the whole interval credits, to the last fraction.
AccrualScheduleIrrelevant ==
    \A middle, rest \in 0 .. MaxTime :
        LET first  == SimulatedYieldParts(acct.principal, middle, acct.rem)
            second == SimulatedYieldParts(acct.principal, rest, first.rem)
            whole  == SimulatedYieldParts(acct.principal, middle + rest, acct.rem)
        IN  /\ first.amount + second.amount = whole.amount
            /\ second.rem = whole.rem

\* What the vault owes beyond the tokens it holds is the simulated yield credited
\* so far less the tokens supplied for it: no call creates or hides a shortfall.
ShortfallIsUnfundedYield ==
    TotalAccounted(acct) - token[Vault] = credited - funded

-----------------------------------------------------------------------------
(***************************************************************************)
(* Events                                                                  *)
(***************************************************************************)

\* The shares the published events give to (or take from) a user.
SharesIn(events, topic, u) ==
    LET of == {i \in DOMAIN events : events[i].topic = topic /\ events[i].user = u}
    IN  IF of = {} THEN 0 ELSE events[CHOOSE i \in of : TRUE].shares

\* The assets in the events of a topic.
AssetsIn(events, topic) ==
    LET of == {i \in DOMAIN events : events[i].topic = topic}
    IN  IF of = {} THEN 0 ELSE events[CHOOSE i \in of : TRUE].assets

\* An observer of the event log alone can follow the vault: in every transaction
\* the change of each balance is share_mint less share_burn, and the change of the
\* total is deposit plus yield less withdraw.  Nothing changes a position silently
\* and no event reports what did not happen.
EventsExplainState ==
    [][ /\ \A u \in Users :
              shareOf'[u] - shareOf[u] =
                  SharesIn(emitted', "share_mint", u) - SharesIn(emitted', "share_burn", u)
        /\ TotalAccounted(acct') - TotalAccounted(acct) =
               AssetsIn(emitted', "deposit") + AssetsIn(emitted', "yield")
                   - AssetsIn(emitted', "withdraw")
      ]_vars

-----------------------------------------------------------------------------
(***************************************************************************)
(* Implementation of the abstract pool                                     *)
(***************************************************************************)
Pool == INSTANCE SharePool
            WITH Members <- Users,
                 claims  <- TotalCurrent,
                 supply  <- acct.shares,
                 holding <- shareOf,
                 liquid  <- token[Vault]

\* Every call of the contract is one step of the abstract share pool, or none:
\* pending yield counts as a claim from the ledger it falls due in, so that
\* crystallizing it is invisible to the pool.
ImplementsPool == Pool!Spec

-----------------------------------------------------------------------------
(***************************************************************************)
(* Claims of the documentation that the code does not keep                 *)
(***************************************************************************)

\* docs/deployment/testnet.md:104: "principal is fully backed".  Redemptions take
\* the accrued part of their payout from the same tokens.
PrincipalFullyBacked == token[Vault] >= acct.principal

=============================================================================
