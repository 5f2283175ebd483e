-------------------------- MODULE YieldVaultProofs --------------------------
(***************************************************************************)
(* Proofs about the vault for every finite set of users, every size of     *)
(* integer, every rate and every history.                                  *)
(*                                                                         *)
(* The inductive invariant IInv says of the accounting record that it is   *)
(* Sound: its amounts are in range, no share is worth less than one unit,  *)
(* claims and shares run out together, and no fraction survives its        *)
(* principal.  Soundness alone is not inductive: a redemption subtracts    *)
(* its shares from a total the contract never compares them with, so the   *)
(* invariant also says that the balances add up to that total.             *)
(*                                                                         *)
(* On it rest the steps of the abstract pool, for which each call is first *)
(* reduced to its effect on claims, supply and tokens, the agreement of    *)
(* views and calls, what a round trip can gain, and what an observer of    *)
(* the published events knows.                                             *)
(***************************************************************************)
EXTENDS YieldVaultProperties, VaultMathLemmas, FiniteSetTheorems, SequenceTheorems

Sound(a) ==
    /\ a \in Accounting
    /\ TotalAccounted(a) >= a.shares
    /\ (a.shares = 0) <=> (TotalAccounted(a) = 0)
    /\ a.principal = 0 => a.rem = 0

-----------------------------------------------------------------------------
(***************************************************************************)
(* Accrual                                                                 *)
(***************************************************************************)

\* A record whose amounts need not fit the integer type: what the calls compute
\* with before they know whether the result fits.
Record == [principal : Nat, accrued : Nat, rem : 0 .. YieldDenom - 1, shares : Nat,
           lastTs : Nat, paused : BOOLEAN]

Backed(a) ==
    /\ a \in Record
    /\ TotalAccounted(a) >= a.shares
    /\ (a.shares = 0) <=> (TotalAccounted(a) = 0)

LEMMA SoundIsBacked ==
    ASSUME NEW a, Sound(a)
    PROVE  Backed(a)
<1>1. a \in Accounting /\ Accounting \subseteq Record
    BY MaxIAssumption DEF Sound, Accounting, Record
<1> QED
    BY <1>1 DEF Sound, Backed

\* Pending yield is never negative, and a record that is up to date has none.
LEMMA PendingNat ==
    ASSUME NEW a \in Record, now \in Nat, a.lastTs <= now
    PROVE  /\ PendingYield(a) \in Nat
           /\ a.lastTs = now => PendingYield(a) = 0
           /\ ~NothingDue(a) => Due(a).rem \in 0 .. YieldDenom - 1
<1>1. CASE NothingDue(a)
    BY <1>1 DEF PendingYield
<1>2. CASE ~NothingDue(a)
    <2>1. a.principal \in Nat /\ now - a.lastTs \in Nat
          /\ a.rem \in 0 .. YieldDenom - 1 /\ a.lastTs # now
        BY <1>2 DEF NothingDue, Record
    <2>2. Due(a).amount \in Nat /\ Due(a).rem \in 0 .. YieldDenom - 1
        BY <2>1, YieldPartsExact DEF Due
    <2> QED
        BY <1>2, <2>1, <2>2 DEF PendingYield
<1> QED
    BY <1>1, <1>2

\* accrue_internal turns exactly the pending yield into accrued yield, whether or
\* not it fits the type; the carried fraction is that of the yield that was due.
LEMMA AccrueExact ==
    ASSUME NEW a \in Record, now \in Nat, a.lastTs <= now
    PROVE  /\ Accrue(a) = [principal |-> a.principal,
                           accrued |-> a.accrued + PendingYield(a),
                           rem |-> IF NothingDue(a) THEN a.rem ELSE Due(a).rem,
                           shares |-> a.shares, lastTs |-> now, paused |-> a.paused]
           /\ Accrue(a) \in Record
           /\ TotalAccounted(Accrue(a)) = TotalAccounted(a) + PendingYield(a)
<1> DEFINE y == PendingYield(a)
           r == IF NothingDue(a) THEN a.rem ELSE Due(a).rem
<1>1. y \in Nat /\ r \in 0 .. YieldDenom - 1
    BY PendingNat DEF Record
<1>2. Accrue(a) = [a EXCEPT !.rem = r, !.accrued = @ + y, !.lastTs = now]
    <2>1. CASE NothingDue(a)
        <3>1. Accrue(a) = [a EXCEPT !.lastTs = now]
            BY <2>1 DEF Accrue, Record
        <3>2. y = 0 /\ r = a.rem
            BY <2>1 DEF PendingYield
        <3>3. a.accrued + 0 = a.accrued /\ a.lastTs \in Nat
            BY DEF Record
        <3> HIDE DEF y, r
        <3>4. [a EXCEPT !.rem = r, !.accrued = @ + y, !.lastTs = now]
                  = [a EXCEPT !.lastTs = now]
            BY <3>2, <3>3 DEF Record
        <3> QED
            BY <3>1, <3>4
    <2>2. CASE ~NothingDue(a)
        BY <2>2 DEF Accrue, PendingYield
    <2> QED
        BY <2>1, <2>2
<1> HIDE DEF y, r
<1>3. Accrue(a) = [principal |-> a.principal, accrued |-> a.accrued + y, rem |-> r,
                   shares |-> a.shares, lastTs |-> now, paused |-> a.paused]
    BY <1>2 DEF Record
<1>4. /\ a.principal \in Nat /\ a.accrued \in Nat /\ a.shares \in Nat
      /\ a.paused \in BOOLEAN
    BY DEF Record
<1>5. Accrue(a) \in Record
    BY <1>1, <1>3, <1>4 DEF Record
<1>6. TotalAccounted(Accrue(a)) = TotalAccounted(a) + y
    BY <1>1, <1>3, <1>4 DEF TotalAccounted
<1> QED
    BY <1>3, <1>5, <1>6 DEF y, r

LEMMA AccrueBacked ==
    ASSUME NEW a, Backed(a), now \in Nat, a.lastTs <= now
    PROVE  Backed(Accrue(a))
<1>1. /\ a \in Record /\ a.principal \in Nat /\ a.accrued \in Nat /\ a.shares \in Nat
      /\ PendingYield(a) \in Nat
      /\ Accrue(a) \in Record /\ Accrue(a).shares = a.shares
      /\ TotalAccounted(Accrue(a)) = TotalAccounted(a) + PendingYield(a)
    BY AccrueExact, PendingNat DEF Backed, Record
<1>2. TotalAccounted(a) = 0 => PendingYield(a) = 0
    BY <1>1 DEF PendingYield, NothingDue, TotalAccounted
<1>3. TotalAccounted(a) \in Nat
    BY <1>1 DEF TotalAccounted
<1> QED
    BY <1>1, <1>2, <1>3 DEF Backed

\* Accruing keeps the record sound if the yield fits; afterwards nothing is due.
LEMMA AccrueSound ==
    ASSUME NEW a, Sound(a), now \in Nat, a.lastTs <= now, AccrualFits(a)
    PROVE  /\ Sound(Accrue(a))
           /\ PendingYield(a) \in Nat
           /\ TotalAccounted(Accrue(a)) = TotalAccounted(a) + PendingYield(a)
           /\ Accrue(a).principal = a.principal
           /\ Accrue(a).shares = a.shares
           /\ Accrue(a).lastTs = now
           /\ Accrue(a).paused = a.paused
<1> DEFINE b == Accrue(a)
<1>1. a \in Accounting /\ Backed(a) /\ a \in Record /\ MaxI \in Nat
    BY SoundIsBacked, MaxIAssumption DEF Sound, Backed
<1>2. /\ PendingYield(a) \in Nat /\ b \in Record /\ Backed(b)
      /\ TotalAccounted(b) = TotalAccounted(a) + PendingYield(a)
      /\ b.principal = a.principal /\ b.accrued = a.accrued + PendingYield(a)
      /\ b.shares = a.shares /\ b.lastTs = now /\ b.paused = a.paused
      /\ NothingDue(a) => b.rem = a.rem
    BY <1>1, AccrueExact, AccrueBacked, PendingNat
<1>3. a.accrued + PendingYield(a) \in 0 .. MaxI
    <2>1. CASE NothingDue(a)
        BY <1>1, <2>1 DEF PendingYield, Accounting
    <2>2. CASE ~NothingDue(a)
        BY <1>1, <1>2, <2>2 DEF AccrualFits, Fits, Record
    <2> QED
        BY <2>1, <2>2
<1> HIDE DEF b
<1>4. b \in Accounting
    BY <1>1, <1>2, <1>3 DEF Accounting, Record
<1>5. b.principal = 0 => b.rem = 0
    BY <1>2 DEF NothingDue, Sound
<1> QED
    BY <1>2, <1>4, <1>5 DEF b, Sound, Backed

-----------------------------------------------------------------------------
(***************************************************************************)
(* Deposits and payouts                                                    *)
(***************************************************************************)

\* A deposit mints at no less than the current price and keeps the record sound.
LEMMA DepositSound ==
    ASSUME NEW a, Sound(a), NEW assets \in 1 .. MaxI,
           SharesFor(a, assets) > 0,
           Fits(a.principal + assets), Fits(a.shares + SharesFor(a, assets))
    PROVE  LET s == SharesFor(a, assets)
               b == [a EXCEPT !.principal = @ + assets, !.shares = @ + s]
           IN  /\ s \in 1 .. assets
               /\ s * TotalAccounted(a) <= assets * a.shares
               /\ a.shares = 0 => s = assets
               /\ Sound(b)
               /\ TotalAccounted(b) = TotalAccounted(a) + assets
               /\ b.shares = a.shares + s
<1> DEFINE s == SharesFor(a, assets)
           T == TotalAccounted(a)
           b == [a EXCEPT !.principal = @ + assets, !.shares = @ + s]
<1>1. /\ a \in Accounting /\ a.principal \in Nat /\ a.accrued \in Nat
      /\ a.shares \in Nat /\ T \in Nat /\ T >= a.shares
      /\ assets \in Nat \ {0}
    BY MaxIAssumption DEF Sound, Accounting, TotalAccounted
<1>2. s \in Nat /\ s * T <= assets * a.shares /\ (a.shares = 0 => s = assets)
    <2>1. CASE a.shares = 0
        <3>1. s = assets /\ T = 0
            BY <2>1 DEF SharesFor, Sound
        <3> QED
            BY <1>1, <2>1, <3>1
    <2>2. CASE a.shares # 0
        <3>1. s = MulDivFloor(assets, a.shares, T)
            BY <2>2 DEF SharesFor
        <3>2. T \in Nat \ {0}
            BY <1>1, <2>2
        <3> QED
            BY <1>1, <2>2, <3>1, <3>2, FloorCeil
    <2> QED
        BY <2>1, <2>2
<1>3. s <= assets
    <2>1. CASE a.shares = 0
        BY <1>1, <1>2, <2>1
    <2>2. CASE a.shares # 0
        <3>1. assets * a.shares <= assets * T
            BY <1>1
        <3>2. s * T <= assets * T
            BY <1>1, <1>2, <3>1, MulNat
        <3>3. T \in Nat \ {0}
            BY <1>1, <2>2
        <3> HIDE DEF s, T
        <3> QED
            BY <1>1, <1>2, <3>2, <3>3, MulCancel
    <2> QED
        BY <2>1, <2>2
<1>4. s \in 1 .. assets
    BY <1>1, <1>2, <1>3
<1>5. /\ b.principal = a.principal + assets /\ b.accrued = a.accrued
      /\ b.rem = a.rem /\ b.shares = a.shares + s
    BY <1>1 DEF Accounting
<1>6. b \in Accounting
    <2>1. a.principal + assets \in 0 .. MaxI /\ a.shares + s \in 0 .. MaxI
        BY <1>1, <1>4, MaxIAssumption DEF Fits
    <2> HIDE DEF s
    <2> QED
        BY <1>1, <2>1 DEF Accounting
<1>7. TotalAccounted(b) = T + assets
    BY <1>1, <1>5 DEF TotalAccounted
<1> HIDE DEF s, T, b
<1>8. Sound(b)
    BY <1>1, <1>4, <1>5, <1>6, <1>7 DEF Sound
<1> QED
    BY <1>2, <1>4, <1>5, <1>7, <1>8 DEF s, T, b

\* The payout is split into parts neither of which exceeds what there is ...
LEMMA PayoutWithin ==
    ASSUME NEW a, Backed(a), NEW assets \in 1 .. TotalAccounted(a)
    PROVE  /\ Payout(a, assets).principal \in 0 .. a.principal
           /\ Payout(a, assets).accrued \in 0 .. a.accrued
           /\ Payout(a, assets).principal + Payout(a, assets).accrued = assets
<1> DEFINE T == TotalAccounted(a)
           out == Payout(a, assets)
<1>1. /\ a.principal \in Nat /\ a.accrued \in Nat /\ T \in Nat \ {0}
      /\ T = a.principal + a.accrued /\ assets \in Nat \ {0} /\ assets <= T
    BY DEF Backed, Record, TotalAccounted
<1>2. CASE assets = T
    BY <1>1, <1>2 DEF Payout
<1>3. CASE assets # T
    <2> DEFINE y == MulDivFloor(assets, a.accrued, T)
    <2>1. /\ y \in Nat /\ y * T <= assets * a.accrued
          /\ assets * a.accrued < y * T + T
        <3>1. a.accrued \in Nat /\ assets \in Nat /\ T \in Nat \ {0}
            BY <1>1
        <3> HIDE DEF T
        <3> QED
            BY <3>1, FloorCeil
    <2>2. out.principal = assets - y /\ out.accrued = y
        BY <1>3 DEF Payout
    <2> HIDE DEF y
    <2>3. y <= a.accrued
        <3>1. assets * a.accrued <= T * a.accrued
            BY <1>1, MulMono
        <3>2. y * T <= a.accrued * T
            BY <1>1, <2>1, <3>1
        <3> QED
            BY <1>1, <2>1, <3>2, MulCancel
    <2>4. y <= assets
        <3>1. assets * a.accrued <= assets * T
            BY <1>1
        <3>2. y * T <= assets * T
            BY <1>1, <2>1, <3>1
        <3> QED
            BY <1>1, <2>1, <3>2, MulCancel
    <2>5. assets - y <= a.principal
        <3> SUFFICES ASSUME a.principal + 1 <= assets - y PROVE FALSE
            BY <1>1, <2>1
        <3>1. (a.principal + 1) * T <= (assets - y) * T
            BY <1>1, <2>1, MulMono
        <3>2. (a.principal + 1) * T = a.principal * T + T
            BY <1>1
        <3>3. (assets - y) * T = assets * T - y * T
            BY <1>1, <2>1
        <3>4. assets * T = assets * a.principal + assets * a.accrued
            BY <1>1
        <3>5. assets * a.principal <= T * a.principal
            BY <1>1, MulMono
        <3>6. /\ y * T \in Int /\ assets * T \in Int /\ assets * a.principal \in Int
              /\ assets * a.accrued \in Int /\ a.principal * T \in Int
              /\ T * a.principal = a.principal * T
            BY <1>1, <2>1
        <3> QED
            BY <1>1, <2>1, <3>1, <3>2, <3>3, <3>4, <3>5, <3>6
    <2> QED
        BY <1>1, <2>1, <2>2, <2>3, <2>4, <2>5
<1> QED
    BY <1>2, <1>3

\* ... and the carried fraction shrinks with the principal.
LEMMA RemShrinks ==
    ASSUME NEW a \in Record, NEW left \in 0 .. a.principal
    PROVE  /\ ScaledRem(a, left) \in 0 .. a.rem
           /\ left = 0 => ScaledRem(a, left) = 0
<1>1. a.principal \in Nat /\ a.rem \in Nat
    BY RateAssumption DEF Record
<1>2. CASE left = 0 \/ a.principal = 0
    BY <1>1, <1>2 DEF ScaledRem
<1>3. CASE left # 0 /\ a.principal # 0
    <2> DEFINE r == MulDivFloor(a.rem, left, a.principal)
    <2>1. left \in 1 .. a.principal /\ left \in Nat /\ a.rem \in Nat
          /\ a.principal \in Nat \ {0}
        BY <1>1, <1>3
    <2>2. ScaledRem(a, left) = r
        BY <1>3 DEF ScaledRem
    <2>3. r \in Nat /\ r * a.principal <= a.rem * left
        BY <2>1, FloorCeil
    <2>4. a.rem * left <= a.rem * a.principal
        BY <2>1
    <2> HIDE DEF r
    <2>5. r * a.principal <= a.rem * a.principal
        BY <2>1, <2>3, <2>4
    <2>6. r <= a.rem
        BY <2>1, <2>3, <2>5, MulCancel
    <2> QED
        BY <1>1, <1>3, <2>2, <2>3, <2>6
<1> QED
    BY <1>2, <1>3

\* What settle_redemption leaves of a record.
LEMMA SettleExact ==
    ASSUME NEW a, Backed(a), NEW assets \in 1 .. TotalAccounted(a),
           NEW shares \in 1 .. a.shares
    PROVE  LET b == Settle(a, assets, shares)
           IN  /\ b \in Record
               /\ b.principal \in 0 .. a.principal /\ b.accrued \in 0 .. a.accrued
               /\ b.rem \in 0 .. a.rem /\ (b.principal = 0 => b.rem = 0)
               /\ b.shares = a.shares - shares
               /\ b.lastTs = a.lastTs /\ b.paused = a.paused
               /\ TotalAccounted(b) = TotalAccounted(a) - assets
<1> DEFINE o == Payout(a, assets)
           left == a.principal - o.principal
           r == ScaledRem(a, left)
           b == Settle(a, assets, shares)
<1>1. /\ a \in Record /\ a.principal \in Nat /\ a.accrued \in Nat /\ a.shares \in Nat
      /\ a.rem \in 0 .. YieldDenom - 1 /\ YieldDenom \in Nat /\ assets \in Nat
    BY RateAssumption DEF Backed, Record, TotalAccounted
<1>2. /\ o.principal \in 0 .. a.principal /\ o.accrued \in 0 .. a.accrued
      /\ o.principal + o.accrued = assets
    BY PayoutWithin
<1>3. left \in 0 .. a.principal
    BY <1>1, <1>2
<1>4. r \in 0 .. a.rem /\ (left = 0 => r = 0)
    BY <1>1, <1>3, RemShrinks
<1>5. b = [a EXCEPT !.principal = left, !.accrued = @ - o.accrued, !.rem = r,
                    !.shares = @ - shares]
    BY DEF Settle
<1> HIDE DEF o, left, r, b
<1>6. /\ b.principal = left /\ b.accrued = a.accrued - o.accrued /\ b.rem = r
      /\ b.shares = a.shares - shares /\ b.lastTs = a.lastTs /\ b.paused = a.paused
    BY <1>1, <1>5 DEF Record
<1>7. /\ a.accrued - o.accrued \in 0 .. a.accrued /\ a.shares - shares \in Nat
      /\ left \in Nat /\ r \in 0 .. YieldDenom - 1 /\ a.accrued - o.accrued \in Nat
    BY <1>1, <1>2, <1>3, <1>4
<1>8. b \in Record
    BY <1>1, <1>5, <1>7 DEF Record
<1>9. TotalAccounted(b) = TotalAccounted(a) - assets
    BY <1>1, <1>2, <1>6 DEF TotalAccounted, left
<1> QED
    BY <1>3, <1>4, <1>6, <1>7, <1>8, <1>9 DEF b

\* A payout at no more than the current price keeps the record sound.
LEMMA SettleSound ==
    ASSUME NEW a, Sound(a),
           NEW assets \in 1 .. TotalAccounted(a), NEW shares \in 1 .. a.shares,
           assets * a.shares <= shares * TotalAccounted(a),
           shares = a.shares => assets = TotalAccounted(a)
    PROVE  /\ Sound(Settle(a, assets, shares))
           /\ TotalAccounted(Settle(a, assets, shares)) = TotalAccounted(a) - assets
           /\ Settle(a, assets, shares).shares = a.shares - shares
           /\ Settle(a, assets, shares).lastTs = a.lastTs
           /\ Settle(a, assets, shares).paused = a.paused
<1> DEFINE T == TotalAccounted(a)
           S == a.shares
           b == Settle(a, assets, shares)
<1>1. /\ a \in Accounting /\ a.principal \in 0 .. MaxI /\ a.accrued \in 0 .. MaxI
      /\ MaxI \in Nat /\ S \in 1 .. MaxI /\ T \in Nat \ {0} /\ T >= S
      /\ assets \in Nat \ {0} /\ shares \in Nat \ {0} /\ assets <= T /\ shares <= S
    BY MaxIAssumption DEF Sound, Accounting, TotalAccounted
<1>2. /\ b \in Record
      /\ b.principal \in 0 .. a.principal /\ b.accrued \in 0 .. a.accrued
      /\ b.principal = 0 => b.rem = 0
      /\ b.shares = S - shares /\ b.lastTs = a.lastTs /\ b.paused = a.paused
      /\ TotalAccounted(b) = T - assets
    BY SoundIsBacked, SettleExact
<1> HIDE DEF b
<1>3. b \in Accounting
    <2>1. b.principal \in 0 .. MaxI /\ b.accrued \in 0 .. MaxI /\ b.shares \in 0 .. MaxI
        BY <1>1, <1>2
    <2> QED
        BY <1>2, <2>1 DEF Accounting, Record
\* What stays is worth at least the shares that stay.
<1>4. T - assets >= S - shares
    <2>1. (T - assets) * S = T * S - assets * S
        BY <1>1
    <2>2. (S - shares) * T = S * T - shares * T
        BY <1>1
    <2>3. (S - shares) * S <= (S - shares) * T
        BY <1>1
    <2>4. /\ assets * S \in Int /\ shares * T \in Int /\ T * S \in Int
          /\ S * T = T * S /\ (S - shares) * S \in Int
        BY <1>1
    <2>5. (S - shares) * S <= (T - assets) * S
        BY <2>1, <2>2, <2>3, <2>4
    <2> HIDE DEF T, S
    <2> QED
        BY <1>1, <2>5, MulCancel
<1>5. (S - shares = 0) <=> (T - assets = 0)
    BY <1>1, <1>4
<1>6. Sound(b)
    BY <1>2, <1>3, <1>4, <1>5 DEF Sound
<1> QED
    BY <1>2, <1>6 DEF b

\* What redeem pays meets the conditions of SettleSound.
LEMMA RedeemAmount ==
    ASSUME NEW a, Sound(a), NEW shares \in 1 .. a.shares
    PROVE  /\ AssetsFor(a, shares) \in 1 .. TotalAccounted(a)
           /\ AssetsFor(a, shares) * a.shares <= shares * TotalAccounted(a)
           /\ shares = a.shares => AssetsFor(a, shares) = TotalAccounted(a)
<1> DEFINE T == TotalAccounted(a)
           S == a.shares
           x == AssetsFor(a, shares)
<1>1. /\ S \in Nat \ {0} /\ T \in Nat \ {0} /\ T >= S /\ shares \in Nat \ {0}
    BY MaxIAssumption DEF Sound, Accounting, TotalAccounted
<1>2. /\ x \in Nat /\ x * S <= shares * T /\ shares * T < x * S + S
    BY <1>1, FloorCeil DEF AssetsFor
<1> HIDE DEF T, S, x
<1>3. x <= T
    <2>1. shares * T <= S * T
        BY <1>1, MulMono DEF S
    <2>2. x * S <= T * S
        BY <1>1, <1>2, <2>1
    <2> QED
        BY <1>1, <1>2, <2>2, MulCancel
<1>4. x > 0
    <2>1. shares * S <= shares * T
        BY <1>1
    <2>2. 1 * S <= shares * S
        BY <1>1, MulMono
    <2>3. x = 0 => x * S = 0
        BY <1>1
    <2>4. shares * T \in Int /\ shares * S \in Int
        BY <1>1
    <2> QED
        BY <1>1, <1>2, <2>1, <2>2, <2>3, <2>4
<1>5. shares = S => x = T
    <2> SUFFICES ASSUME shares = S, x + 1 <= T PROVE FALSE
        BY <1>1, <1>2, <1>3
    <2>1. (x + 1) * S <= T * S
        BY <1>1, <1>2, MulMono
    <2>2. (x + 1) * S = x * S + S /\ T * S = S * T /\ x * S \in Int /\ S * T \in Int
        BY <1>1, <1>2
    <2> QED
        BY <1>1, <1>2, <2>1, <2>2
<1> QED
    BY <1>1, <1>2, <1>3, <1>4, <1>5 DEF T, S, x

\* What withdraw burns meets them too, once RoundEmpty is excluded.
LEMMA WithdrawAmount ==
    ASSUME NEW a, Sound(a), a.shares > 0, NEW assets \in 1 .. TotalAccounted(a),
           ~EmptiesByRounding(a, assets, SharesToBurn(a, assets))
    PROVE  /\ SharesToBurn(a, assets) \in 1 .. a.shares
           /\ assets * a.shares <= SharesToBurn(a, assets) * TotalAccounted(a)
           /\ SharesToBurn(a, assets) = a.shares => assets = TotalAccounted(a)
<1> DEFINE T == TotalAccounted(a)
           S == a.shares
           s == SharesToBurn(a, assets)
<1>1. /\ S \in Nat \ {0} /\ T \in Nat \ {0} /\ T >= S /\ assets \in Nat \ {0}
      /\ assets <= T
    BY MaxIAssumption DEF Sound, Accounting, TotalAccounted
<1>2. /\ s \in Nat /\ assets * S <= s * T /\ s * T < assets * S + T
    BY <1>1, FloorCeil DEF SharesToBurn
<1>3. s = S => assets = T
    BY <1>1 DEF EmptiesByRounding
<1> HIDE DEF T, S, s
<1>4. s <= S
    <2> SUFFICES ASSUME S + 1 <= s PROVE FALSE
        BY <1>1, <1>2
    <2>1. (S + 1) * T <= s * T
        BY <1>1, <1>2, MulMono
    <2>2. assets * S <= T * S
        BY <1>1, MulMono
    <2>3. (S + 1) * T = T * S + T /\ s * T \in Int /\ T * S \in Int /\ assets * S \in Int
        BY <1>1, <1>2
    <2> QED
        BY <1>1, <1>2, <2>1, <2>2, <2>3
<1>5. s > 0
    <2>1. 1 * S <= assets * S
        BY <1>1, MulMono
    <2>2. s = 0 => s * T = 0
        BY <1>1
    <2>3. assets * S \in Int
        BY <1>1
    <2> QED
        BY <1>1, <1>2, <2>1, <2>2, <2>3
<1> QED
    BY <1>1, <1>2, <1>3, <1>4, <1>5 DEF T, S, s

-----------------------------------------------------------------------------
(***************************************************************************)
(* The sum of the balances                                                 *)
(***************************************************************************)

LEMMA UnitsFinite ==
    ASSUME NEW f
    PROVE  IsFiniteSet(ShareUnits(f))
<1>1. IsFiniteSet(1 .. MaxI)
    BY MaxIAssumption, FS_Interval
<1>2. IsFiniteSet(Users \X (1 .. MaxI))
    BY <1>1, UsersAssumption, FS_Product
<1> QED
    BY <1>2, FS_Subset DEF ShareUnits

\* A balance is at most the sum of all balances.
LEMMA BalanceWithinSupply ==
    ASSUME NEW f \in [Users -> 0 .. MaxI], NEW u \in Users
    PROVE  f[u] <= Cardinality(ShareUnits(f))
<1>1. f[u] \in Nat /\ f[u] <= MaxI
    BY MaxIAssumption
<1>2. IsFiniteSet(1 .. f[u]) /\ Cardinality(1 .. f[u]) = f[u]
    BY <1>1, FS_Interval
<1>3. IsFiniteSet({u}) /\ Cardinality({u}) = 1
    BY FS_Singleton
<1>4. Cardinality({u} \X (1 .. f[u])) = f[u]
    <2>1. Cardinality({u} \X (1 .. f[u]))
              = Cardinality({u}) * Cardinality(1 .. f[u])
        BY <1>2, <1>3, FS_Product
    <2> QED
        BY <1>1, <1>2, <1>3, <2>1
<1>5. {u} \X (1 .. f[u]) \subseteq ShareUnits(f)
    BY <1>1, MaxIAssumption DEF ShareUnits
<1>6. IsFiniteSet(ShareUnits(f))
    BY UnitsFinite
<1> HIDE DEF ShareUnits
<1>7. Cardinality({u} \X (1 .. f[u])) <= Cardinality(ShareUnits(f))
    BY <1>5, <1>6, FS_Subset
<1> QED
    BY <1>4, <1>7

\* Raising one balance by k raises the sum by k.
LEMMA UnitsAdded ==
    ASSUME NEW f \in [Users -> 0 .. MaxI], NEW u \in Users, NEW k \in Nat,
           f[u] + k <= MaxI
    PROVE  Cardinality(ShareUnits([f EXCEPT ![u] = @ + k]))
               = Cardinality(ShareUnits(f)) + k
<1> DEFINE g == [f EXCEPT ![u] = @ + k]
           new == {u} \X (f[u] + 1 .. f[u] + k)
<1>1. f[u] \in Nat /\ MaxI \in Nat /\ f[u] + 1 \in Int /\ f[u] + k \in Int
    BY MaxIAssumption
<1>2. IsFiniteSet(f[u] + 1 .. f[u] + k) /\ Cardinality(f[u] + 1 .. f[u] + k) = k
    <2>1. /\ IsFiniteSet(f[u] + 1 .. f[u] + k)
          /\ Cardinality(f[u] + 1 .. f[u] + k)
                 = IF f[u] + 1 > f[u] + k THEN 0 ELSE (f[u] + k) - (f[u] + 1) + 1
        BY <1>1, FS_Interval
    <2> QED
        BY <1>1, <2>1
<1>3. IsFiniteSet({u}) /\ Cardinality({u}) = 1
    BY FS_Singleton
<1>4. IsFiniteSet(new) /\ Cardinality(new) = k
    BY <1>2, <1>3, FS_Product
<1>5. ShareUnits(g) = ShareUnits(f) \cup new
    <2>1. ASSUME NEW x \in Users, NEW i \in 1 .. MaxI
          PROVE  i <= g[x] <=> i <= f[x] \/ (x = u /\ i \in f[u] + 1 .. f[u] + k)
        BY <1>1
    <2>2. \A unit \in Users \X (1 .. MaxI) :
              unit \in ShareUnits(g) <=> unit \in ShareUnits(f) \/ unit \in new
        BY <2>1 DEF ShareUnits
    <2>3. new \subseteq Users \X (1 .. MaxI)
        BY <1>1
    <2>4. /\ ShareUnits(g) \subseteq Users \X (1 .. MaxI)
          /\ ShareUnits(f) \subseteq Users \X (1 .. MaxI)
        BY DEF ShareUnits
    <2> HIDE DEF g, new
    <2> QED
        BY <2>2, <2>3, <2>4
<1>6. ShareUnits(f) \cap new = {}
    BY <1>1 DEF ShareUnits
<1>7. IsFiniteSet(ShareUnits(f)) /\ Cardinality(ShareUnits(f)) \in Nat
    BY UnitsFinite, FS_CardinalityType
<1> HIDE DEF g, new
<1>8. Cardinality(ShareUnits(f) \cup new)
          = Cardinality(ShareUnits(f)) + Cardinality(new)
                - Cardinality(ShareUnits(f) \cap new)
    BY <1>4, <1>7, FS_Union
<1>9. Cardinality(ShareUnits(f) \cap new) = 0
    BY <1>6, FS_EmptySet
<1>10. Cardinality(ShareUnits(g)) = Cardinality(ShareUnits(f)) + k
    BY <1>4, <1>5, <1>7, <1>8, <1>9
<1> QED
    BY <1>10 DEF g

\* Lowering one balance by k lowers the sum by k.
LEMMA UnitsRemoved ==
    ASSUME NEW f \in [Users -> 0 .. MaxI], NEW u \in Users, NEW k \in 0 .. f[u]
    PROVE  Cardinality(ShareUnits([f EXCEPT ![u] = @ - k]))
               = Cardinality(ShareUnits(f)) - k
<1> DEFINE g == [f EXCEPT ![u] = @ - k]
<1>1. f[u] \in 0 .. MaxI /\ MaxI \in Nat /\ k \in Nat /\ f[u] - k \in 0 .. MaxI
    BY MaxIAssumption
<1>2. g \in [Users -> 0 .. MaxI] /\ g[u] = f[u] - k
    BY <1>1
<1> DEFINE h == [g EXCEPT ![u] = @ + k]
<1>3. f = h
    <2>1. h \in [Users -> Int] /\ h[u] = f[u]
        BY <1>1, <1>2
    <2>2. \A x \in Users : h[x] = f[x]
        BY <1>1, <2>1
    <2> HIDE DEF g, h
    <2> QED
        BY <2>1, <2>2
<1>4. Cardinality(ShareUnits(f)) = Cardinality(ShareUnits(g)) + k
    <2> HIDE DEF g
    <2>1. g \in [Users -> 0 .. MaxI] /\ k \in Nat /\ g[u] + k <= MaxI
        BY <1>1, <1>2
    <2>2. Cardinality(ShareUnits(h)) = Cardinality(ShareUnits(g)) + k
        BY <2>1, UnitsAdded
    <2> QED
        BY <1>3, <2>2
<1> HIDE DEF g
<1>5. Cardinality(ShareUnits(g)) \in Nat
    BY UnitsFinite, FS_CardinalityType
<1> QED
    BY <1>1, <1>4, <1>5 DEF g

-----------------------------------------------------------------------------
(***************************************************************************)
(* The inductive invariant                                                 *)
(***************************************************************************)
IInv ==
    /\ TypeOK
    /\ Sound(acct)
    /\ SharesConserved
    /\ ~Initialized => acct.shares = 0

\* The vault before and after initialize has nothing.
LEMMA EmptySound ==
    ASSUME NEW t \in Nat
    PROVE  LET a == [principal |-> 0, accrued |-> 0, rem |-> 0, shares |-> 0,
                     lastTs |-> t, paused |-> FALSE]
           IN  Sound(a) /\ TotalAccounted(a) = 0
BY MaxIAssumption, RateAssumption DEF Sound, Accounting, TotalAccounted

LEMMA EventsTyped ==
    ASSUME IInv, NEW u \in Users, NEW assets \in Nat, NEW shares \in Nat
    PROVE  /\ YieldEvents(acct) \in Seq(Events)
           /\ YieldEvents(acct) \o DepositEvents(u, assets, shares) \in Seq(Events)
           /\ YieldEvents(acct) \o WithdrawEvents(u, assets, shares) \in Seq(Events)
<1>1. PendingYield(acct) \in Nat
    BY PendingNat, SoundIsBacked DEF IInv, TypeOK, Backed
<1>2. YieldEvents(acct) \in Seq(Events)
    <2>1. Event("yield", NoUser, PendingYield(acct), 0) \in Events
        BY <1>1 DEF Event, Events, Topics
    <2> QED
        BY <2>1 DEF YieldEvents
<1>3. DepositEvents(u, assets, shares) \in Seq(Events)
    <2>1. Event("deposit", u, assets, shares) \in Events
        BY DEF Event, Events, Topics
    <2>2. Event("share_mint", u, 0, shares) \in Events
        BY DEF Event, Events, Topics
    <2> QED
        BY <2>1, <2>2 DEF DepositEvents
<1>4. WithdrawEvents(u, assets, shares) \in Seq(Events)
    <2>1. Event("withdraw", u, assets, shares) \in Events
        BY DEF Event, Events, Topics
    <2>2. Event("share_burn", u, 0, shares) \in Events
        BY DEF Event, Events, Topics
    <2> QED
        BY <2>1, <2>2 DEF WithdrawEvents
<1> QED
    BY <1>2, <1>3, <1>4, ConcatProperties

LEMMA InitIInv == Init => IInv
<1> SUFFICES ASSUME Init PROVE IInv
    OBVIOUS
<1>1. Sound(acct)
    BY EmptySound DEF Init
<1>2. SharesConserved
    <2>1. ShareUnits(shareOf) = {}
        BY MaxIAssumption DEF Init, ShareUnits
    <2> QED
        BY <2>1, FS_EmptySet DEF Init, SharesConserved
<1>3. TypeOK
    <2>1. acct \in Accounting /\ acct.lastTs = 0 /\ acct.shares = 0
        BY <1>1 DEF Init, Sound
    <2>2. emitted \in Seq(Events)
        BY EmptySeq DEF Init
    <2> QED
        BY <2>1, <2>2, MaxIAssumption, BoundsAssumption DEF Init, TypeOK
<1> QED
    BY <1>1, <1>2, <1>3 DEF IInv, Init

LEMMA InitializeIInv ==
    ASSUME IInv, NEW u \in Users, Initialize(u) PROVE IInv'
<1>1. now \in Nat /\ acct.shares = 0 /\ UNCHANGED <<shareOf, token, now, funded, credited>>
    BY DEF IInv, TypeOK, Initialize
<1>2. Sound(acct') /\ acct'.shares = 0 /\ acct'.lastTs = now
    BY <1>1, EmptySound DEF Initialize
<1>3. emitted' \in Seq(Events)
    <2>1. Event("initialize", u, 0, 0) \in Events
        BY DEF Event, Events, Topics
    <2> QED
        BY <2>1 DEF Initialize
<1>4. TypeOK'
    BY <1>1, <1>2, <1>3 DEF IInv, TypeOK, Initialize, Sound
<1>5. SharesConserved'
    BY <1>1, <1>2 DEF IInv, SharesConserved, ShareUnits
<1> QED
    BY <1>2, <1>4, <1>5 DEF IInv, Sound, TotalAccounted

\* Facts every call that starts with an accrual relies on.
LEMMA AfterAccrual ==
    ASSUME IInv, CanAccrue
    PROVE  LET a == Accrue(acct)
           IN  /\ Sound(a)
               /\ a.shares = acct.shares
               /\ a.lastTs = now
               /\ TotalAccounted(a) = TotalCurrent
               /\ PendingYield(acct) \in Nat
               /\ Initialized
<1>1. Sound(acct) /\ now \in Nat /\ acct.lastTs <= now /\ AccrualFits(acct)
    BY DEF IInv, TypeOK, CanAccrue
<1> QED
    BY <1>1, AccrueSound DEF TotalCurrent, CanAccrue

LEMMA DepositIInv ==
    ASSUME IInv, NEW u \in Users, NEW assets \in Amounts, Deposit(u, assets)
    PROVE  IInv'
<1> DEFINE a == Accrue(acct)
           s == SharesFor(a, assets)
           b == [a EXCEPT !.principal = @ + assets, !.shares = @ + s]
<1>1. CanAccrue
    BY DEF Deposit
<1>2. /\ Sound(a) /\ a.shares = acct.shares /\ a.lastTs = now
      /\ PendingYield(acct) \in Nat /\ Initialized
    BY <1>1, AfterAccrual
<1>3. /\ assets \in 1 .. MaxI /\ s > 0
      /\ Fits(a.principal + assets) /\ Fits(a.shares + s) /\ Fits(shareOf[u] + s)
      /\ token[u] >= assets
      /\ token' = [token EXCEPT ![u] = @ - assets, ![Vault] = @ + assets]
      /\ acct' = b
      /\ shareOf' = [shareOf EXCEPT ![u] = @ + s]
      /\ emitted' = YieldEvents(acct) \o DepositEvents(u, assets, s)
      /\ credited' = credited + PendingYield(acct)
      /\ UNCHANGED <<admin, now, funded>>
    BY MaxIAssumption DEF Deposit, Amounts
<1>4. s \in 1 .. assets /\ Sound(b) /\ b.shares = a.shares + s
    BY <1>2, <1>3, DepositSound
<1>5. b.lastTs = now
    BY <1>2 DEF Sound, Accounting
<1> HIDE DEF a, s, b
<1>6. shareOf' \in [Users -> 0 .. MaxI]
    BY <1>3, <1>4, MaxIAssumption DEF IInv, TypeOK, Fits
<1>7. token' \in [Users \cup {Vault} -> Nat]
    BY <1>3, UsersAssumption DEF IInv, TypeOK
<1>8. emitted' \in Seq(Events)
    BY <1>3, <1>4, EventsTyped
<1>9. TypeOK'
    <2>1. acct' \in Accounting /\ acct'.lastTs = now
        BY <1>3, <1>4, <1>5 DEF Sound
    <2>2. now' = now /\ now \in Nat /\ admin' \in Users \cup {NoUser} /\ funded' \in Nat
        BY <1>3 DEF IInv, TypeOK
    <2>3. credited' \in Nat
        BY <1>2, <1>3 DEF IInv, TypeOK
    <2> QED
        BY <1>6, <1>7, <1>8, <2>1, <2>2, <2>3 DEF TypeOK
<1>10. SharesConserved'
    <2>1. shareOf \in [Users -> 0 .. MaxI] /\ s \in Nat /\ shareOf[u] + s <= MaxI
        BY <1>3, <1>4 DEF IInv, TypeOK, Fits
    <2>2. Cardinality(ShareUnits([shareOf EXCEPT ![u] = @ + s]))
              = Cardinality(ShareUnits(shareOf)) + s
        BY <2>1, UnitsAdded
    <2> QED
        BY <1>2, <1>3, <1>4, <2>2 DEF IInv, SharesConserved
<1> QED
    BY <1>2, <1>3, <1>4, <1>9, <1>10 DEF IInv, Initialized

\* settle_redemption preserves the invariant for every payout at no more than the
\* current price.
LEMMA PayOutIInv ==
    ASSUME IInv, CanAccrue, NEW u \in Users,
           NEW assets \in 1 .. TotalAccounted(Accrue(acct)),
           NEW shares \in 1 .. Accrue(acct).shares,
           assets * Accrue(acct).shares <= shares * TotalAccounted(Accrue(acct)),
           shares = Accrue(acct).shares => assets = TotalAccounted(Accrue(acct)),
           shares <= shareOf[u], token[Vault] >= assets,
           PayOut(u, Accrue(acct), assets, shares)
    PROVE  IInv'
<1> DEFINE a == Accrue(acct)
           b == Settle(a, assets, shares)
<1>1. /\ Sound(a) /\ a.shares = acct.shares /\ a.lastTs = now
      /\ PendingYield(acct) \in Nat /\ Initialized
    BY AfterAccrual
<1>2. /\ Sound(b) /\ b.shares = a.shares - shares /\ b.lastTs = a.lastTs
    BY <1>1, SettleSound
<1>3. /\ acct' = b
      /\ token' = [token EXCEPT ![Vault] = @ - assets, ![u] = @ + assets]
      /\ shareOf' = [shareOf EXCEPT ![u] = @ - shares]
      /\ emitted' = YieldEvents(acct) \o WithdrawEvents(u, assets, shares)
      /\ credited' = credited + PendingYield(acct)
      /\ UNCHANGED <<admin, now, funded>>
    BY DEF PayOut
<1>4. assets \in Nat /\ shares \in Nat /\ shares <= acct.shares
    BY <1>1, MaxIAssumption DEF Sound, Accounting, TotalAccounted
<1> HIDE DEF a, b
<1>5. shareOf' \in [Users -> 0 .. MaxI]
    BY <1>3, <1>4, MaxIAssumption DEF IInv, TypeOK
<1>6. token' \in [Users \cup {Vault} -> Nat]
    BY <1>3, <1>4, UsersAssumption DEF IInv, TypeOK
<1>7. emitted' \in Seq(Events)
    BY <1>3, <1>4, EventsTyped
<1>8. TypeOK'
    <2>1. acct' \in Accounting /\ acct'.lastTs = now
        BY <1>1, <1>2, <1>3 DEF Sound
    <2>2. now' = now /\ now \in Nat /\ admin' \in Users \cup {NoUser} /\ funded' \in Nat
        BY <1>3 DEF IInv, TypeOK
    <2>3. credited' \in Nat
        BY <1>1, <1>3 DEF IInv, TypeOK
    <2> QED
        BY <1>5, <1>6, <1>7, <2>1, <2>2, <2>3 DEF TypeOK
<1>9. SharesConserved'
    <2>1. shareOf \in [Users -> 0 .. MaxI] /\ shares \in 0 .. shareOf[u]
        BY <1>4 DEF IInv, TypeOK
    <2>2. Cardinality(ShareUnits([shareOf EXCEPT ![u] = @ - shares]))
              = Cardinality(ShareUnits(shareOf)) - shares
        BY <2>1, UnitsRemoved
    <2> QED
        BY <1>1, <1>2, <1>3, <2>2 DEF IInv, SharesConserved
<1> QED
    BY <1>1, <1>2, <1>3, <1>8, <1>9 DEF IInv, Initialized

\* Redeem and withdraw are payouts that meet the conditions of PayOutIInv.
LEMMA RedemptionIsPayOut ==
    ASSUME IInv, NEW u \in Users, NEW amount \in Amounts,
           Redeem(u, amount) \/ Withdraw(u, amount)
    PROVE  /\ CanAccrue
           /\ \E assets \in 1 .. TotalAccounted(Accrue(acct)),
                 shares \in 1 .. Accrue(acct).shares :
                 /\ assets * Accrue(acct).shares <= shares * TotalAccounted(Accrue(acct))
                 /\ shares = Accrue(acct).shares => assets = TotalAccounted(Accrue(acct))
                 /\ shares <= shareOf[u] /\ token[Vault] >= assets
                 /\ PayOut(u, Accrue(acct), assets, shares)
<1> DEFINE a == Accrue(acct)
<1>1. CASE Redeem(u, amount)
    <2> DEFINE x == AssetsFor(a, amount)
    <2>1. CanAccrue /\ amount > 0 /\ amount <= shareOf[u] /\ token[Vault] >= x
          /\ PayOut(u, a, x, amount)
        BY <1>1 DEF Redeem, CanRedeem, Settlable
    <2>2. Sound(a) /\ a.shares = acct.shares
        BY <2>1, AfterAccrual
    <2>3. amount \in 1 .. a.shares
        <3>1. shareOf[u] <= acct.shares
            BY BalanceWithinSupply DEF IInv, TypeOK, SharesConserved
        <3>2. shareOf[u] \in Nat /\ acct.shares \in Nat
            BY MaxIAssumption DEF IInv, TypeOK, Accounting
        <3> QED
            BY <2>1, <2>2, <3>1, <3>2 DEF Amounts
    <2>4. /\ x \in 1 .. TotalAccounted(a)
          /\ x * a.shares <= amount * TotalAccounted(a)
          /\ amount = a.shares => x = TotalAccounted(a)
        BY <2>2, <2>3, RedeemAmount
    <2> HIDE DEF x, a
    <2> QED
        BY <2>1, <2>3, <2>4 DEF a
<1>2. CASE Withdraw(u, amount)
    <2> DEFINE s == SharesToBurn(a, amount)
    <2>1. /\ CanAccrue /\ amount > 0 /\ amount <= TotalAccounted(a) /\ a.shares > 0
          /\ ~EmptiesByRounding(a, amount, s)
          /\ s <= shareOf[u] /\ token[Vault] >= amount
          /\ PayOut(u, a, amount, s)
        BY <1>2 DEF Withdraw, Settlable
    <2>2. Sound(a)
        BY <2>1, AfterAccrual
    <2>3. amount \in 1 .. TotalAccounted(a)
        BY <2>1, <2>2, MaxIAssumption DEF Amounts, Sound, Accounting, TotalAccounted
    <2>4. /\ s \in 1 .. a.shares
          /\ amount * a.shares <= s * TotalAccounted(a)
          /\ s = a.shares => amount = TotalAccounted(a)
        BY <2>1, <2>2, <2>3, WithdrawAmount
    <2> HIDE DEF s, a
    <2> QED
        BY <2>1, <2>3, <2>4 DEF a
<1> QED
    BY <1>1, <1>2

LEMMA RedemptionIInv ==
    ASSUME IInv, NEW u \in Users, NEW amount \in Amounts,
           Redeem(u, amount) \/ Withdraw(u, amount)
    PROVE  IInv'
BY RedemptionIsPayOut, PayOutIInv

LEMMA AccrueYieldIInv ==
    ASSUME IInv, AccrueYield PROVE IInv'
<1>1. CanAccrue
    BY DEF AccrueYield
<1>2. /\ Sound(Accrue(acct)) /\ Accrue(acct).shares = acct.shares
      /\ Accrue(acct).lastTs = now /\ PendingYield(acct) \in Nat /\ Initialized
    BY <1>1, AfterAccrual
<1>3. YieldEvents(acct) \in Seq(Events)
    <2>1. Event("yield", NoUser, PendingYield(acct), 0) \in Events
        BY <1>2 DEF Event, Events, Topics
    <2> QED
        BY <2>1 DEF YieldEvents
<1>4. TypeOK'
    BY <1>2, <1>3 DEF IInv, TypeOK, AccrueYield, Sound
<1>5. SharesConserved'
    BY <1>2 DEF IInv, SharesConserved, ShareUnits, AccrueYield
<1> QED
    BY <1>2, <1>4, <1>5 DEF IInv, AccrueYield, Initialized

\* pause and unpause touch nothing but the flag.
LEMMA PauseIInv ==
    ASSUME IInv, Pause \/ Unpause PROVE IInv'
<1> PICK p \in BOOLEAN : acct' = [acct EXCEPT !.paused = p]
    BY DEF Pause, Unpause
<1>1. UNCHANGED <<admin, shareOf, token, now, funded, credited>> /\ Initialized
    BY DEF Pause, Unpause
<1>2. /\ acct' \in Accounting /\ acct'.shares = acct.shares /\ acct'.lastTs = acct.lastTs
      /\ acct'.principal = acct.principal /\ acct'.accrued = acct.accrued
      /\ acct'.rem = acct.rem
    BY DEF IInv, TypeOK, Accounting
<1>3. Sound(acct')
    BY <1>2 DEF IInv, Sound, TotalAccounted
<1>4. emitted' \in Seq(Events)
    <2>1. /\ Event("pause", admin, 0, 0) \in Events
          /\ Event("unpause", admin, 0, 0) \in Events
        BY DEF IInv, TypeOK, Event, Events, Topics
    <2>2. CASE Pause
        BY <2>1, <2>2 DEF Pause
    <2>3. CASE Unpause
        BY <2>1, <2>3 DEF Unpause
    <2> QED
        BY <2>2, <2>3
<1>5. TypeOK'
    BY <1>1, <1>2, <1>4 DEF IInv, TypeOK
<1>6. SharesConserved'
    BY <1>1, <1>2 DEF IInv, SharesConserved, ShareUnits
<1> QED
    BY <1>1, <1>3, <1>5, <1>6 DEF IInv, Initialized, Sound, TotalAccounted

LEMMA EnvironmentIInv ==
    ASSUME IInv, LedgerTick \/ \E amount \in 1 .. MaxFunding : FundVault(amount)
    PROVE  IInv'
<1>1. UNCHANGED <<admin, acct, shareOf, credited>> /\ emitted' = <<>>
    BY DEF LedgerTick, FundVault
<1>2. now' \in Nat /\ now' >= now
    BY DEF IInv, TypeOK, LedgerTick, FundVault
<1>3. token' \in [Users \cup {Vault} -> Nat] /\ funded' \in Nat
    BY BoundsAssumption DEF IInv, TypeOK, LedgerTick, FundVault
<1>4. emitted' \in Seq(Events)
    BY <1>1, EmptySeq
<1>5. acct.lastTs <= now'
    BY <1>2 DEF IInv, TypeOK, Accounting
<1> QED
    BY <1>1, <1>2, <1>3, <1>4, <1>5
    DEF IInv, TypeOK, Sound, SharesConserved, ShareUnits, Initialized, TotalAccounted

LEMMA StepIInv == IInv /\ [Next]_vars => IInv'
<1> SUFFICES ASSUME IInv, [Next]_vars PROVE IInv'
    OBVIOUS
<1>1. CASE UNCHANGED vars
    BY <1>1 DEF vars, IInv, TypeOK, Sound, SharesConserved, ShareUnits,
                Initialized, TotalAccounted
<1>2. CASE \E u \in Users : Initialize(u)
    BY <1>2, InitializeIInv
<1>3. CASE \E u \in Users, assets \in Amounts : Deposit(u, assets)
    BY <1>3, DepositIInv
<1>4. CASE \E u \in Users, shares \in Amounts : Redeem(u, shares)
    BY <1>4, RedemptionIInv
<1>5. CASE \E u \in Users, assets \in Amounts : Withdraw(u, assets)
    BY <1>5, RedemptionIInv
<1>6. CASE AccrueYield
    BY <1>6, AccrueYieldIInv
<1>7. CASE Pause \/ Unpause
    BY <1>7, PauseIInv
<1>8. CASE LedgerTick \/ \E amount \in 1 .. MaxFunding : FundVault(amount)
    BY <1>8, EnvironmentIInv
<1> QED
    BY <1>1, <1>2, <1>3, <1>4, <1>5, <1>6, <1>7, <1>8 DEF Next

\* The vault's accounting is sound and its shares add up in every reachable state.
THEOREM VaultInvariance == Spec => []IInv
BY InitIInv, StepIInv, PTL DEF Spec

\* Every stored amount is a non-negative i128, although the contract's checked
\* subtractions would let a negative one pass.
THEOREM VaultTypeCorrect == Spec => []TypeOK
<1>1. IInv => TypeOK
    BY DEF IInv
<1> QED
    BY <1>1, VaultInvariance, PTL

\* The total of the shares is the sum of the balances.
THEOREM VaultSharesConserved == Spec => []SharesConserved
<1>1. IInv => SharesConserved
    BY DEF IInv
<1> QED
    BY <1>1, VaultInvariance, PTL

\* A share is always worth at least one unit, and claims and shares run out together.
THEOREM VaultSharesBacked == Spec => []EveryShareIsBacked
<1>1. IInv => EveryShareIsBacked
    BY DEF IInv, Sound, EveryShareIsBacked
<1> QED
    BY <1>1, VaultInvariance, PTL

\* The carried fraction is below a unit and never survives its principal.
THEOREM VaultRemainder == Spec => []RemainderBelongsToPrincipal
<1>1. IInv => RemainderBelongsToPrincipal
    BY RateAssumption DEF IInv, Sound, Accounting, RemainderBelongsToPrincipal
<1> QED
    BY <1>1, VaultInvariance, PTL

(***************************************************************************)
(* A vault with shares outstanding keeps earning: its principal never      *)
(* falls below the number of shares, although every partial redemption     *)
(* charges the rounding of its split to the principal.  The reason is that *)
(* the principal paid out is assets * principal / total rounded up, the    *)
(* shares burned are at least assets * shares / total rounded up, and      *)
(* n - ceil(assets * n / total) does not decrease in n.                    *)
(***************************************************************************)

\* The principal part of a payout is less than one unit above its exact share.
LEMMA PrincipalOut ==
    ASSUME NEW a, Sound(a), NEW assets \in 1 .. TotalAccounted(a)
    PROVE  /\ Payout(a, assets).principal \in Int
           /\ Payout(a, assets).principal * TotalAccounted(a)
                  < assets * a.principal + TotalAccounted(a)
<1> DEFINE T == TotalAccounted(a)
           y == MulDivFloor(assets, a.accrued, T)
<1>1. /\ a.principal \in Nat /\ a.accrued \in Nat /\ T \in Nat \ {0}
      /\ T = a.principal + a.accrued /\ assets \in Nat \ {0}
    BY MaxIAssumption DEF Sound, Accounting, TotalAccounted
<1>2. CASE assets = T
    <2>1. Payout(a, assets).principal = a.principal
        BY <1>2 DEF Payout
    <2>2. a.principal * T \in Int /\ a.principal * T = T * a.principal
        BY <1>1
    <2> HIDE DEF T
    <2> QED
        BY <1>1, <1>2, <2>1, <2>2 DEF T
<1>3. CASE assets # T
    <2>1. y \in Nat /\ assets * a.accrued < y * T + T
        <3> HIDE DEF T
        <3> QED
            BY <1>1, FloorCeil
    <2>2. Payout(a, assets).principal = assets - y
        BY <1>3 DEF Payout
    <2> HIDE DEF y
    <2>3. (assets - y) * T = assets * T - y * T
        BY <1>1, <2>1
    <2>4. assets * T = assets * a.principal + assets * a.accrued
        BY <1>1
    <2>5. /\ y * T \in Int /\ assets * T \in Int
          /\ assets * a.principal \in Int /\ assets * a.accrued \in Int
        BY <1>1, <2>1
    <2> QED
        BY <1>1, <2>1, <2>2, <2>3, <2>4, <2>5
<1> QED
    BY <1>2, <1>3

\* Settling a payout at no more than the current price.
LEMMA SettleKeepsPrincipal ==
    ASSUME NEW a, Sound(a), a.principal >= a.shares,
           NEW assets \in 1 .. TotalAccounted(a), NEW shares \in 1 .. a.shares,
           assets * a.shares <= shares * TotalAccounted(a)
    PROVE  Settle(a, assets, shares).principal >= Settle(a, assets, shares).shares
<1> DEFINE T == TotalAccounted(a)
           S == a.shares
           p == a.principal
           o == Payout(a, assets).principal
<1>1. /\ a \in Accounting /\ p \in Nat /\ S \in Nat /\ T \in Nat \ {0} /\ p >= S
      /\ assets \in Nat \ {0} /\ assets <= T /\ shares \in Nat
    BY MaxIAssumption DEF Sound, Accounting, TotalAccounted
<1>2. o \in Int /\ o * T < assets * p + T
    BY PrincipalOut
<1>3. /\ Settle(a, assets, shares).principal = p - o
      /\ Settle(a, assets, shares).shares = S - shares
    BY <1>1 DEF Settle, Accounting
<1>4. assets * S <= shares * T
    OBVIOUS
<1> HIDE DEF T, S, p, o
<1>5. p - o >= S - shares
    <2> SUFFICES ASSUME p - o + 1 <= S - shares PROVE FALSE
        BY <1>1, <1>2
    <2>1. (p - o + 1) * T <= (S - shares) * T
        BY <1>1, <1>2, MulMono
    <2>2. (p - o + 1) * T = p * T - o * T + T
        BY <1>1, <1>2
    <2>3. (S - shares) * T = S * T - shares * T
        BY <1>1
    <2>4. S * (T - assets) <= p * (T - assets)
        BY <1>1, MulMono
    <2>5. S * (T - assets) = S * T - assets * S /\ p * (T - assets) = p * T - assets * p
        BY <1>1
    <2>6. /\ p * T \in Int /\ o * T \in Int /\ S * T \in Int /\ shares * T \in Int
          /\ assets * S \in Int /\ assets * p \in Int
        BY <1>1, <1>2
    <2> QED
        BY <1>1, <1>2, <1>4, <2>1, <2>2, <2>3, <2>4, <2>5, <2>6
<1> QED
    BY <1>3, <1>5

-----------------------------------------------------------------------------
\* Accruing adds to the yield and leaves principal and shares alone.
LEMMA AccrueKeepsPrincipal ==
    ASSUME IInv
    PROVE  Accrue(acct).principal = acct.principal /\ Accrue(acct).shares = acct.shares
BY DEF IInv, TypeOK, Accrue, Accounting

LEMMA DepositKeepsPrincipal ==
    ASSUME IInv, PrincipalOutlastsShares, NEW u \in Users, NEW assets \in Amounts,
           Deposit(u, assets)
    PROVE  PrincipalOutlastsShares'
<1> DEFINE a == Accrue(acct)
           s == SharesFor(a, assets)
           b == [a EXCEPT !.principal = @ + assets, !.shares = @ + s]
<1>1. CanAccrue
    BY DEF Deposit
<1>2. Sound(a) /\ a.principal >= a.shares
    BY <1>1, AfterAccrual, AccrueKeepsPrincipal DEF PrincipalOutlastsShares
<1>3. /\ assets \in 1 .. MaxI /\ s > 0 /\ acct' = b
      /\ Fits(a.principal + assets) /\ Fits(a.shares + s)
    BY MaxIAssumption DEF Deposit, Amounts
<1>4. s \in 1 .. assets
    BY <1>2, <1>3, DepositSound
<1>5. /\ b.principal = a.principal + assets /\ b.shares = a.shares + s
      /\ a.principal \in Nat /\ a.shares \in Nat
    BY <1>2, MaxIAssumption DEF Sound, Accounting
<1> HIDE DEF a, s, b
<1> QED
    BY <1>2, <1>3, <1>4, <1>5 DEF PrincipalOutlastsShares

LEMMA RedemptionKeepsPrincipal ==
    ASSUME IInv, PrincipalOutlastsShares, NEW u \in Users, NEW amount \in Amounts,
           Redeem(u, amount) \/ Withdraw(u, amount)
    PROVE  PrincipalOutlastsShares'
<1> DEFINE a == Accrue(acct)
<1>1. CanAccrue
    BY RedemptionIsPayOut
<1>2. PICK assets \in 1 .. TotalAccounted(a), shares \in 1 .. a.shares :
          /\ assets * a.shares <= shares * TotalAccounted(a)
          /\ PayOut(u, a, assets, shares)
    BY RedemptionIsPayOut
<1>3. Sound(a) /\ a.principal >= a.shares
    BY <1>1, AfterAccrual, AccrueKeepsPrincipal DEF PrincipalOutlastsShares
<1>4. acct' = Settle(a, assets, shares)
    BY <1>2 DEF PayOut
<1> HIDE DEF a
<1> QED
    BY <1>2, <1>3, <1>4, SettleKeepsPrincipal DEF PrincipalOutlastsShares

\* Every other step leaves principal and shares as they were, or empty.
LEMMA OthersKeepPrincipal ==
    ASSUME IInv, PrincipalOutlastsShares,
           \/ \E u \in Users : Initialize(u)
           \/ AccrueYield \/ Pause \/ Unpause \/ LedgerTick
           \/ \E amount \in 1 .. MaxFunding : FundVault(amount)
           \/ UNCHANGED vars
    PROVE  PrincipalOutlastsShares'
<1>1. acct \in Accounting
    BY DEF IInv, TypeOK
<1>2. CASE \E u \in Users : Initialize(u)
    BY <1>2 DEF Initialize, PrincipalOutlastsShares
<1>3. CASE AccrueYield
    BY <1>3, AccrueKeepsPrincipal DEF AccrueYield, PrincipalOutlastsShares
<1>4. CASE Pause \/ Unpause
    BY <1>1, <1>4 DEF Pause, Unpause, Accounting, PrincipalOutlastsShares
<1>5. CASE LedgerTick \/ (\E amount \in 1 .. MaxFunding : FundVault(amount)) \/ UNCHANGED vars
    BY <1>5 DEF LedgerTick, FundVault, vars, PrincipalOutlastsShares
<1> QED
    BY <1>2, <1>3, <1>4, <1>5

\* A vault with shares outstanding never runs out of principal, and so never
\* stops accruing, for every rate, type width and history.
THEOREM VaultPrincipalOutlastsShares == Spec => []PrincipalOutlastsShares
<1>1. Init => PrincipalOutlastsShares
    BY DEF Init, PrincipalOutlastsShares
<1>2. IInv /\ PrincipalOutlastsShares /\ [Next]_vars => PrincipalOutlastsShares'
    BY DepositKeepsPrincipal, RedemptionKeepsPrincipal, OthersKeepPrincipal DEF Next
<1> QED
    BY <1>1, <1>2, VaultInvariance, PTL DEF Spec

-----------------------------------------------------------------------------
(***************************************************************************)
(* What each call does to the claims                                       *)
(***************************************************************************)

\* A record that is up to date after a step has no pending yield then.
LEMMA NothingPendingAfter ==
    ASSUME acct'.lastTs = now', now' \in Nat
    PROVE  PendingYield(acct)' = 0 /\ TotalCurrent' = TotalAccounted(acct') + 0
<1>1. now' <= acct'.lastTs
    OBVIOUS
<1>2. NothingDue(acct)'
    BY <1>1 DEF NothingDue
<1>3. PendingYield(acct)' = 0
    BY <1>2 DEF PendingYield
<1> QED
    BY <1>3 DEF TotalCurrent, TotalAccounted

LEMMA DepositEffect ==
    ASSUME IInv, NEW u \in Users, NEW assets \in Amounts, Deposit(u, assets)
    PROVE  \E s \in 1 .. assets :
               /\ assets \in Nat \ {0}
               /\ s * TotalCurrent <= assets * acct.shares
               /\ acct.shares = 0 => s = assets
               /\ TotalCurrent' = TotalCurrent + assets
               /\ TotalAccounted(acct') = TotalAccounted(acct) + PendingYield(acct) + assets
               /\ acct'.shares = acct.shares + s
               /\ shareOf' = [shareOf EXCEPT ![u] = @ + s]
               /\ token'[Vault] = token[Vault] + assets
               /\ credited' = credited + PendingYield(acct) /\ funded' = funded
               /\ emitted' = YieldEvents(acct) \o DepositEvents(u, assets, s)
<1> DEFINE a == Accrue(acct)
           s == SharesFor(a, assets)
           b == [a EXCEPT !.principal = @ + assets, !.shares = @ + s]
<1>1. CanAccrue
    BY DEF Deposit
<1>2. /\ Sound(a) /\ a.shares = acct.shares /\ a.lastTs = now
      /\ TotalAccounted(a) = TotalCurrent
    BY <1>1, AfterAccrual
<1>3. /\ assets \in 1 .. MaxI /\ s > 0
      /\ Fits(a.principal + assets) /\ Fits(a.shares + s)
      /\ token' = [token EXCEPT ![u] = @ - assets, ![Vault] = @ + assets]
      /\ acct' = b /\ now' = now
      /\ shareOf' = [shareOf EXCEPT ![u] = @ + s]
      /\ credited' = credited + PendingYield(acct) /\ funded' = funded
      /\ emitted' = YieldEvents(acct) \o DepositEvents(u, assets, s)
    BY MaxIAssumption DEF Deposit, Amounts
<1>4. /\ s \in 1 .. assets /\ Sound(b) /\ b.shares = a.shares + s
      /\ s * TotalAccounted(a) <= assets * a.shares
      /\ a.shares = 0 => s = assets
      /\ TotalAccounted(b) = TotalAccounted(a) + assets
    BY <1>2, <1>3, DepositSound
<1>5. b.lastTs = now
    BY <1>2 DEF Sound, Accounting
<1> HIDE DEF a, s, b
<1>6. token'[Vault] = token[Vault] + assets
    BY <1>3, UsersAssumption DEF IInv, TypeOK
<1>7. TotalCurrent' = TotalAccounted(b)
    <2>1. TotalCurrent' = TotalAccounted(acct') + 0
        BY <1>3, <1>5, NothingPendingAfter DEF IInv, TypeOK
    <2>2. TotalAccounted(b) \in Int
        BY <1>4, MaxIAssumption DEF Sound, Accounting, TotalAccounted
    <2> QED
        BY <1>3, <2>1, <2>2
<1>8. assets \in Nat \ {0}
    BY <1>3
<1>9. TotalAccounted(acct') = TotalCurrent + assets
    BY <1>2, <1>3, <1>4
<1>10. TotalCurrent = TotalAccounted(acct) + PendingYield(acct)
    BY DEF TotalCurrent
<1> QED
    BY <1>2, <1>3, <1>4, <1>6, <1>7, <1>8, <1>9, <1>10

LEMMA PayOutEffect ==
    ASSUME IInv, CanAccrue, NEW u \in Users,
           NEW assets \in 1 .. TotalAccounted(Accrue(acct)),
           NEW shares \in 1 .. Accrue(acct).shares,
           assets * Accrue(acct).shares <= shares * TotalAccounted(Accrue(acct)),
           shares = Accrue(acct).shares => assets = TotalAccounted(Accrue(acct)),
           PayOut(u, Accrue(acct), assets, shares)
    PROVE  /\ assets \in Nat \ {0} /\ shares \in Nat \ {0}
           /\ assets * acct.shares <= shares * TotalCurrent
           /\ TotalCurrent' = TotalCurrent - assets
           /\ TotalAccounted(acct') = (TotalAccounted(acct) + PendingYield(acct)) - assets
           /\ acct'.shares = acct.shares - shares
           /\ (acct'.shares = 0) <=> (TotalCurrent' = 0)
           /\ shareOf' = [shareOf EXCEPT ![u] = @ - shares]
           /\ token'[Vault] = token[Vault] - assets
           /\ credited' = credited + PendingYield(acct) /\ funded' = funded
           /\ emitted' = YieldEvents(acct) \o WithdrawEvents(u, assets, shares)
<1> DEFINE a == Accrue(acct)
           b == Settle(a, assets, shares)
<1>1. /\ Sound(a) /\ a.shares = acct.shares /\ a.lastTs = now
      /\ TotalAccounted(a) = TotalCurrent
    BY AfterAccrual
<1>2. /\ Sound(b) /\ b.shares = a.shares - shares /\ b.lastTs = a.lastTs
      /\ TotalAccounted(b) = TotalAccounted(a) - assets
    BY <1>1, SettleSound
<1>3. /\ acct' = b /\ now' = now
      /\ token' = [token EXCEPT ![Vault] = @ - assets, ![u] = @ + assets]
      /\ shareOf' = [shareOf EXCEPT ![u] = @ - shares]
      /\ credited' = credited + PendingYield(acct) /\ funded' = funded
      /\ emitted' = YieldEvents(acct) \o WithdrawEvents(u, assets, shares)
    BY DEF PayOut
<1>4. assets \in Nat \ {0} /\ shares \in Nat \ {0}
    BY <1>1, MaxIAssumption DEF Sound, Accounting, TotalAccounted
<1> HIDE DEF a, b
<1>5. token'[Vault] = token[Vault] - assets
    BY <1>3, UsersAssumption DEF IInv, TypeOK
<1>6. TotalCurrent' = TotalAccounted(b)
    <2>1. TotalCurrent' = TotalAccounted(acct') + 0
        BY <1>1, <1>2, <1>3, NothingPendingAfter DEF IInv, TypeOK
    <2>2. TotalAccounted(b) \in Int
        BY <1>2, MaxIAssumption DEF Sound, Accounting, TotalAccounted
    <2> QED
        BY <1>3, <2>1, <2>2
<1>7. (acct'.shares = 0) <=> (TotalCurrent' = 0)
    BY <1>2, <1>3, <1>6 DEF Sound
<1>8. TotalCurrent = TotalAccounted(acct) + PendingYield(acct)
    BY DEF TotalCurrent
<1>9. assets * acct.shares <= shares * TotalCurrent
    BY <1>1 DEF a
<1>10. TotalAccounted(b) = TotalCurrent - assets
    BY <1>1, <1>2
<1>11. TotalCurrent' = TotalCurrent - assets
    BY <1>6, <1>10
<1>12. TotalAccounted(acct') = (TotalAccounted(acct) + PendingYield(acct)) - assets
    <2>1. TotalAccounted(acct') = TotalAccounted(b)
        BY <1>3
    <2>2. TotalAccounted(b) = (TotalAccounted(acct) + PendingYield(acct)) - assets
        BY <1>8, <1>10
    <2> QED
        BY <2>1, <2>2
<1>13. acct'.shares = acct.shares - shares
    BY <1>1, <1>2, <1>3
<1> QED
    BY <1>3, <1>4, <1>5, <1>7, <1>9, <1>11, <1>12, <1>13

\* The effect of a redemption or a withdrawal, from RedemptionIsPayOut.
LEMMA RedemptionEffect ==
    ASSUME IInv, NEW u \in Users, NEW amount \in Amounts,
           Redeem(u, amount) \/ Withdraw(u, amount)
    PROVE  \E assets \in Nat \ {0}, shares \in Nat \ {0} :
               /\ assets * acct.shares <= shares * TotalCurrent
               /\ TotalCurrent' = TotalCurrent - assets
               /\ TotalAccounted(acct') = (TotalAccounted(acct) + PendingYield(acct)) - assets
               /\ acct'.shares = acct.shares - shares
               /\ (acct'.shares = 0) <=> (TotalCurrent' = 0)
               /\ shares <= shareOf[u] /\ assets <= token[Vault]
               /\ shareOf' = [shareOf EXCEPT ![u] = @ - shares]
               /\ token'[Vault] = token[Vault] - assets
               /\ credited' = credited + PendingYield(acct) /\ funded' = funded
               /\ emitted' = YieldEvents(acct) \o WithdrawEvents(u, assets, shares)
<1>1. CanAccrue
    BY RedemptionIsPayOut
<1>2. PICK assets \in 1 .. TotalAccounted(Accrue(acct)),
           shares \in 1 .. Accrue(acct).shares :
          /\ assets * Accrue(acct).shares <= shares * TotalAccounted(Accrue(acct))
          /\ shares = Accrue(acct).shares => assets = TotalAccounted(Accrue(acct))
          /\ shares <= shareOf[u] /\ token[Vault] >= assets
          /\ PayOut(u, Accrue(acct), assets, shares)
    BY RedemptionIsPayOut
<1>3. /\ assets \in Nat \ {0} /\ shares \in Nat \ {0}
      /\ assets * acct.shares <= shares * TotalCurrent
      /\ TotalCurrent' = TotalCurrent - assets
      /\ TotalAccounted(acct') = (TotalAccounted(acct) + PendingYield(acct)) - assets
      /\ acct'.shares = acct.shares - shares
      /\ (acct'.shares = 0) <=> (TotalCurrent' = 0)
      /\ shareOf' = [shareOf EXCEPT ![u] = @ - shares]
      /\ token'[Vault] = token[Vault] - assets
      /\ credited' = credited + PendingYield(acct) /\ funded' = funded
      /\ emitted' = YieldEvents(acct) \o WithdrawEvents(u, assets, shares)
    BY <1>1, <1>2, PayOutEffect
<1>4. assets <= token[Vault]
    BY <1>2, <1>3 DEF IInv, TypeOK
<1> QED
    BY <1>2, <1>3, <1>4

\* Crystallizing moves pending yield into the accounting and changes no claim.
LEMMA AccrueYieldEffect ==
    ASSUME IInv, AccrueYield
    PROVE  /\ TotalCurrent' = TotalCurrent
           /\ TotalAccounted(acct') = TotalAccounted(acct) + PendingYield(acct)
           /\ acct'.shares = acct.shares
           /\ credited' = credited + PendingYield(acct)
           /\ emitted' = YieldEvents(acct)
           /\ UNCHANGED <<shareOf, token, funded>>
<1>1. /\ CanAccrue /\ acct' = Accrue(acct) /\ now' = now
      /\ credited' = credited + PendingYield(acct) /\ emitted' = YieldEvents(acct)
      /\ UNCHANGED <<shareOf, token, funded>>
    BY DEF AccrueYield
<1>2. /\ Sound(Accrue(acct)) /\ Accrue(acct).shares = acct.shares
      /\ Accrue(acct).lastTs = now
      /\ TotalAccounted(Accrue(acct)) = TotalCurrent
    BY <1>1, AfterAccrual
<1>3. TotalCurrent' = TotalAccounted(acct') + 0
    BY <1>1, <1>2, NothingPendingAfter DEF IInv, TypeOK
<1>4. TotalAccounted(Accrue(acct)) \in Int
    BY <1>2, MaxIAssumption DEF Sound, Accounting, TotalAccounted
<1> QED
    BY <1>1, <1>2, <1>3, <1>4 DEF TotalCurrent

\* When a ledger closes the claims can only grow, and they stay at nothing while
\* there are no shares.
LEMMA LedgerTickEffect ==
    ASSUME IInv, LedgerTick
    PROVE  /\ TotalCurrent' >= TotalCurrent /\ TotalCurrent \in Nat /\ TotalCurrent' \in Nat
           /\ acct.shares = 0 => TotalCurrent' = TotalCurrent
           /\ UNCHANGED <<acct, shareOf, token, credited, funded>>
<1>1. /\ now' = now + 1 /\ UNCHANGED <<acct, shareOf, token, credited, funded>>
      /\ now \in Nat /\ acct.lastTs \in Nat /\ acct.lastTs <= now
      /\ acct.principal \in Nat /\ acct.accrued \in Nat
      /\ acct.rem \in 0 .. YieldDenom - 1
    BY MaxIAssumption DEF LedgerTick, IInv, TypeOK, Accounting
<1>2. CASE acct.principal = 0
    <2>1. PendingYield(acct) = 0 /\ PendingYield(acct)' = 0
        BY <1>1, <1>2 DEF PendingYield, NothingDue
    <2> QED
        BY <1>1, <2>1 DEF TotalCurrent, TotalAccounted
<1>3. CASE acct.principal # 0
    <2> DEFINE z == SimulatedYieldParts(acct.principal, (now + 1) - acct.lastTs, acct.rem).amount
    <2>1. PendingYield(acct)' = z
        BY <1>1, <1>3 DEF PendingYield, NothingDue, Due
    <2>2. z \in Nat
        <3>1. (now + 1) - acct.lastTs \in Nat
            BY <1>1
        <3> QED
            BY <1>1, <3>1, YieldPartsExact
    <2>3. PendingYield(acct) \in Nat /\ PendingYield(acct) <= z
        <3>1. CASE now = acct.lastTs
            BY <1>1, <2>2, <3>1 DEF PendingYield, NothingDue
        <3>2. CASE now # acct.lastTs
            <4>1. PendingYield(acct)
                      = SimulatedYieldParts(acct.principal, now - acct.lastTs, acct.rem).amount
                BY <1>1, <1>3, <3>2 DEF PendingYield, NothingDue, Due
            <4>2. /\ now - acct.lastTs \in Nat /\ (now + 1) - acct.lastTs \in Nat
                  /\ now - acct.lastTs <= (now + 1) - acct.lastTs
                BY <1>1
            <4> HIDE DEF z
            <4> QED
                BY <1>1, <4>1, <4>2, YieldMonotone, YieldPartsExact DEF z
        <3> QED
            BY <3>1, <3>2
    <2> HIDE DEF z
    <2>4. acct.shares # 0
        BY <1>1, <1>3 DEF IInv, Sound, TotalAccounted
    <2> QED
        BY <1>1, <2>1, <2>2, <2>3, <2>4 DEF TotalCurrent, TotalAccounted
<1> QED
    BY <1>2, <1>3

\* pause and unpause leave the claims alone.
LEMMA PauseEffect ==
    ASSUME IInv, Pause \/ Unpause
    PROVE  /\ TotalCurrent' = TotalCurrent
           /\ TotalAccounted(acct') = TotalAccounted(acct)
           /\ acct'.shares = acct.shares
           /\ UNCHANGED <<shareOf, token, credited, funded>>
<1>1. /\ acct'.principal = acct.principal /\ acct'.accrued = acct.accrued
      /\ acct'.rem = acct.rem /\ acct'.lastTs = acct.lastTs
      /\ acct'.shares = acct.shares
      /\ UNCHANGED <<now, shareOf, token, credited, funded>>
    BY DEF Pause, Unpause, IInv, TypeOK, Accounting
<1> QED
    BY <1>1 DEF TotalCurrent, TotalAccounted, PendingYield, NothingDue, Due

\* A plain transfer to the vault leaves the claims alone.
LEMMA FundVaultEffect ==
    ASSUME IInv, NEW amount \in 1 .. MaxFunding, FundVault(amount)
    PROVE  /\ TotalCurrent' = TotalCurrent
           /\ token'[Vault] = token[Vault] + amount
           /\ funded' = funded + amount
           /\ UNCHANGED <<acct, shareOf, credited>>
<1>1. /\ UNCHANGED <<acct, now, shareOf, credited>>
      /\ token' = [token EXCEPT ![Vault] = @ + amount]
      /\ funded' = funded + amount
    BY DEF FundVault
<1>2. token'[Vault] = token[Vault] + amount
    BY <1>1 DEF IInv, TypeOK
<1> QED
    BY <1>1, <1>2 DEF TotalCurrent, TotalAccounted, PendingYield, NothingDue, Due

\* Before initialize there is nothing, and after it as well.
LEMMA InitializeEffect ==
    ASSUME IInv, NEW u \in Users, Initialize(u)
    PROVE  /\ TotalCurrent = 0 /\ TotalCurrent' = 0
           /\ TotalAccounted(acct) = 0 /\ TotalAccounted(acct') = 0
           /\ acct.shares = 0 /\ acct'.shares = 0
           /\ UNCHANGED <<shareOf, token, credited, funded>>
<1>1. /\ acct.shares = 0 /\ acct'.shares = 0 /\ acct'.lastTs = now' /\ now' \in Nat
      /\ UNCHANGED <<shareOf, token, credited, funded>>
    BY DEF IInv, TypeOK, Initialize
<1>2. TotalAccounted(acct') = 0
    BY DEF Initialize, TotalAccounted
<1>3. TotalAccounted(acct) = 0 /\ acct.principal = 0
    BY <1>1, MaxIAssumption DEF IInv, Sound, Accounting, TotalAccounted
<1>4. PendingYield(acct) = 0
    BY <1>3 DEF PendingYield, NothingDue
<1>5. TotalCurrent' = 0
    BY <1>1, <1>2, NothingPendingAfter
<1> QED
    BY <1>1, <1>2, <1>3, <1>4, <1>5 DEF TotalCurrent

-----------------------------------------------------------------------------
(***************************************************************************)
(* Shortfall                                                               *)
(***************************************************************************)

\* The totals are natural numbers, and nothing is claimed where nothing is issued.
Totals ==
    /\ TotalAccounted(acct) \in Nat /\ PendingYield(acct) \in Nat
    /\ TotalCurrent \in Nat /\ acct.shares \in Nat
    /\ token[Vault] \in Nat /\ credited \in Nat /\ funded \in Nat
    /\ shareOf \in [Users -> Nat]
    /\ acct.shares = 0 => TotalCurrent = 0

LEMMA TotalsTyped == IInv => Totals
<1> SUFFICES ASSUME IInv PROVE Totals
    OBVIOUS
<1>1. PendingYield(acct) \in Nat
    BY PendingNat, SoundIsBacked DEF IInv, TypeOK, Backed
<1>2. TotalAccounted(acct) \in Nat /\ acct.shares \in Nat
    BY MaxIAssumption DEF IInv, Sound, Accounting, TotalAccounted
<1>3. acct.shares = 0 => PendingYield(acct) = 0
    <2>1. acct.principal \in Nat /\ acct.accrued \in Nat
        BY MaxIAssumption DEF IInv, Sound, Accounting
    <2> QED
        BY <2>1 DEF IInv, Sound, TotalAccounted, PendingYield, NothingDue
<1>4. acct.shares = 0 <=> TotalAccounted(acct) = 0
    BY DEF IInv, Sound
<1> QED
    BY <1>1, <1>2, <1>3, <1>4, MaxIAssumption DEF Totals, IInv, TypeOK, TotalCurrent

LEMMA TotalsPrimed == IInv' => Totals'
BY TotalsTyped, PTL

LEMMA ShortfallStep ==
    ASSUME IInv, ShortfallIsUnfundedYield, [Next]_vars
    PROVE  ShortfallIsUnfundedYield'
<1> USE DEF ShortfallIsUnfundedYield
<1>1. CASE UNCHANGED vars
    BY <1>1 DEF vars, TotalAccounted
<1>2. CASE \E u \in Users : Initialize(u)
    BY <1>2, InitializeEffect
<1>3. CASE \E u \in Users, assets \in Amounts : Deposit(u, assets)
    <2>1. PICK x \in Nat :
              /\ TotalAccounted(acct') = TotalAccounted(acct) + PendingYield(acct) + x
              /\ token'[Vault] = token[Vault] + x
              /\ credited' = credited + PendingYield(acct) /\ funded' = funded
        BY <1>3, DepositEffect
    <2> QED
        BY <2>1, TotalsTyped DEF Totals
<1>4. CASE \E u \in Users, amount \in Amounts : Redeem(u, amount) \/ Withdraw(u, amount)
    <2>1. PICK x \in Nat :
              /\ TotalAccounted(acct') = (TotalAccounted(acct) + PendingYield(acct)) - x
              /\ token'[Vault] = token[Vault] - x
              /\ credited' = credited + PendingYield(acct) /\ funded' = funded
        BY <1>4, RedemptionEffect
    <2> QED
        BY <2>1, TotalsTyped DEF Totals
<1>5. CASE AccrueYield
    BY <1>5, AccrueYieldEffect, TotalsTyped DEF Totals
<1>6. CASE Pause \/ Unpause
    BY <1>6, PauseEffect
<1>7. CASE LedgerTick
    BY <1>7, LedgerTickEffect
<1>8. CASE \E amount \in 1 .. MaxFunding : FundVault(amount)
    <2>1. PICK x \in 1 .. MaxFunding : FundVault(x)
        BY <1>8
    <2>2. token'[Vault] = token[Vault] + x /\ funded' = funded + x
          /\ UNCHANGED <<acct, credited>>
        BY <2>1, FundVaultEffect
    <2> QED
        BY <2>2, TotalsTyped, BoundsAssumption DEF Totals, TotalAccounted
<1> QED
    BY <1>1, <1>2, <1>3, <1>4, <1>5, <1>6, <1>7, <1>8 DEF Next

\* What the vault owes beyond the tokens it holds is the simulated yield credited
\* less the tokens supplied for it, in every reachable state.
THEOREM VaultShortfall == Spec => []ShortfallIsUnfundedYield
<1>1. Init => ShortfallIsUnfundedYield
    BY DEF Init, ShortfallIsUnfundedYield, TotalAccounted
<1>2. IInv /\ ShortfallIsUnfundedYield /\ [Next]_vars => ShortfallIsUnfundedYield'
    BY ShortfallStep
<1> QED
    BY <1>1, <1>2, VaultInvariance, PTL DEF Spec

-----------------------------------------------------------------------------
(***************************************************************************)
(* The abstract pool                                                       *)
(***************************************************************************)
LEMMA PoolInit == Init => Pool!Init
<1> SUFFICES ASSUME Init PROVE Pool!Init
    OBVIOUS
<1>1. TotalCurrent = 0
    BY DEF Init, TotalCurrent, TotalAccounted, PendingYield, NothingDue
<1> QED
    BY <1>1 DEF Init, Pool!Init

LEMMA DepositEnters ==
    ASSUME IInv, NEW u \in Users, NEW assets \in Amounts, Deposit(u, assets)
    PROVE  Pool!Enter(u)
<1>1. PICK s \in 1 .. assets :
          /\ assets \in Nat \ {0}
          /\ s * TotalCurrent <= assets * acct.shares
          /\ acct.shares = 0 => s = assets
          /\ TotalCurrent' = TotalCurrent + assets
          /\ acct'.shares = acct.shares + s
          /\ shareOf' = [shareOf EXCEPT ![u] = @ + s]
          /\ token'[Vault] = token[Vault] + assets
    BY DepositEffect
<1>2. TotalCurrent' - TotalCurrent = assets /\ acct'.shares - acct.shares = s
    BY <1>1, TotalsTyped DEF Totals
<1>3. TotalCurrent' - TotalCurrent > 0 /\ acct'.shares - acct.shares > 0
    BY <1>1, <1>2
<1>4. IF acct.shares = 0
      THEN acct'.shares - acct.shares = TotalCurrent' - TotalCurrent
      ELSE (acct'.shares - acct.shares) * TotalCurrent
               <= (TotalCurrent' - TotalCurrent) * acct.shares
    BY <1>1, <1>2
<1>5. /\ shareOf' = [shareOf EXCEPT ![u] = @ + (acct'.shares - acct.shares)]
      /\ token'[Vault] = token[Vault] + (TotalCurrent' - TotalCurrent)
    BY <1>1, <1>2
<1> QED
    BY <1>3, <1>4, <1>5, Zenon DEF Pool!Enter

LEMMA RedemptionLeaves ==
    ASSUME IInv, NEW u \in Users, NEW amount \in Amounts,
           Redeem(u, amount) \/ Withdraw(u, amount)
    PROVE  Pool!Leave(u)
<1>1. PICK assets \in Nat \ {0}, shares \in Nat \ {0} :
          /\ assets * acct.shares <= shares * TotalCurrent
          /\ TotalCurrent' = TotalCurrent - assets
          /\ acct'.shares = acct.shares - shares
          /\ (acct'.shares = 0) <=> (TotalCurrent' = 0)
          /\ shares <= shareOf[u] /\ assets <= token[Vault]
          /\ shareOf' = [shareOf EXCEPT ![u] = @ - shares]
          /\ token'[Vault] = token[Vault] - assets
    BY RedemptionEffect
<1>2. TotalCurrent - TotalCurrent' = assets /\ acct.shares - acct'.shares = shares
    BY <1>1, TotalsTyped DEF Totals
<1>3. TotalCurrent - TotalCurrent' > 0 /\ acct.shares - acct'.shares > 0
    BY <1>1, <1>2
<1>4. /\ acct.shares - acct'.shares <= shareOf[u]
      /\ TotalCurrent - TotalCurrent' <= token[Vault]
      /\ (TotalCurrent - TotalCurrent') * acct.shares
             <= (acct.shares - acct'.shares) * TotalCurrent
      /\ (acct'.shares = 0) <=> (TotalCurrent' = 0)
    BY <1>1, <1>2
<1>5. /\ shareOf' = [shareOf EXCEPT ![u] = @ - (acct.shares - acct'.shares)]
      /\ token'[Vault] = token[Vault] - (TotalCurrent - TotalCurrent')
    BY <1>1, <1>2
<1> QED
    BY <1>3, <1>4, <1>5, Zenon DEF Pool!Leave

\* Every step of the vault is a step of the pool or leaves it unchanged.
LEMMA PoolStep ==
    ASSUME IInv, [Next]_vars
    PROVE  [Pool!Next]_(Pool!pool)
<1>1. CASE UNCHANGED vars
    BY <1>1 DEF vars, Pool!pool, TotalCurrent, TotalAccounted, PendingYield,
                NothingDue, Due
<1>2. CASE \E u \in Users : Initialize(u)
    BY <1>2, InitializeEffect DEF Pool!pool
<1>3. CASE \E u \in Users, assets \in Amounts : Deposit(u, assets)
    BY <1>3, DepositEnters DEF Pool!Next
<1>4. CASE \E u \in Users, amount \in Amounts : Redeem(u, amount) \/ Withdraw(u, amount)
    BY <1>4, RedemptionLeaves DEF Pool!Next
<1>5. CASE AccrueYield
    BY <1>5, AccrueYieldEffect DEF Pool!pool
<1>6. CASE Pause \/ Unpause
    BY <1>6, PauseEffect DEF Pool!pool
<1>7. CASE LedgerTick
    BY <1>7, LedgerTickEffect, TotalsTyped DEF Totals, Pool!pool, Pool!Next, Pool!Grow
<1>8. CASE \E amount \in 1 .. MaxFunding : FundVault(amount)
    <2>1. PICK x \in 1 .. MaxFunding : FundVault(x)
        BY <1>8
    <2>2. token'[Vault] = token[Vault] + x /\ TotalCurrent' = TotalCurrent
          /\ UNCHANGED <<acct, shareOf>>
        BY <2>1, FundVaultEffect
    <2> QED
        BY <2>2, TotalsTyped, BoundsAssumption DEF Totals, Pool!Next, Pool!Endow
<1> QED
    BY <1>1, <1>2, <1>3, <1>4, <1>5, <1>6, <1>7, <1>8 DEF Next

\* The contract implements the abstract share pool for every number of users, every
\* rate, every width of integer and every history.
THEOREM VaultImplementsPool == Spec => ImplementsPool
<1>1. IInv /\ [Next]_vars => [Pool!Next]_(Pool!pool)
    BY PoolStep
<1> QED
    BY <1>1, PoolInit, VaultInvariance, PTL DEF Spec, ImplementsPool, Pool!Spec

\* In the pool, no step lowers the price of the shares that stay.
LEMMA PoolPrice ==
    ASSUME IInv, IInv', [Pool!Next]_(Pool!pool), acct.shares > 0, acct'.shares > 0
    PROVE  TotalCurrent' * acct.shares >= TotalCurrent * acct'.shares
<1> DEFINE T == TotalCurrent
           U == TotalCurrent'
           S == acct.shares
           R == acct'.shares
<1>1. T \in Nat /\ U \in Nat /\ S \in Nat /\ R \in Nat
    <2>1. U \in Nat /\ R \in Nat
        BY TotalsPrimed DEF Totals
    <2> QED
        BY <2>1, TotalsTyped DEF Totals
<1>2. CASE UNCHANGED Pool!pool
    BY <1>1, <1>2 DEF Pool!pool
<1>3. CASE \E u \in Users : Pool!Enter(u)
    <2>1. (R - S) * T <= (U - T) * S
        BY <1>3 DEF Pool!Enter
    <2> HIDE DEF T, U, S, R
    <2>2. (R - S) * T = T * R - T * S /\ (U - T) * S = U * S - T * S
        BY <1>1
    <2>3. T * R \in Int /\ T * S \in Int /\ U * S \in Int
        BY <1>1
    <2>4. T * R <= U * S
        BY <2>1, <2>2, <2>3
    <2> QED
        BY <2>4, <2>3 DEF T, U, S, R
<1>4. CASE \E u \in Users : Pool!Leave(u)
    <2>1. (T - U) * S <= (S - R) * T
        BY <1>4 DEF Pool!Leave
    <2> HIDE DEF T, U, S, R
    <2>2. (T - U) * S = T * S - U * S /\ (S - R) * T = T * S - T * R
        BY <1>1
    <2>3. T * R \in Int /\ T * S \in Int /\ U * S \in Int
        BY <1>1
    <2>4. T * R <= U * S
        BY <2>1, <2>2, <2>3
    <2> QED
        BY <2>4, <2>3 DEF T, U, S, R
<1>5. CASE Pool!Grow \/ Pool!Endow
    <2>1. U >= T /\ R = S
        BY <1>1, <1>5 DEF Pool!Grow, Pool!Endow
    <2> HIDE DEF T, U, S, R
    <2>2. T * S <= U * S
        BY <1>1, <2>1
    <2>3. T * S \in Int /\ U * S \in Int
        BY <1>1
    <2> QED
        BY <2>1, <2>2, <2>3 DEF T, U, S, R
<1> QED
    BY <1>2, <1>3, <1>4, <1>5 DEF Pool!Next

\* The price of a share never falls, whoever calls what and however it rounds.
THEOREM VaultPriceNeverFalls == Spec => PriceNeverFalls
<1>1. IInv /\ IInv' /\ [Next]_vars
          => [ acct.shares > 0 /\ acct'.shares > 0
                   => TotalCurrent' * acct.shares >= TotalCurrent * acct'.shares ]_vars
    BY PoolStep, PoolPrice
<1> QED
    BY <1>1, VaultInvariance, PTL DEF Spec, PriceNeverFalls

-----------------------------------------------------------------------------
(***************************************************************************)
(* Views against calls                                                     *)
(***************************************************************************)

\* The record the calls of this ledger work on.
LEMMA CurrentRecord ==
    ASSUME IInv
    PROVE  /\ Backed(Accrue(acct))
           /\ TotalAccounted(Accrue(acct)) = TotalCurrent
           /\ Accrue(acct).shares = acct.shares
           /\ TotalCurrent \in Nat /\ acct.shares \in Nat /\ token[Vault] \in Nat
           /\ TotalCurrent >= acct.shares
           /\ (acct.shares = 0) <=> (TotalCurrent = 0)
<1>1. Backed(acct) /\ acct \in Record /\ now \in Nat /\ acct.lastTs <= now
    BY SoundIsBacked DEF IInv, TypeOK, Backed
<1>2. /\ Backed(Accrue(acct)) /\ Accrue(acct).shares = acct.shares
      /\ TotalAccounted(Accrue(acct)) = TotalCurrent
    BY <1>1, AccrueExact, AccrueBacked DEF TotalCurrent
<1>3. TotalCurrent \in Nat /\ acct.shares \in Nat /\ token[Vault] \in Nat
    BY TotalsTyped DEF Totals
<1> QED
    BY <1>2, <1>3 DEF Backed

\* What a view quotes is what a call of the same ledger uses, for every amount and
\* also where the accrual itself would overflow.
THEOREM VaultQuotesAreHonoured == Spec => []QuotesAreHonoured
<1>1. IInv => QuotesAreHonoured
    BY CurrentRecord DEF QuotesAreHonoured, ConvertToShares, ConvertToAssets,
                   SharesFor, AssetsFor
<1> QED
    BY <1>1, VaultInvariance, PTL

\* However the accruals are scheduled, the yield is the same to the last fraction.
THEOREM VaultAccrualScheduleIrrelevant == Spec => []AccrualScheduleIrrelevant
<1>1. IInv => AccrualScheduleIrrelevant
    <2> SUFFICES ASSUME IInv PROVE AccrualScheduleIrrelevant
        OBVIOUS
    <2>1. acct.principal \in Nat /\ acct.rem \in 0 .. YieldDenom - 1
        BY MaxIAssumption DEF IInv, TypeOK, Accounting
    <2>2. 0 .. MaxTime \subseteq Nat
        BY BoundsAssumption
    <2> QED
        BY <2>1, <2>2, YieldPartsCompose DEF AccrualScheduleIrrelevant
<1> QED
    BY <1>1, VaultInvariance, PTL

\* max_redeemable is the largest number of shares the tokens of the vault cover.
THEOREM VaultMaxRedeemableIsExact == Spec => []MaxRedeemableIsExact
<1>1. IInv => MaxRedeemableIsExact
    <2> SUFFICES ASSUME IInv, Initialized, ~acct.paused
                 PROVE  /\ MaxRedeemable \in 0 .. acct.shares
                        /\ MaxRedeemable > 0
                               => AssetsFor(Accrue(acct), MaxRedeemable) <= token[Vault]
                        /\ MaxRedeemable < acct.shares
                               => ~(AssetsFor(Accrue(acct), MaxRedeemable + 1) <= token[Vault])
        BY DEF MaxRedeemableIsExact
    <2> DEFINE T == TotalCurrent
               S == acct.shares
               L == token[Vault]
    <2>1. /\ T \in Nat /\ S \in Nat /\ L \in Nat /\ T >= S /\ (S = 0 <=> T = 0)
          /\ \A s : AssetsFor(Accrue(acct), s) = MulDivFloor(s, T, S)
        BY CurrentRecord DEF AssetsFor
    <2>2. MaxRedeemable = IF S = 0 THEN 0
                          ELSE IF L <= 0 \/ T <= 0 THEN 0
                          ELSE IF L >= T THEN S
                          ELSE MulDivCeil(L + 1, S, T) - 1
        BY DEF MaxRedeemable
    <2> HIDE DEF T, S, L
    <2>3. CASE S = 0
        BY <2>1, <2>2, <2>3 DEF S, L
    <2>4. CASE S # 0 /\ L = 0
        <3>1. MulDivFloor(1, T, S) > 0
            <4>1. 1 * S <= 1 * T /\ 1 * T < MulDivFloor(1, T, S) * S + S
                  /\ MulDivFloor(1, T, S) \in Nat
                BY <2>1, <2>4, FloorCeil
            <4> DEFINE k == MulDivFloor(1, T, S)
            <4> HIDE DEF k
            <4>2. k = 0 => k * S = 0
                BY <2>1
            <4> QED
                BY <2>1, <4>1, <4>2 DEF k
        <3>2. MaxRedeemable = 0 /\ MaxRedeemable + 1 = 1
            BY <2>2, <2>4
        <3>3. MulDivFloor(1, T, S) \in Nat
            BY <2>1, <2>4, FloorCeil
        <3>4. ~(MulDivFloor(1, T, S) <= L) /\ 0 \in 0 .. S /\ ~(0 > 0)
            BY <2>1, <2>4, <3>1, <3>3
        <3> QED
            BY <2>1, <3>2, <3>4 DEF S, L
    <2>5. CASE S # 0 /\ L # 0 /\ L >= T
        <3>1. MaxRedeemable = S
            BY <2>1, <2>2, <2>5
        <3>2. MulDivFloor(S, T, S) <= T
            <4>1. MulDivFloor(S, T, S) \in Nat /\ MulDivFloor(S, T, S) * S <= S * T
                BY <2>1, <2>5, FloorCeil
            <4>2. S * T = T * S
                BY <2>1
            <4> QED
                BY <2>1, <2>5, <4>1, <4>2, MulCancel
        <3>3. MulDivFloor(S, T, S) \in Nat
            BY <2>1, <2>5, FloorCeil
        <3>4. S \in 0 .. S /\ ~(S < S)
            BY <2>1
        <3>5. MulDivFloor(S, T, S) <= L
            BY <2>1, <2>5, <3>2, <3>3
        <3> QED
            BY <2>1, <3>1, <3>4, <3>5 DEF S, L
    <2>6. CASE S # 0 /\ L # 0 /\ ~(L >= T)
        <3> DEFINE m == MulDivCeil(L + 1, S, T) - 1
        <3>1. MaxRedeemable = m
            BY <2>1, <2>2, <2>6
        <3>2. /\ m \in 0 .. S - 1
              /\ MulDivFloor(m, T, S) <= L
              /\ MulDivFloor(m + 1, T, S) > L
            BY <2>1, <2>6, LargestPayable
        <3> HIDE DEF m
        <3>3. MulDivFloor(m + 1, T, S) \in Nat
            <4>1. m + 1 \in Nat
                BY <2>1, <3>2
            <4> QED
                BY <2>1, <2>6, <4>1, FloorCeil
        <3>4. ~(MulDivFloor(m + 1, T, S) <= L) /\ m \in 0 .. S
            BY <2>1, <3>2, <3>3
        <3> QED
            BY <2>1, <3>1, <3>2, <3>4 DEF S, L
    <2> QED
        BY <2>3, <2>4, <2>5, <2>6
<1> QED
    BY <1>1, VaultInvariance, PTL

\* Where the tokens cover all claims every holder can redeem the whole balance.
THEOREM VaultFundedHolderCanExit == Spec => []FundedHolderCanExit
<1>1. IInv => FundedHolderCanExit
    <2> SUFFICES ASSUME IInv, CanAccrue, Fits(TotalCurrent), token[Vault] >= TotalCurrent,
                        NEW u \in Users, shareOf[u] > 0
                 PROVE  CanRedeem(u, shareOf[u])
        BY DEF FundedHolderCanExit
    <2> DEFINE a == Accrue(acct)
               s == shareOf[u]
    <2>1. Sound(a) /\ a.shares = acct.shares /\ TotalAccounted(a) = TotalCurrent
        BY AfterAccrual
    <2>2. s \in Nat /\ s <= acct.shares /\ acct.shares \in Nat
        BY BalanceWithinSupply, MaxIAssumption
        DEF IInv, TypeOK, SharesConserved, Accounting
    <2>3. s \in 1 .. a.shares
        BY <2>1, <2>2
    <2>4. AssetsFor(a, s) \in 1 .. TotalCurrent /\ TotalCurrent \in Nat
          /\ token[Vault] \in Nat
        <3> HIDE DEF a, s
        <3>1. AssetsFor(a, s) \in 1 .. TotalAccounted(a)
            BY <2>1, <2>3, RedeemAmount
        <3> QED
            BY <2>1, <3>1, TotalsTyped DEF Totals
    <2>5. AssetsFor(a, s) > 0 /\ token[Vault] >= AssetsFor(a, s)
        BY <2>4
    <2>6. s <= shareOf[u] /\ a.shares > 0 /\ s > 0
        BY <2>1, <2>2
    <2> QED
        BY <2>1, <2>5, <2>6 DEF CanRedeem, Settlable
<1> QED
    BY <1>1, VaultInvariance, PTL

-----------------------------------------------------------------------------
(***************************************************************************)
(* Round trips                                                             *)
(***************************************************************************)

\* Neither depositing and redeeming nor redeeming and depositing gains anything.
THEOREM VaultNoFreeRoundTrip == Spec => []NoFreeRoundTrip
<1>1. IInv => NoFreeRoundTrip
    <2> SUFFICES ASSUME IInv PROVE NoFreeRoundTrip
        OBVIOUS
    <2> DEFINE a == Accrue(acct)
               T == TotalAccounted(a)
               S == acct.shares
               Deposited(x, s) == [a EXCEPT !.principal = @ + x, !.shares = @ + s]
    <2>1. /\ Backed(a) /\ a \in Record /\ a.shares = S
          /\ T \in Nat /\ S \in Nat /\ T >= S /\ (S = 0 <=> T = 0)
        BY CurrentRecord DEF Backed
    <2>2. ASSUME NEW x \in 1 .. Endowment, SharesFor(a, x) > 0
          PROVE  AssetsFor(Deposited(x, SharesFor(a, x)), SharesFor(a, x)) <= x
        <3> DEFINE s == SharesFor(a, x)
        <3>1. x \in Nat \ {0}
            BY BoundsAssumption
        <3>2. s \in Nat \ {0} /\ s * T <= x * S
            <4>1. CASE S = 0
                <5>1. s = x /\ T = 0
                    BY <2>1, <4>1 DEF SharesFor
                <5>2. s * T = 0 /\ x * S = 0
                    BY <3>1, <4>1, <5>1
                <5> QED
                    BY <3>1, <5>1, <5>2
            <4>2. CASE S # 0
                <5>1. s = MulDivFloor(x, S, T)
                    BY <2>1, <4>2 DEF SharesFor
                <5>2. T \in Nat \ {0}
                    BY <2>1, <4>2
                <5> HIDE DEF T, S
                <5>3. MulDivFloor(x, S, T) \in Nat /\ MulDivFloor(x, S, T) * T <= x * S
                    BY <2>1, <3>1, <5>2, FloorCeil
                <5> QED
                    BY <2>2, <5>1, <5>3
            <4> QED
                BY <4>1, <4>2
        <3> HIDE DEF s
        <3>3. /\ TotalAccounted(Deposited(x, s)) = T + x
              /\ Deposited(x, s).shares = S + s
            <4>1. /\ Deposited(x, s).principal = a.principal + x
                  /\ Deposited(x, s).accrued = a.accrued
                  /\ Deposited(x, s).shares = a.shares + s
                BY <2>1 DEF Record
            <4>2. a.principal \in Nat /\ a.accrued \in Nat
                BY <2>1 DEF Record
            <4> QED
                BY <2>1, <3>1, <4>1, <4>2 DEF TotalAccounted
        <3>4. MulDivFloor(s, T + x, S + s) <= x
            <4> HIDE DEF T, S
            <4> QED
                BY <2>1, <3>1, <3>2, DepositThenRedeem
        <3>5. AssetsFor(Deposited(x, s), s) <= x
            BY <3>3, <3>4 DEF AssetsFor
        <3> QED
            BY <3>5 DEF s
    <2>3. ASSUME NEW s \in 1 .. S - 1, AssetsFor(a, s) > 0
          PROVE  SharesFor(Settle(a, AssetsFor(a, s), s), AssetsFor(a, s)) <= s
        <3> DEFINE x == AssetsFor(a, s)
                   b == Settle(a, x, s)
        <3>1. S \in Nat \ {0} /\ s \in Nat /\ S - s # 0 /\ T > 0 /\ T \in Nat
            BY <2>1
        <3>2. x \in Nat \ {0} /\ x * S <= s * T
            <4>1. x = MulDivFloor(s, T, S)
                BY <2>1 DEF AssetsFor
            <4> HIDE DEF T, S
            <4>2. MulDivFloor(s, T, S) \in Nat /\ MulDivFloor(s, T, S) * S <= s * T
                BY <3>1, FloorCeil
            <4> QED
                BY <2>3, <4>1, <4>2
        <3> HIDE DEF x
        <3>3. T - x > 0 /\ MulDivFloor(x, S - s, T - x) <= s
            <4> HIDE DEF T, S
            <4> QED
                BY <3>1, <3>2, RedeemThenDeposit
        <3>4. x \in 1 .. T /\ s \in 1 .. a.shares
            BY <2>1, <3>1, <3>2, <3>3
        <3>5. TotalAccounted(b) = T - x /\ b.shares = S - s
            BY <2>1, <3>4, SettleExact
        <3>6. SharesFor(b, x) = MulDivFloor(x, S - s, T - x)
            BY <3>1, <3>5 DEF SharesFor
        <3> HIDE DEF b
        <3> QED
            BY <3>3, <3>6 DEF x, b
    <2>4. /\ \A x \in 1 .. Endowment :
                 SharesFor(a, x) > 0
                     => AssetsFor(Deposited(x, SharesFor(a, x)), SharesFor(a, x)) <= x
          /\ \A s \in 1 .. S - 1 :
                 AssetsFor(a, s) > 0
                     => SharesFor(Settle(a, AssetsFor(a, s), s), AssetsFor(a, s)) <= s
        BY <2>2, <2>3
    <2> QED
        BY <2>4, Zenon DEF NoFreeRoundTrip
<1> QED
    BY <1>1, VaultInvariance, PTL

-----------------------------------------------------------------------------
(***************************************************************************)
(* The event log                                                           *)
(***************************************************************************)

\* Reading a log that holds one event of interest, or none.
LEMMA SharesInLog ==
    ASSUME NEW log, NEW topic, NEW u
    PROVE  /\ (\A j \in DOMAIN log : ~(log[j].topic = topic /\ log[j].user = u))
                  => SharesIn(log, topic, u) = 0
           /\ \A i \in DOMAIN log :
                  /\ log[i].topic = topic /\ log[i].user = u
                  /\ \A j \in DOMAIN log :
                         log[j].topic = topic /\ log[j].user = u => j = i
                  => SharesIn(log, topic, u) = log[i].shares
<1> DEFINE of == {j \in DOMAIN log : log[j].topic = topic /\ log[j].user = u}
<1>1. SharesIn(log, topic, u)
          = IF of = {} THEN 0 ELSE log[CHOOSE j \in of : TRUE].shares
    BY DEF SharesIn
<1>2. ASSUME \A j \in DOMAIN log : ~(log[j].topic = topic /\ log[j].user = u)
      PROVE  SharesIn(log, topic, u) = 0
    <2>1. of = {}
        BY <1>2
    <2> QED
        BY <1>1, <2>1
<1>3. ASSUME NEW i \in DOMAIN log, log[i].topic = topic, log[i].user = u,
             \A j \in DOMAIN log : log[j].topic = topic /\ log[j].user = u => j = i
      PROVE  SharesIn(log, topic, u) = log[i].shares
    <2>1. of = {i}
        BY <1>3
    <2> HIDE DEF of
    <2>2. (CHOOSE j \in of : TRUE) = i /\ of # {}
        BY <2>1
    <2> QED
        BY <1>1, <2>2
<1> QED
    BY <1>2, <1>3

LEMMA AssetsInLog ==
    ASSUME NEW log, NEW topic
    PROVE  /\ (\A j \in DOMAIN log : log[j].topic # topic)
                  => AssetsIn(log, topic) = 0
           /\ \A i \in DOMAIN log :
                  /\ log[i].topic = topic
                  /\ \A j \in DOMAIN log : log[j].topic = topic => j = i
                  => AssetsIn(log, topic) = log[i].assets
<1> DEFINE of == {j \in DOMAIN log : log[j].topic = topic}
<1>1. AssetsIn(log, topic)
          = IF of = {} THEN 0 ELSE log[CHOOSE j \in of : TRUE].assets
    BY DEF AssetsIn
<1>2. ASSUME \A j \in DOMAIN log : log[j].topic # topic
      PROVE  AssetsIn(log, topic) = 0
    <2>1. of = {}
        BY <1>2
    <2> QED
        BY <1>1, <2>1
<1>3. ASSUME NEW i \in DOMAIN log, log[i].topic = topic,
             \A j \in DOMAIN log : log[j].topic = topic => j = i
      PROVE  AssetsIn(log, topic) = log[i].assets
    <2>1. of = {i}
        BY <1>3
    <2> HIDE DEF of
    <2>2. (CHOOSE j \in of : TRUE) = i /\ of # {}
        BY <2>1
    <2> QED
        BY <1>1, <2>2
<1> QED
    BY <1>2, <1>3

\* The log of a deposit, a redemption or a withdrawal ...
Log(call, move, u, assets, shares) ==
    YieldEvents(acct) \o <<Event(call, u, assets, shares), Event(move, u, 0, shares)>>

\* ... and what an observer reads from it:
\* the yield that was credited first, the assets, and the shares of the one user.
LEMMA CallLog ==
    ASSUME PendingYield(acct) \in Nat, NEW u, NEW assets, NEW shares,
           NEW call \in {"deposit", "withdraw"}, NEW move \in {"share_mint", "share_burn"}
    PROVE  /\ \A t \in {"share_mint", "share_burn"} : \A v :
                  SharesIn(Log(call, move, u, assets, shares), t, v)
                      = IF t = move /\ v = u THEN shares ELSE 0
           /\ \A t \in {"deposit", "withdraw"} :
                  AssetsIn(Log(call, move, u, assets, shares), t)
                      = IF t = call THEN assets ELSE 0
           /\ AssetsIn(Log(call, move, u, assets, shares), "yield") = PendingYield(acct)
<1> DEFINE first  == Event(call, u, assets, shares)
           second == Event(move, u, 0, shares)
           yield  == Event("yield", NoUser, PendingYield(acct), 0)
           log    == YieldEvents(acct) \o <<first, second>>
<1>1. log = Log(call, move, u, assets, shares)
    BY DEF Log
<1>2. /\ first.topic = call /\ first.user = u /\ first.assets = assets
      /\ second.topic = move /\ second.user = u /\ second.shares = shares
      /\ yield.topic = "yield" /\ yield.assets = PendingYield(acct)
    BY DEF Event
<1> HIDE DEF first, second, yield
<1>3. CASE PendingYield(acct) > 0
    <2>1. log = <<yield, first, second>>
        <3>1. YieldEvents(acct) = <<yield>>
            BY <1>3 DEF YieldEvents, yield
        <3>2. <<yield>> \o <<first, second>> = <<yield, first, second>>
            <4> DEFINE S == {yield, first, second}
                       l == <<yield>>
                       r == <<first, second>>
            <4>1. /\ l \in Seq(S) /\ r \in Seq(S) /\ Len(l) = 1 /\ Len(r) = 2
                  /\ l[1] = yield /\ r[1] = first /\ r[2] = second
                OBVIOUS
            <4> HIDE DEF l, r, S
            <4> DEFINE c == l \o r
            <4>2. /\ c \in Seq(S) /\ Len(c) = Len(l) + Len(r)
                  /\ \A i \in 1 .. Len(l) + Len(r) :
                         c[i] = IF i <= Len(l) THEN l[i] ELSE r[i - Len(l)]
                BY <4>1, ConcatProperties
            <4> HIDE DEF c
            <4>3. c = <<yield, first, second>>
                BY <4>1, <4>2 DEF S
            <4> QED
                BY <4>3 DEF c, l, r
        <3> QED
            BY <3>1, <3>2
    <2> HIDE DEF log
    <2>2. /\ DOMAIN log = {1, 2, 3}
          /\ log[1] = yield /\ log[2] = first /\ log[3] = second
        BY <2>1
    <2>3. ASSUME NEW t \in {"share_mint", "share_burn"}, NEW v
          PROVE  SharesIn(log, t, v) = IF t = move /\ v = u THEN shares ELSE 0
        <3>1. CASE t = move /\ v = u
            BY <1>2, <2>2, <3>1, SharesInLog
        <3>2. CASE ~(t = move /\ v = u)
            BY <1>2, <2>2, <3>2, SharesInLog
        <3> QED
            BY <3>1, <3>2
    <2>4. ASSUME NEW t \in {"deposit", "withdraw"}
          PROVE  AssetsIn(log, t) = IF t = call THEN assets ELSE 0
        <3>1. CASE t = call
            BY <1>2, <2>2, <3>1, AssetsInLog
        <3>2. CASE t # call
            BY <1>2, <2>2, <3>2, AssetsInLog
        <3> QED
            BY <3>1, <3>2
    <2>5. AssetsIn(log, "yield") = PendingYield(acct)
        BY <1>2, <2>2, AssetsInLog
    <2> QED
        BY <1>1, <2>3, <2>4, <2>5
<1>4. CASE ~(PendingYield(acct) > 0)
    <2>1. log = <<first, second>> /\ PendingYield(acct) = 0
        BY <1>4 DEF YieldEvents
    <2> HIDE DEF log
    <2>2. DOMAIN log = {1, 2} /\ log[1] = first /\ log[2] = second
        BY <2>1
    <2>3. ASSUME NEW t \in {"share_mint", "share_burn"}, NEW v
          PROVE  SharesIn(log, t, v) = IF t = move /\ v = u THEN shares ELSE 0
        <3>1. CASE t = move /\ v = u
            BY <1>2, <2>2, <3>1, SharesInLog
        <3>2. CASE ~(t = move /\ v = u)
            BY <1>2, <2>2, <3>2, SharesInLog
        <3> QED
            BY <3>1, <3>2
    <2>4. ASSUME NEW t \in {"deposit", "withdraw"}
          PROVE  AssetsIn(log, t) = IF t = call THEN assets ELSE 0
        <3>1. CASE t = call
            BY <1>2, <2>2, <3>1, AssetsInLog
        <3>2. CASE t # call
            BY <1>2, <2>2, <3>2, AssetsInLog
        <3> QED
            BY <3>1, <3>2
    <2>5. AssetsIn(log, "yield") = PendingYield(acct)
        BY <1>2, <2>1, <2>2, AssetsInLog
    <2> QED
        BY <1>1, <2>3, <2>4, <2>5
<1> QED
    BY <1>3, <1>4

\* A log of at most the yield event moves no shares and no other assets.
LEMMA YieldLog ==
    ASSUME PendingYield(acct) \in Nat
    PROVE  LET log == YieldEvents(acct)
           IN  /\ \A t \in {"share_mint", "share_burn"} : \A v : SharesIn(log, t, v) = 0
               /\ \A t \in {"deposit", "withdraw"} : AssetsIn(log, t) = 0
               /\ AssetsIn(log, "yield") = PendingYield(acct)
<1> DEFINE log   == YieldEvents(acct)
           yield == Event("yield", NoUser, PendingYield(acct), 0)
<1>1. yield.topic = "yield" /\ yield.assets = PendingYield(acct)
    BY DEF Event
<1>2. /\ \A j \in DOMAIN log : log[j].topic = "yield"
      /\ PendingYield(acct) > 0 => DOMAIN log = {1} /\ log[1] = yield
      /\ ~(PendingYield(acct) > 0) => DOMAIN log = {}
    <2>1. CASE PendingYield(acct) > 0
        <3>1. log = <<yield>>
            BY <2>1 DEF YieldEvents
        <3> HIDE DEF log, yield
        <3>2. DOMAIN log = {1} /\ log[1] = yield
            BY <3>1
        <3> QED
            BY <1>1, <2>1, <3>2
    <2>2. CASE ~(PendingYield(acct) > 0)
        <3>1. log = <<>>
            BY <2>2 DEF YieldEvents
        <3> HIDE DEF log, yield
        <3>2. DOMAIN log = {}
            BY <3>1
        <3> QED
            BY <2>2, <3>2
    <2> QED
        BY <2>1, <2>2
<1> HIDE DEF log, yield
<1>3. \A t \in {"share_mint", "share_burn"} : \A v : SharesIn(log, t, v) = 0
    BY <1>2, SharesInLog
<1>4. \A t \in {"deposit", "withdraw"} : AssetsIn(log, t) = 0
    BY <1>2, AssetsInLog
<1>5. AssetsIn(log, "yield") = PendingYield(acct)
    <2>1. CASE PendingYield(acct) > 0
        BY <1>1, <1>2, <2>1, AssetsInLog
    <2>2. CASE ~(PendingYield(acct) > 0)
        <3>1. AssetsIn(log, "yield") = 0
            BY <1>2, <2>2, AssetsInLog
        <3> QED
            BY <2>2, <3>1
    <2> QED
        BY <2>1, <2>2
<1> QED
    BY <1>3, <1>4, <1>5 DEF log

\* A log without share and asset events says that nothing has changed.
LEMMA QuietLog ==
    ASSUME NEW log,
           \A j \in DOMAIN log : log[j].topic \in {"initialize", "pause", "unpause"}
    PROVE  /\ \A t \in {"share_mint", "share_burn"} : \A v : SharesIn(log, t, v) = 0
           /\ \A t \in {"deposit", "withdraw", "yield"} : AssetsIn(log, t) = 0
BY SharesInLog, AssetsInLog

\* The step an observer reconstructs from the log.
Explained ==
    /\ \A u \in Users :
          shareOf'[u] - shareOf[u] =
              SharesIn(emitted', "share_mint", u) - SharesIn(emitted', "share_burn", u)
    /\ TotalAccounted(acct') - TotalAccounted(acct) =
           AssetsIn(emitted', "deposit") + AssetsIn(emitted', "yield")
               - AssetsIn(emitted', "withdraw")

LEMMA DepositExplained ==
    ASSUME IInv, NEW u \in Users, NEW assets \in Amounts, Deposit(u, assets)
    PROVE  Explained
<1> DEFINE y == PendingYield(acct)
<1>1. PICK s \in 1 .. assets :
          /\ assets \in Nat \ {0}
          /\ TotalAccounted(acct') = TotalAccounted(acct) + y + assets
          /\ shareOf' = [shareOf EXCEPT ![u] = @ + s]
          /\ emitted' = YieldEvents(acct) \o DepositEvents(u, assets, s)
    BY DepositEffect
<1>2. y \in Nat /\ shareOf \in [Users -> Nat] /\ TotalAccounted(acct) \in Nat
    BY TotalsTyped DEF Totals
<1>3. /\ \A v \in Users : /\ SharesIn(emitted', "share_mint", v) = IF v = u THEN s ELSE 0
                          /\ SharesIn(emitted', "share_burn", v) = 0
      /\ AssetsIn(emitted', "deposit") = assets
      /\ AssetsIn(emitted', "withdraw") = 0
      /\ AssetsIn(emitted', "yield") = y
    <2> DEFINE log == Log("deposit", "share_mint", u, assets, s)
    <2>1. emitted' = log
        BY <1>1 DEF Log, DepositEvents
    <2>2. /\ \A t \in {"share_mint", "share_burn"} : \A v :
                 SharesIn(log, t, v) = IF t = "share_mint" /\ v = u THEN s ELSE 0
          /\ \A t \in {"deposit", "withdraw"} :
                 AssetsIn(log, t) = IF t = "deposit" THEN assets ELSE 0
          /\ AssetsIn(log, "yield") = y
        <3>1. "deposit" \in {"deposit", "withdraw"} /\ "share_mint" \in {"share_mint", "share_burn"}
            OBVIOUS
        <3> QED
            BY <1>2, <3>1, CallLog
    <2> HIDE DEF log
    <2> QED
        BY <2>1, <2>2
<1> HIDE DEF y
<1>4. \A v \in Users : shareOf'[v] - shareOf[v] = IF v = u THEN s ELSE 0
    BY <1>1, <1>2
<1>5. \A v \in Users :
          shareOf'[v] - shareOf[v] =
              SharesIn(emitted', "share_mint", v) - SharesIn(emitted', "share_burn", v)
    BY <1>1, <1>3, <1>4
<1>6. TotalAccounted(acct') - TotalAccounted(acct) = assets + y - 0
    BY <1>1, <1>2
<1> QED
    BY <1>3, <1>5, <1>6 DEF Explained

LEMMA RedemptionExplained ==
    ASSUME IInv, NEW u \in Users, NEW amount \in Amounts,
           Redeem(u, amount) \/ Withdraw(u, amount)
    PROVE  Explained
<1> DEFINE y == PendingYield(acct)
<1>1. PICK assets \in Nat \ {0}, s \in Nat \ {0} :
          /\ TotalAccounted(acct') = (TotalAccounted(acct) + y) - assets
          /\ shareOf' = [shareOf EXCEPT ![u] = @ - s]
          /\ emitted' = YieldEvents(acct) \o WithdrawEvents(u, assets, s)
    BY RedemptionEffect
<1>2. y \in Nat /\ shareOf \in [Users -> Nat] /\ TotalAccounted(acct) \in Nat
    BY TotalsTyped DEF Totals
<1>3. /\ \A v \in Users : /\ SharesIn(emitted', "share_burn", v) = IF v = u THEN s ELSE 0
                          /\ SharesIn(emitted', "share_mint", v) = 0
      /\ AssetsIn(emitted', "withdraw") = assets
      /\ AssetsIn(emitted', "deposit") = 0
      /\ AssetsIn(emitted', "yield") = y
    <2> DEFINE log == Log("withdraw", "share_burn", u, assets, s)
    <2>1. emitted' = log
        BY <1>1 DEF Log, WithdrawEvents
    <2>2. /\ \A t \in {"share_mint", "share_burn"} : \A v :
                 SharesIn(log, t, v) = IF t = "share_burn" /\ v = u THEN s ELSE 0
          /\ \A t \in {"deposit", "withdraw"} :
                 AssetsIn(log, t) = IF t = "withdraw" THEN assets ELSE 0
          /\ AssetsIn(log, "yield") = y
        <3>1. /\ "withdraw" \in {"deposit", "withdraw"}
              /\ "share_burn" \in {"share_mint", "share_burn"}
            OBVIOUS
        <3> QED
            BY <1>2, <3>1, CallLog
    <2> HIDE DEF log
    <2> QED
        BY <2>1, <2>2
<1> HIDE DEF y
<1>4. \A v \in Users : shareOf'[v] - shareOf[v] = 0 - (IF v = u THEN s ELSE 0)
    BY <1>1, <1>2
<1>5. \A v \in Users :
          shareOf'[v] - shareOf[v] =
              SharesIn(emitted', "share_mint", v) - SharesIn(emitted', "share_burn", v)
    BY <1>1, <1>3, <1>4
<1>6. TotalAccounted(acct') - TotalAccounted(acct) = 0 + y - assets
    BY <1>1, <1>2
<1> QED
    BY <1>3, <1>5, <1>6 DEF Explained

\* The calls that move no shares and nothing but pending yield.
LEMMA OthersExplained ==
    ASSUME IInv,
           \/ \E u \in Users : Initialize(u)
           \/ AccrueYield \/ Pause \/ Unpause \/ LedgerTick
           \/ \E amount \in 1 .. MaxFunding : FundVault(amount)
    PROVE  Explained
<1>1. shareOf \in [Users -> Nat] /\ TotalAccounted(acct) \in Nat /\ PendingYield(acct) \in Nat
    BY TotalsTyped DEF Totals
<1>2. CASE AccrueYield
    <2>1. /\ TotalAccounted(acct') = TotalAccounted(acct) + PendingYield(acct)
          /\ emitted' = YieldEvents(acct) /\ shareOf' = shareOf
        BY <1>2, AccrueYieldEffect
    <2>2. /\ \A t \in {"share_mint", "share_burn"} : \A v : SharesIn(emitted', t, v) = 0
          /\ AssetsIn(emitted', "deposit") = 0 /\ AssetsIn(emitted', "withdraw") = 0
          /\ AssetsIn(emitted', "yield") = PendingYield(acct)
        BY <1>1, <2>1, YieldLog
    <2>3. \A u \in Users : shareOf'[u] - shareOf[u] = 0 - 0
        BY <1>1, <2>1
    <2>4. TotalAccounted(acct') - TotalAccounted(acct) = 0 + PendingYield(acct) - 0
        BY <1>1, <2>1
    <2> QED
        BY <2>2, <2>3, <2>4 DEF Explained
<1>3. CASE \/ \E u \in Users : Initialize(u)
           \/ Pause \/ Unpause \/ LedgerTick
           \/ \E amount \in 1 .. MaxFunding : FundVault(amount)
    <2>1. TotalAccounted(acct') = TotalAccounted(acct) /\ shareOf' = shareOf
        <3>1. CASE \E u \in Users : Initialize(u)
            BY <3>1, InitializeEffect
        <3>2. CASE Pause \/ Unpause
            BY <3>2, PauseEffect
        <3>3. CASE LedgerTick \/ \E amount \in 1 .. MaxFunding : FundVault(amount)
            BY <3>3 DEF LedgerTick, FundVault, TotalAccounted
        <3> QED
            BY <1>3, <3>1, <3>2, <3>3
    <2>2. \A j \in DOMAIN emitted' : emitted'[j].topic \in {"initialize", "pause", "unpause"}
        <3>1. CASE \E u \in Users : Initialize(u)
            BY <3>1 DEF Initialize, Event
        <3>2. CASE Pause
            BY <3>2 DEF Pause, Event
        <3>3. CASE Unpause
            BY <3>3 DEF Unpause, Event
        <3>4. CASE LedgerTick \/ \E amount \in 1 .. MaxFunding : FundVault(amount)
            BY <3>4 DEF LedgerTick, FundVault
        <3> QED
            BY <1>3, <3>1, <3>2, <3>3, <3>4
    <2>3. /\ \A t \in {"share_mint", "share_burn"} : \A v : SharesIn(emitted', t, v) = 0
          /\ \A t \in {"deposit", "withdraw", "yield"} : AssetsIn(emitted', t) = 0
        BY <2>2, QuietLog
    <2>4. \A u \in Users : shareOf'[u] - shareOf[u] = 0 - 0
        BY <1>1, <2>1
    <2>5. TotalAccounted(acct') - TotalAccounted(acct) = 0 + 0 - 0
        BY <1>1, <2>1
    <2> QED
        BY <2>3, <2>4, <2>5 DEF Explained
<1> QED
    BY <1>2, <1>3

\* The published events account for every change of a balance and of the total.
THEOREM VaultEventsExplainState == Spec => EventsExplainState
<1>1. IInv /\ [Next]_vars => [Explained]_vars
    BY DepositExplained, RedemptionExplained, OthersExplained DEF Next
<1>2. [][Explained]_vars <=> EventsExplainState
    BY PTL DEF Explained, EventsExplainState
<1> QED
    BY <1>1, <1>2, VaultInvariance, PTL DEF Spec
=============================================================================
