----------------------------- MODULE SharePool ------------------------------
(***************************************************************************)
(* What a share vault promises, without saying how: a pool of claims that  *)
(* members enter by paying in and leave by handing shares back.            *)
(*                                                                         *)
(*   - entering and leaving never moves the price of a share against those *)
(*     who stay: whatever is rounded is rounded in the pool's favour;      *)
(*   - the last share leaves with the last unit of claims;                 *)
(*   - only time adds to the claims, never a member's own call;            *)
(*   - nothing is paid out that the pool does not hold.                    *)
(*                                                                         *)
(* A step is described by the difference it makes to the claims and to the *)
(* supply, so the specification bounds neither.  YieldVault implements it  *)
(* (YieldVaultProperties!ImplementsPool).                                  *)
(***************************************************************************)
EXTENDS Integers

CONSTANT Members

VARIABLES claims,     \* what the shares are worth together
          supply,     \* the shares issued
          holding,    \* the shares of each member
          liquid      \* the tokens the pool can pay out

pool == <<claims, supply, holding, liquid>>

Init ==
    /\ claims = 0
    /\ supply = 0
    /\ holding = [m \in Members |-> 0]
    /\ liquid = 0

\* A member pays in: `issued` shares at no less than the current price.
Enter(m) ==
    LET paid   == claims' - claims
        issued == supply' - supply
    IN  /\ paid > 0 /\ issued > 0
        /\ IF supply = 0 THEN issued = paid ELSE issued * claims <= paid * supply
        /\ holding' = [holding EXCEPT ![m] = @ + issued]
        /\ liquid' = liquid + paid

\* A member hands shares back: `retired` shares are paid no more than their part
\* of the claims, and no more than there is.
Leave(m) ==
    LET paid    == claims - claims'
        retired == supply - supply'
    IN  /\ paid > 0 /\ retired > 0
        /\ retired <= holding[m]
        /\ paid <= liquid
        /\ paid * supply <= retired * claims
        /\ (supply' = 0) <=> (claims' = 0)
        /\ holding' = [holding EXCEPT ![m] = @ - retired]
        /\ liquid' = liquid - paid

\* Time passes: the claims of the shares issued may grow.
Grow ==
    /\ supply > 0
    /\ claims' > claims
    /\ UNCHANGED <<supply, holding, liquid>>

\* Tokens reach the pool that buy no share.
Endow ==
    /\ liquid' > liquid
    /\ UNCHANGED <<claims, supply, holding>>

Next ==
    \/ \E m \in Members : Enter(m) \/ Leave(m)
    \/ Grow
    \/ Endow

Spec == Init /\ [][Next]_pool
=============================================================================
