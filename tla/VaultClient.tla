---------------------------- MODULE VaultClient -----------------------------
(***************************************************************************)
(* How a call reaches the vault: YieldVaultClient (packages/               *)
(* contract-clients/src/client.ts) builds and simulates one transaction    *)
(* per call and submits it through a wallet; submitOperation in deploy.ts  *)
(* follows the same path for uploads and creations.                        *)
(*                                                                         *)
(* A VaultTransaction may be signed and sent more than once, and several   *)
(* may exist for one source account.  Every await is a step of its own:    *)
(* the network applies or forgets queued transactions, other users act on  *)
(* the vault and the RPC falls behind in between.                          *)
(*                                                                         *)
(* External: the network (queue, sequence numbers, time bounds) and the    *)
(* vault, of which only the liquidity a redemption needs is kept.  The     *)
(* value a call returns depends on the state it executes in; that state,   *)
(* the liquidity, stands for the value.                                    *)
(***************************************************************************)
EXTENDS Integers, FiniteSets

CONSTANTS Txs,            \* the calls made through the client
          Redemptions,    \* those of them that need liquidity
          Submissions,    \* uses of signAndSend
          PollAttempts,   \* pollAttempts
          TimeToLive,     \* setTimeout(30), in units of pollIntervalMs
          MaxLiquid       \* bound: the vault's liquidity

ASSUME RedemptionsAssumption == Redemptions \subseteq Txs /\ Txs # {}
ASSUME LimitsAssumption == PollAttempts \in Nat /\ TimeToLive \in Nat /\ MaxLiquid \in Nat

VARIABLES built,      \* the VaultTransaction of each call
          sub,        \* the submissions
          queue,      \* envelopes the network has accepted and not applied
          chain,      \* the account's sequence number, the vault, the results
          rpc         \* the chain as far as the RPC has ingested it

vars == <<built, sub, queue, chain, rpc>>

\* A submission that has not started.
Unused == [at |-> "idle", tx |-> CHOOSE t \in Txs : TRUE, seq |-> 0, polls |-> 0,
           outcome |-> "none", value |-> 0]

Init ==
    /\ built = [t \in Txs |-> [at |-> "new", seq |-> 0, ttl |-> TimeToLive, quote |-> 0]]
    /\ sub = [s \in Submissions |-> Unused]
    /\ queue = {}
    /\ chain = [seq |-> 0, liquid |-> 0, results |-> {}]
    /\ rpc = chain

-----------------------------------------------------------------------------
(***************************************************************************)
(* The network                                                             *)
(***************************************************************************)
Payable(tx, liquid) == tx \in Redemptions => liquid > 0

LiquidAfter(tx, liquid) ==
    IF tx \in Redemptions THEN liquid - 1
    ELSE IF liquid < MaxLiquid THEN liquid + 1 ELSE liquid

\* The envelope has the account's next sequence number and is within its bounds.
Valid(e) == e.seq = chain.seq + 1 /\ built[e.tx].ttl >= 0

\* A failed transaction changes nothing but the sequence number.
Apply(e) ==
    LET ok == Payable(e.tx, chain.liquid)
    IN  /\ Valid(e)
        /\ chain' = [seq     |-> chain.seq + 1,
                     liquid  |-> IF ok THEN LiquidAfter(e.tx, chain.liquid) ELSE chain.liquid,
                     results |-> chain.results \cup
                                   {[tx |-> e.tx, seq |-> e.seq, value |-> chain.liquid,
                                     status |-> IF ok THEN "SUCCESS" ELSE "FAILED"]}]
        /\ queue' = queue \ {e}
        /\ UNCHANGED <<built, sub, rpc>>

\* A queued transaction expires or is crowded out.
Forget(e) ==
    /\ queue' = queue \ {e}
    /\ UNCHANGED <<built, sub, chain, rpc>>

OthersAct ==
    /\ \E liquid \in 0 .. MaxLiquid : chain' = [chain EXCEPT !.liquid = liquid]
    /\ UNCHANGED <<built, sub, queue, rpc>>

Ingest ==
    /\ rpc' = chain
    /\ UNCHANGED <<built, sub, queue, chain>>

\* One poll interval passes.
Tick ==
    /\ built' = [t \in Txs |-> [built[t] EXCEPT !.ttl =
                     IF built[t].at # "new" /\ @ >= 0 THEN @ - 1 ELSE @]]
    /\ sub' = [s \in Submissions |-> [sub[s] EXCEPT !.at =
                     IF @ = "sleep" THEN "poll" ELSE @]]
    /\ UNCHANGED <<queue, chain, rpc>>

-----------------------------------------------------------------------------
(***************************************************************************)
(* build                                                                   *)
(***************************************************************************)

\* Faulty variant: the client counts sequence numbers itself.
NextSeqCounted == 1 + Cardinality({t \in Txs : built[t].at # "new"})
\* getAccount, and the builder's increment.
NextSeq == rpc.seq + 1

GetAccount(t) ==
    /\ built[t].at = "new"
    /\ built' = [built EXCEPT ![t].at = "simulate", ![t].seq = NextSeq]
    /\ UNCHANGED <<sub, queue, chain, rpc>>

\* The simulation runs on the state the RPC has.  It also ends the call when it
\* cannot be answered or asks for a restoration.
Simulate(t) ==
    /\ built[t].at = "simulate"
    /\ \/ /\ Payable(t, rpc.liquid)
          /\ built' = [built EXCEPT ![t].at = "ready", ![t].quote = rpc.liquid]
       \/ built' = [built EXCEPT ![t].at = "refused"]
    /\ UNCHANGED <<sub, queue, chain, rpc>>

-----------------------------------------------------------------------------
(***************************************************************************)
(* submit                                                                  *)
(***************************************************************************)
SignAndSend(s, t) ==
    /\ sub[s].at = "idle" /\ built[t].at = "ready"
    /\ sub' = [sub EXCEPT ![s].at = "sign", ![s].tx = t]
    /\ UNCHANGED <<built, queue, chain, rpc>>

\* Faulty variant: a submission takes a sequence number of its own.
SignedSeqRenewed(t) == rpc.seq + 1
SignedSeq(t) == built[t].seq

Signed(s) ==
    /\ sub[s].at = "sign"
    /\ sub' = [sub EXCEPT ![s].at = "send", ![s].seq = SignedSeq(sub[s].tx)]
    /\ UNCHANGED <<built, queue, chain, rpc>>

Finish(s, outcome) == sub' = [sub EXCEPT ![s].at = "done", ![s].outcome = outcome]

SignerRefuses(s) ==
    /\ sub[s].at = "sign"
    /\ Finish(s, "unsigned")
    /\ UNCHANGED <<built, queue, chain, rpc>>

Envelope(s) == [tx |-> sub[s].tx, seq |-> sub[s].seq]

\* sendTransaction.  Only ERROR ends the submission: PENDING, DUPLICATE and
\* TRY_AGAIN_LATER are all polled for, the last of them for nothing.
SendPending(s) ==
    /\ sub[s].at = "send"
    /\ queue = {} /\ Valid(Envelope(s))
    /\ queue' = {Envelope(s)}
    /\ sub' = [sub EXCEPT ![s].at = "poll"]
    /\ UNCHANGED <<built, chain, rpc>>

SendDuplicateOrLater(s) ==
    /\ sub[s].at = "send"
    /\ sub' = [sub EXCEPT ![s].at = "poll"]
    /\ UNCHANGED <<built, queue, chain, rpc>>

SendError(s) ==
    /\ sub[s].at = "send" /\ Envelope(s) \notin queue
    /\ Finish(s, "ERROR")
    /\ UNCHANGED <<built, queue, chain, rpc>>

\* The request fails; the network may have the transaction nevertheless.
SendThrows(s) ==
    /\ sub[s].at = "send"
    /\ \/ queue' = queue
       \/ queue = {} /\ Valid(Envelope(s)) /\ queue' = {Envelope(s)}
    /\ Finish(s, "thrown")
    /\ UNCHANGED <<built, chain, rpc>>

-----------------------------------------------------------------------------
(***************************************************************************)
(* awaitConfirmation                                                       *)
(***************************************************************************)

MorePolls(polls) == polls < PollAttempts

\* Faulty variant: an attempt without an answer is not counted.
AttemptUncounted(polls) == polls
Attempt(polls) == polls + 1

\* Faulty variant: the value the simulation promised is returned.
ReturnedValueQuoted(r) == built[r.tx].quote
ReturnedValue(r) == r.value

Confirmed(s) ==
    /\ sub[s].at = "poll" /\ MorePolls(sub[s].polls)
    /\ \E r \in rpc.results :
          /\ r.tx = sub[s].tx /\ r.seq = sub[s].seq
          /\ sub' = [sub EXCEPT ![s].at = "done", ![s].outcome = r.status,
                                ![s].value = ReturnedValue(r)]
    /\ UNCHANGED <<built, queue, chain, rpc>>

NotFound(s) ==
    /\ sub[s].at = "poll" /\ MorePolls(sub[s].polls)
    /\ \A r \in rpc.results : r.tx # sub[s].tx \/ r.seq # sub[s].seq
    /\ sub' = [sub EXCEPT ![s].at = "sleep", ![s].polls = Attempt(@)]
    /\ UNCHANGED <<built, queue, chain, rpc>>

GiveUp(s) ==
    /\ sub[s].at = "poll" /\ ~MorePolls(sub[s].polls)
    /\ Finish(s, "NOT_FOUND")
    /\ UNCHANGED <<built, queue, chain, rpc>>

PollThrows(s) ==
    /\ sub[s].at = "poll" /\ MorePolls(sub[s].polls)
    /\ Finish(s, "thrown")
    /\ UNCHANGED <<built, queue, chain, rpc>>

-----------------------------------------------------------------------------
Answered(s) ==
    \/ SendPending(s) \/ SendDuplicateOrLater(s) \/ SendError(s) \/ SendThrows(s)
    \/ Confirmed(s) \/ NotFound(s) \/ GiveUp(s) \/ PollThrows(s)

Next ==
    \/ \E e \in queue : Apply(e) \/ Forget(e)
    \/ OthersAct \/ Ingest \/ Tick
    \/ \E t \in Txs : GetAccount(t) \/ Simulate(t)
    \/ \E s \in Submissions :
          \/ \E t \in Txs : SignAndSend(s, t)
          \/ Signed(s) \/ SignerRefuses(s) \/ Answered(s)

\* Time passes and every request is answered; nobody has to sign.
Spec == Init /\ [][Next]_vars /\ WF_vars(Tick) /\ \A s \in Submissions : WF_vars(Answered(s))

-----------------------------------------------------------------------------
(***************************************************************************)
(* Properties                                                              *)
(***************************************************************************)
Outcomes == {"none", "unsigned", "SUCCESS", "FAILED", "ERROR", "NOT_FOUND", "thrown"}
Results  == [tx : Txs, seq : Nat, value : 0 .. MaxLiquid, status : {"SUCCESS", "FAILED"}]
Chains   == [seq : Nat, liquid : 0 .. MaxLiquid, results : SUBSET Results]

\* No submission polls more often than pollAttempts, and liquidity stays a balance.
TypeOK ==
    /\ built \in [Txs -> [at : {"new", "simulate", "ready", "refused"}, seq : Nat,
                          ttl : -1 .. TimeToLive, quote : 0 .. MaxLiquid]]
    /\ sub \in [Submissions -> [at : {"idle", "sign", "send", "poll", "sleep", "done"},
                                tx : Txs, seq : Nat, polls : 0 .. PollAttempts,
                                outcome : Outcomes, value : 0 .. MaxLiquid]]
    /\ queue \subseteq [tx : Txs, seq : Nat]
    /\ chain \in Chains /\ rpc \in Chains

ResultOf(s) == {r \in chain.results : r.tx = sub[s].tx /\ r.seq = sub[s].seq}

\* What signAndSend reports of an executed transaction is what the ledger did: a
\* SUCCESS with the value the call returned there (not the one it was simulated
\* with, although others moved the vault in between), a FAILED without effect.
ReportsAreTrue ==
    \A s \in Submissions :
        sub[s].outcome \in {"SUCCESS", "FAILED"} =>
            \E r \in ResultOf(s) : r.status = sub[s].outcome /\ r.value = sub[s].value

\* A call takes effect at most once, however often its transaction is signed and
\* sent, and whichever of the sends the network lost, kept or answered late.
EffectAtMostOnce ==
    \A t \in Txs : Cardinality({r \in chain.results : r.tx = t /\ r.status = "SUCCESS"}) <= 1

\* Nothing of the submission can still change the account.
Settled(s) ==
    sub[s].at \in {"idle", "sign"} \/ sub[s].outcome \in {"unsigned", "SUCCESS", "FAILED"}

\* Calls made one after the other never get in each other's way: once every
\* earlier submission has been reported as executed, the next transaction is built
\* with the account's next sequence number, also when the RPC lags behind and when
\* transactions were built in between and never sent.
NextCallIsFresh ==
    [][ \A t \in Txs :
            /\ built[t].at = "new" /\ built'[t].at # "new"
            /\ \A s \in Submissions : Settled(s)
            => built'[t].seq = chain.seq + 1 ]_vars

\* A submission that was handed to the network returns, however long the network
\* keeps silent about it.
EverySubmissionReturns ==
    \A s \in Submissions : sub[s].at \in {"send", "poll", "sleep"} ~> sub[s].at = "done"

=============================================================================
