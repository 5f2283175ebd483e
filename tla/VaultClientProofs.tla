-------------------------- MODULE VaultClientProofs ---------------------------
(***************************************************************************)
(* Proofs about the client, for any number of calls, submissions, polls    *)
(* and whatever the network does: types, and the three safety properties.  *)
(* All of them come from the sequence number that every envelope of one    *)
(* transaction shares.                                                     *)
(***************************************************************************)
EXTENDS VaultClient, FiniteSetTheorems, TLAPS

-----------------------------------------------------------------------------
(***************************************************************************)
(* Types                                                                   *)
(***************************************************************************)
Builts == [at : {"new", "simulate", "ready", "refused"}, seq : Nat,
           ttl : -1 .. TimeToLive, quote : 0 .. MaxLiquid]
Subs   == [at : {"idle", "sign", "send", "poll", "sleep", "done"}, tx : Txs, seq : Nat,
           polls : 0 .. PollAttempts, outcome : Outcomes, value : 0 .. MaxLiquid]

LEMMA TypeInit == Init => TypeOK
<1> SUFFICES ASSUME Init PROVE TypeOK
  OBVIOUS
<1> USE RedemptionsAssumption, LimitsAssumption
<1>1. Unused \in Subs
  BY DEF Unused, Subs, Outcomes
<1>2. \A t \in Txs : built[t] \in Builts
  BY DEF Init, Builts
<1>3. chain \in Chains /\ rpc \in Chains
  BY DEF Init, Chains, Results
<1> QED
  BY <1>1, <1>2, <1>3 DEF Init, TypeOK, Builts, Subs

\* The end of a submission.
LEMMA FinishType ==
    ASSUME TypeOK, NEW s \in Submissions, NEW outcome \in Outcomes, Finish(s, outcome)
    PROVE  sub' \in [Submissions -> Subs]
BY DEF TypeOK, Finish, Subs

LEMMA TypeStep == TypeOK /\ [Next]_vars => TypeOK'
<1> SUFFICES ASSUME TypeOK, [Next]_vars PROVE TypeOK'
  OBVIOUS
<1> USE RedemptionsAssumption, LimitsAssumption
<1>0. /\ built \in [Txs -> Builts] /\ sub \in [Submissions -> Subs]
      /\ queue \subseteq [tx : Txs, seq : Nat] /\ chain \in Chains /\ rpc \in Chains
  BY DEF TypeOK, Builts, Subs
<1>q. ASSUME built' \in [Txs -> Builts], sub' \in [Submissions -> Subs],
             queue' \subseteq [tx : Txs, seq : Nat], chain' \in Chains, rpc' \in Chains
      PROVE  TypeOK'
  BY <1>q DEF TypeOK, Builts, Subs
<1>1. ASSUME NEW e \in queue, Apply(e)
      PROVE  TypeOK'
  <2>1. e.tx \in Txs /\ e.seq \in Nat
    BY <1>0
  <2>2. chain.liquid \in 0 .. MaxLiquid /\ chain.seq \in Nat
    BY <1>0 DEF Chains
  <2>3. Payable(e.tx, chain.liquid) => LiquidAfter(e.tx, chain.liquid) \in 0 .. MaxLiquid
    BY <2>2 DEF Payable, LiquidAfter
  <2>4. [tx |-> e.tx, seq |-> e.seq, value |-> chain.liquid,
         status |-> IF Payable(e.tx, chain.liquid) THEN "SUCCESS" ELSE "FAILED"] \in Results
    BY <2>1, <2>2 DEF Results
  <2>5. chain' \in Chains
    BY <1>0, <1>1, <2>2, <2>3, <2>4 DEF Apply, Chains
  <2> QED
    BY <1>0, <1>1, <1>q, <2>5 DEF Apply
<1>2. ASSUME NEW e \in queue, Forget(e)
      PROVE  TypeOK'
  BY <1>0, <1>2, <1>q DEF Forget
<1>3. CASE OthersAct
  BY <1>0, <1>3, <1>q DEF OthersAct, Chains
<1>4. CASE Ingest
  BY <1>0, <1>4, <1>q DEF Ingest
<1>5. CASE Tick
  <2>1. ASSUME NEW t \in Txs
        PROVE  [built[t] EXCEPT !.ttl = IF built[t].at # "new" /\ @ >= 0 THEN @ - 1 ELSE @]
                   \in Builts
    BY <1>0 DEF Builts
  <2>2. ASSUME NEW s \in Submissions
        PROVE  [sub[s] EXCEPT !.at = IF @ = "sleep" THEN "poll" ELSE @] \in Subs
    BY <1>0 DEF Subs
  <2> QED
    BY <1>0, <1>5, <1>q, <2>1, <2>2 DEF Tick
<1>6. ASSUME NEW t \in Txs, GetAccount(t) \/ Simulate(t)
      PROVE  TypeOK'
  <2>1. rpc.seq + 1 \in Nat /\ rpc.liquid \in 0 .. MaxLiquid
    BY <1>0 DEF Chains
  <2>2. built' \in [Txs -> Builts]
    BY <1>0, <1>6, <2>1 DEF GetAccount, Simulate, NextSeq, Builts
  <2> QED
    BY <1>0, <1>6, <1>q, <2>2 DEF GetAccount, Simulate
<1>7. ASSUME NEW s \in Submissions, NEW t \in Txs, SignAndSend(s, t)
      PROVE  TypeOK'
  <2>1. sub' \in [Submissions -> Subs]
    BY <1>0, <1>7 DEF SignAndSend, Subs
  <2> QED
    BY <1>0, <1>7, <1>q, <2>1 DEF SignAndSend
<1>8. ASSUME NEW s \in Submissions, Signed(s)
      PROVE  TypeOK'
  <2>1. SignedSeq(sub[s].tx) \in Nat
    BY <1>0 DEF SignedSeq, Builts, Subs
  <2>2. sub' \in [Submissions -> Subs]
    BY <1>0, <1>8, <2>1 DEF Signed, Subs
  <2> QED
    BY <1>0, <1>8, <1>q, <2>2 DEF Signed
<1>9. ASSUME NEW s \in Submissions,
             SignerRefuses(s) \/ SendError(s) \/ GiveUp(s) \/ PollThrows(s)
      PROVE  TypeOK'
  <2>1. sub' \in [Submissions -> Subs]
    BY <1>9, FinishType DEF SignerRefuses, SendError, GiveUp, PollThrows, Outcomes
  <2> QED
    BY <1>0, <1>9, <1>q, <2>1 DEF SignerRefuses, SendError, GiveUp, PollThrows
<1>10. ASSUME NEW s \in Submissions, SendPending(s) \/ SendDuplicateOrLater(s)
       PROVE  TypeOK'
  <2>1. sub' \in [Submissions -> Subs]
    BY <1>0, <1>10 DEF SendPending, SendDuplicateOrLater, Subs
  <2>2. Envelope(s) \in [tx : Txs, seq : Nat]
    BY <1>0 DEF Envelope, Subs
  <2> QED
    BY <1>0, <1>10, <1>q, <2>1, <2>2 DEF SendPending, SendDuplicateOrLater
<1>11. ASSUME NEW s \in Submissions, SendThrows(s)
       PROVE  TypeOK'
  <2>1. sub' \in [Submissions -> Subs]
    BY <1>11, FinishType DEF SendThrows, Outcomes
  <2>2. Envelope(s) \in [tx : Txs, seq : Nat]
    BY <1>0 DEF Envelope, Subs
  <2> QED
    BY <1>0, <1>11, <1>q, <2>1, <2>2 DEF SendThrows
<1>12. ASSUME NEW s \in Submissions, Confirmed(s)
       PROVE  TypeOK'
  <2>1. PICK r \in rpc.results :
            sub' = [sub EXCEPT ![s].at = "done", ![s].outcome = r.status, ![s].value = r.value]
    BY <1>12 DEF Confirmed, ReturnedValue
  <2>2. r \in Results
    BY <1>0 DEF Chains
  <2>3. r.status \in Outcomes /\ r.value \in 0 .. MaxLiquid
    BY <2>2 DEF Results, Outcomes
  <2>4. sub[s] \in Subs
    BY <1>0
  <2>5. [sub[s] EXCEPT !.at = "done", !.outcome = r.status, !.value = r.value] \in Subs
    BY <2>3, <2>4 DEF Subs
  <2>6. sub' \in [Submissions -> Subs]
    BY <1>0, <2>1, <2>5
  <2> QED
    BY <1>0, <1>12, <1>q, <2>6 DEF Confirmed
<1>13. ASSUME NEW s \in Submissions, NotFound(s)
       PROVE  TypeOK'
  <2>1. sub[s].polls + 1 \in 0 .. PollAttempts
    BY <1>0, <1>13 DEF NotFound, MorePolls, Subs
  <2>2. sub' \in [Submissions -> Subs]
    BY <1>0, <1>13, <2>1 DEF NotFound, Attempt, Subs
  <2> QED
    BY <1>0, <1>13, <1>q, <2>2 DEF NotFound
<1>14. CASE UNCHANGED vars
  BY <1>14 DEF vars, TypeOK
<1> QED
  BY <1>1, <1>2, <1>3, <1>4, <1>5, <1>6, <1>7, <1>8, <1>9, <1>10, <1>11, <1>12, <1>13,
     <1>14, Zenon DEF Next, Answered

\* No submission polls more often than it should, and no value leaves its type.
THEOREM ClientTypeCorrect == Spec => []TypeOK
BY TypeInit, TypeStep, PTL DEF Spec

-----------------------------------------------------------------------------
(***************************************************************************)
(* What a step may do, submission by submission and queue by queue         *)
(***************************************************************************)
Sent == {"poll", "sleep", "done"}

\* The ways of one submission.
Moved(s) ==
    \/ sub'[s] = sub[s]
    \/ /\ sub[s].at = "idle"
       /\ \E t \in Txs : built[t].at = "ready" /\ sub'[s] = [sub[s] EXCEPT !.at = "sign", !.tx = t]
    \/ /\ sub[s].at = "sign"
       /\ \/ sub'[s] = [sub[s] EXCEPT !.at = "send", !.seq = built[sub[s].tx].seq]
          \/ sub'[s] = [sub[s] EXCEPT !.at = "done", !.outcome = "unsigned"]
    \/ sub[s].at = "send" /\ sub'[s] = [sub[s] EXCEPT !.at = "poll"]
    \/ sub[s].at = "sleep" /\ sub'[s] = [sub[s] EXCEPT !.at = "poll"]
    \/ /\ sub[s].at = "poll"
       /\ \/ \E n \in Nat : sub'[s] = [sub[s] EXCEPT !.at = "sleep", !.polls = n]
          \/ \E r \in rpc.results :
                /\ r.tx = sub[s].tx /\ r.seq = sub[s].seq
                /\ sub'[s] = [sub[s] EXCEPT !.at = "done", !.outcome = r.status,
                                            !.value = r.value]
    \/ /\ sub[s].at \in {"send", "poll"}
       /\ \E outcome \in {"ERROR", "NOT_FOUND", "thrown"} :
              sub'[s] = [sub[s] EXCEPT !.at = "done", !.outcome = outcome]

\* What a step may add to the queue.
Queued ==
    \A e \in queue' : \/ e \in queue
                      \/ \E s \in Submissions : /\ sub[s].at = "send" /\ sub'[s].at \in Sent
                                                /\ sub'[s].outcome # "unsigned"
                                                /\ e = Envelope(s)

\* What a step may add to the ledger.
Advanced ==
    \/ chain'.seq = chain.seq /\ chain'.results = chain.results
    \/ \E e \in queue, v \in 0 .. MaxLiquid, status \in {"SUCCESS", "FAILED"} :
          /\ e.seq = chain.seq + 1
          /\ chain'.seq = chain.seq + 1
          /\ chain'.results = chain.results \cup
                 {[tx |-> e.tx, seq |-> e.seq, value |-> v, status |-> status]}

BuiltStays ==
    \A t \in Txs : built[t].at = "ready" => /\ built'[t].at = "ready"
                                            /\ built'[t].seq = built[t].seq

\* An open submission has no outcome, and it carries its transaction's number.
OpenSubmissions ==
    \A s \in Submissions :
        /\ sub[s].at # "done" => sub[s].outcome = "none"
        /\ sub[s].at # "idle" => built[sub[s].tx].at = "ready"
        /\ sub[s].at \in {"send", "poll", "sleep"} => sub[s].seq = built[sub[s].tx].seq

LEMMA SubmissionMoves ==
    ASSUME TypeOK, [Next]_vars, NEW s \in Submissions PROVE Moved(s)
<1>0. sub \in [Submissions -> Subs] /\ s \in Submissions
  BY DEF TypeOK, Subs
<1>1. ASSUME NEW e \in queue, Apply(e) \/ Forget(e)
      PROVE  Moved(s)
  BY <1>1 DEF Apply, Forget, Moved
<1>2. CASE OthersAct \/ Ingest
  BY <1>2 DEF OthersAct, Ingest, Moved
<1>3. CASE Tick
  <2>1. sub'[s] = [sub[s] EXCEPT !.at = IF @ = "sleep" THEN "poll" ELSE @]
    BY <1>3 DEF Tick
  <2>2. CASE sub[s].at = "sleep"
    BY <2>1, <2>2 DEF Moved
  <2>3. CASE sub[s].at # "sleep"
    BY <1>0, <2>1, <2>3 DEF Moved, Subs
  <2> QED
    BY <2>2, <2>3
<1>4. ASSUME NEW t \in Txs, GetAccount(t) \/ Simulate(t)
      PROVE  Moved(s)
  BY <1>4 DEF GetAccount, Simulate, Moved
<1>5. ASSUME NEW u \in Submissions, NEW t \in Txs, SignAndSend(u, t)
      PROVE  Moved(s)
  BY <1>0, <1>5 DEF SignAndSend, Moved
<1>6. ASSUME NEW u \in Submissions, Signed(u)
      PROVE  Moved(s)
  BY <1>0, <1>6 DEF Signed, SignedSeq, Moved
<1>7. ASSUME NEW u \in Submissions, SignerRefuses(u)
      PROVE  Moved(s)
  BY <1>0, <1>7 DEF SignerRefuses, Finish, Moved
<1>8. ASSUME NEW u \in Submissions, SendPending(u) \/ SendDuplicateOrLater(u)
      PROVE  Moved(s)
  BY <1>0, <1>8 DEF SendPending, SendDuplicateOrLater, Moved
<1>9. ASSUME NEW u \in Submissions,
             SendError(u) \/ SendThrows(u) \/ GiveUp(u) \/ PollThrows(u)
      PROVE  Moved(s)
  <2>1. sub[u].at \in {"send", "poll"}
    BY <1>9 DEF SendError, SendThrows, GiveUp, PollThrows
  <2>2. PICK outcome \in {"ERROR", "NOT_FOUND", "thrown"} : Finish(u, outcome)
    BY <1>9 DEF SendError, SendThrows, GiveUp, PollThrows
  <2>3. sub'[s] = IF s = u THEN [sub[s] EXCEPT !.at = "done", !.outcome = outcome] ELSE sub[s]
    BY <1>0, <2>2 DEF Finish
  <2> QED
    BY <2>1, <2>3 DEF Moved
<1>10. ASSUME NEW u \in Submissions, Confirmed(u)
       PROVE  Moved(s)
  <2>1. PICK r \in rpc.results :
            /\ r.tx = sub[u].tx /\ r.seq = sub[u].seq
            /\ sub' = [sub EXCEPT ![u].at = "done", ![u].outcome = r.status,
                                  ![u].value = r.value]
    BY <1>10 DEF Confirmed, ReturnedValue
  <2>2. sub'[s] = IF s = u THEN [sub[s] EXCEPT !.at = "done", !.outcome = r.status,
                                               !.value = r.value] ELSE sub[s]
    BY <1>0, <2>1
  <2>3. sub[u].at = "poll"
    BY <1>10 DEF Confirmed
  <2> QED
    BY <2>1, <2>2, <2>3 DEF Moved
<1>11. ASSUME NEW u \in Submissions, NotFound(u)
       PROVE  Moved(s)
  <2>1. sub[u].polls + 1 \in Nat
    BY <1>0 DEF Subs
  <2> QED
    BY <1>0, <1>11, <2>1 DEF NotFound, Attempt, Moved
<1>12. CASE UNCHANGED vars
  BY <1>12 DEF vars, Moved
<1> QED
  BY <1>1, <1>2, <1>3, <1>4, <1>5, <1>6, <1>7, <1>8, <1>9, <1>10, <1>11, <1>12,
     Zenon DEF Next, Answered

LEMMA TransactionsStay == ASSUME TypeOK, [Next]_vars PROVE BuiltStays
<1> SUFFICES ASSUME NEW t \in Txs, built[t].at = "ready"
             PROVE  built'[t].at = "ready" /\ built'[t].seq = built[t].seq
  BY DEF BuiltStays
<1>0. built \in [Txs -> Builts]
  BY DEF TypeOK, Builts
<1>1. CASE Tick
  BY <1>0, <1>1 DEF Tick, Builts
<1>2. ASSUME NEW u \in Txs, GetAccount(u) \/ Simulate(u)
      PROVE  built'[t].at = "ready" /\ built'[t].seq = built[t].seq
  <2>1. u # t
    BY <1>2 DEF GetAccount, Simulate
  <2> QED
    BY <1>0, <1>2, <2>1 DEF GetAccount, Simulate, Builts
<1>3. CASE UNCHANGED built
  BY <1>3
<1> QED
  BY <1>1, <1>2, <1>3
  DEF Next, vars, Answered, Apply, Forget, OthersAct, Ingest, SignAndSend, Signed,
      SignerRefuses, SendPending, SendDuplicateOrLater, SendError, SendThrows, Confirmed,
      NotFound, GiveUp, PollThrows

LEMMA QueueSteps == ASSUME TypeOK, [Next]_vars, OpenSubmissions PROVE Queued
<1>0. sub \in [Submissions -> Subs]
  BY DEF TypeOK, Subs
<1>1. CASE queue' \subseteq queue
  BY <1>1 DEF Queued
<1>2. ASSUME NEW s \in Submissions, SendPending(s)
      PROVE  Queued
  <2>1. sub'[s].at = "poll" /\ sub'[s].outcome = sub[s].outcome
    BY <1>0, <1>2 DEF SendPending, Subs
  <2> QED
    BY <1>2, <2>1 DEF SendPending, OpenSubmissions, Queued, Sent
<1>3. ASSUME NEW s \in Submissions, SendThrows(s)
      PROVE  Queued
  <2>1. sub'[s].at = "done" /\ sub'[s].outcome = "thrown"
    BY <1>0, <1>3 DEF SendThrows, Finish, Subs
  <2> QED
    BY <1>3, <2>1 DEF SendThrows, Queued, Sent
<1> QED
  BY <1>1, <1>2, <1>3
  DEF Next, vars, Answered, Apply, Forget, OthersAct, Ingest, Tick, GetAccount, Simulate,
      SignAndSend, Signed, SignerRefuses, SendDuplicateOrLater, SendError, Confirmed,
      NotFound, GiveUp, PollThrows

LEMMA ChainSteps == ASSUME TypeOK, [Next]_vars PROVE Advanced
<1>0. chain \in Chains
  BY DEF TypeOK
<1>1. ASSUME NEW e \in queue, Apply(e)
      PROVE  Advanced
  <2> DEFINE status == IF Payable(e.tx, chain.liquid) THEN "SUCCESS" ELSE "FAILED"
  <2>1. status \in {"SUCCESS", "FAILED"} /\ chain.liquid \in 0 .. MaxLiquid
    BY <1>0 DEF Chains
  <2>2. /\ e.seq = chain.seq + 1
        /\ chain'.seq = chain.seq + 1
        /\ chain'.results = chain.results \cup
               {[tx |-> e.tx, seq |-> e.seq, value |-> chain.liquid, status |-> status]}
    BY <1>1 DEF Apply, Valid
  <2> HIDE DEF status
  <2> QED
    BY <2>1, <2>2 DEF Advanced
<1>2. CASE OthersAct
  BY <1>0, <1>2 DEF OthersAct, Chains, Advanced
<1>3. CASE UNCHANGED chain
  BY <1>3 DEF Advanced
<1> QED
  BY <1>1, <1>2, <1>3
  DEF Next, vars, Answered, Forget, Ingest, Tick, GetAccount, Simulate, SignAndSend, Signed,
      SignerRefuses, SendPending, SendDuplicateOrLater, SendError, SendThrows, Confirmed,
      NotFound, GiveUp, PollThrows

LEMMA RpcSteps ==
    ASSUME [Next]_vars PROVE rpc' = rpc \/ (rpc' = chain /\ chain' = chain)
BY DEF Next, vars, Answered, Apply, Forget, OthersAct, Ingest, Tick, GetAccount, Simulate,
       SignAndSend, Signed, SignerRefuses, SendPending, SendDuplicateOrLater, SendError,
       SendThrows, Confirmed, NotFound, GiveUp, PollThrows

-----------------------------------------------------------------------------
(***************************************************************************)
(* The inductive invariant                                                 *)
(***************************************************************************)
\* Everything signed for a transaction carries its one sequence number.
OneNumberPerCall ==
    \A e \in queue \cup chain.results :
        built[e.tx].at = "ready" /\ e.seq = built[e.tx].seq

\* Every sequence number up to the account's has been used by one result, none beyond.
LedgerInOrder ==
    /\ \A r \in chain.results : r.seq <= chain.seq
    /\ \A q, r \in chain.results : q.seq = r.seq => q = r
    /\ chain.seq > 0 => \E r \in chain.results : r.seq = chain.seq

\* The RPC knows a past of the ledger, with every result up to its number.
RpcBehind ==
    /\ rpc.results \subseteq chain.results
    /\ rpc.seq <= chain.seq
    /\ \A r \in rpc.results : r.seq <= rpc.seq

\* Whatever the network has or had was sent by a submission.
SentBy(e) ==
    \E s \in Submissions : /\ sub[s].at \in Sent /\ sub[s].outcome # "unsigned"
                           /\ sub[s].tx = e.tx /\ sub[s].seq = e.seq
NothingForged == \A e \in queue \cup chain.results : SentBy(e)

\* What a submission reported of an executed transaction, the RPC has on record.
ReportedIsKnown ==
    \A s \in Submissions :
        sub[s].outcome \in {"SUCCESS", "FAILED"} =>
            \E r \in rpc.results : /\ r.tx = sub[s].tx /\ r.seq = sub[s].seq
                                   /\ r.status = sub[s].outcome /\ r.value = sub[s].value

CInv == /\ TypeOK /\ OpenSubmissions /\ OneNumberPerCall /\ LedgerInOrder
        /\ RpcBehind /\ NothingForged /\ ReportedIsKnown

LEMMA CInvInit == Init => CInv
<1> SUFFICES ASSUME Init PROVE CInv
  OBVIOUS
<1>1. TypeOK
  BY TypeInit
<1>2. \A s \in Submissions : sub[s].at = "idle" /\ sub[s].outcome = "none"
  BY DEF Init, Unused
<1>3. queue = {} /\ chain.results = {} /\ chain.seq = 0 /\ rpc = chain
  BY DEF Init
<1>4. OpenSubmissions /\ ReportedIsKnown
  BY <1>2 DEF OpenSubmissions, ReportedIsKnown
<1>5. OneNumberPerCall /\ LedgerInOrder /\ RpcBehind /\ NothingForged
  BY <1>3 DEF OneNumberPerCall, LedgerInOrder, RpcBehind, NothingForged
<1> QED
  BY <1>1, <1>4, <1>5 DEF CInv

LEMMA OpenStep == ASSUME CInv, [Next]_vars PROVE OpenSubmissions'
<1> SUFFICES ASSUME NEW s \in Submissions
             PROVE  /\ sub'[s].at # "done" => sub'[s].outcome = "none"
                    /\ sub'[s].at # "idle" => built'[sub'[s].tx].at = "ready"
                    /\ sub'[s].at \in {"send", "poll", "sleep"}
                           => sub'[s].seq = built'[sub'[s].tx].seq
  BY DEF OpenSubmissions
<1>1. Moved(s)
  BY SubmissionMoves DEF CInv
<1>2. BuiltStays
  BY TransactionsStay DEF CInv
<1>3. sub[s] \in Subs
  BY DEF CInv, TypeOK, Subs
<1>4. /\ sub[s].at # "done" => sub[s].outcome = "none"
      /\ sub[s].at # "idle" => built[sub[s].tx].at = "ready"
      /\ sub[s].at \in {"send", "poll", "sleep"} => sub[s].seq = built[sub[s].tx].seq
  BY DEF CInv, OpenSubmissions
<1> QED
  BY <1>1, <1>2, <1>3, <1>4 DEF Moved, BuiltStays, Subs

\* An origin stays an origin.
LEMMA OriginStays ==
    ASSUME CInv, [Next]_vars, NEW e, SentBy(e) PROVE SentBy(e)'
<1>1. PICK s \in Submissions : /\ sub[s].at \in Sent /\ sub[s].outcome # "unsigned"
                               /\ sub[s].tx = e.tx /\ sub[s].seq = e.seq
  BY DEF SentBy
<1>2. Moved(s)
  BY SubmissionMoves DEF CInv
<1>3. sub[s] \in Subs
  BY DEF CInv, TypeOK, Subs
<1>4. \A r \in rpc.results : r.status \in {"SUCCESS", "FAILED"}
  BY DEF CInv, TypeOK, Chains, Results
<1>5. sub'[s].tx = e.tx /\ sub'[s].seq = e.seq
  BY <1>1, <1>2, <1>3 DEF Moved, Subs, Sent
<1>6. sub'[s].at \in Sent /\ sub'[s].outcome # "unsigned"
  BY <1>1, <1>2, <1>3, <1>4 DEF Moved, Subs, Sent
<1> QED
  BY <1>5, <1>6 DEF SentBy

\* A new envelope or result has the number and the origin of the one it comes from.
LEMMA NetworkStep ==
    ASSUME CInv, [Next]_vars PROVE OneNumberPerCall' /\ NothingForged'
<1> DEFINE Good(e) == built'[e.tx].at = "ready" /\ e.seq = built'[e.tx].seq /\ SentBy(e)'
<1>1. ASSUME NEW e \in queue \cup chain.results
      PROVE  Good(e)
  <2>1. e.tx \in Txs /\ built[e.tx].at = "ready" /\ e.seq = built[e.tx].seq /\ SentBy(e)
    BY DEF CInv, TypeOK, Chains, Results, OneNumberPerCall, NothingForged
  <2>2. BuiltStays
    BY TransactionsStay DEF CInv
  <2> QED
    BY <2>1, <2>2, OriginStays DEF BuiltStays
<1>2. ASSUME NEW e \in queue'
      PROVE  Good(e)
  <2>1. CASE e \in queue
    BY <1>1, <2>1
  <2>2. CASE e \notin queue
    <3>1. PICK s \in Submissions : /\ sub[s].at = "send" /\ sub'[s].at \in Sent
                                   /\ sub'[s].outcome # "unsigned" /\ e = Envelope(s)
      BY <2>2, QueueSteps DEF CInv, Queued
    <3>2. sub[s] \in Subs
      BY DEF CInv, TypeOK, Subs
    <3>3. e.tx = sub[s].tx /\ e.seq = sub[s].seq
      BY <3>1 DEF Envelope
    <3>4. Moved(s)
      BY SubmissionMoves DEF CInv
    <3>5. sub'[s].tx = sub[s].tx /\ sub'[s].seq = sub[s].seq
      BY <3>1, <3>2, <3>4 DEF Moved, Subs
    <3>6. built[e.tx].at = "ready" /\ e.seq = built[e.tx].seq /\ e.tx \in Txs
      BY <3>1, <3>2, <3>3 DEF CInv, OpenSubmissions, Subs
    <3>7. BuiltStays
      BY TransactionsStay DEF CInv
    <3>8. SentBy(e)'
      BY <3>1, <3>3, <3>5 DEF SentBy
    <3> QED
      BY <3>6, <3>7, <3>8 DEF BuiltStays
  <2> QED
    BY <2>1, <2>2
<1>3. ASSUME NEW r \in chain'.results
      PROVE  Good(r)
  <2>1. CASE r \in chain.results
    BY <1>1, <2>1
  <2>2. CASE r \notin chain.results
    <3>1. PICK e \in queue : r.tx = e.tx /\ r.seq = e.seq
      BY <2>2, ChainSteps DEF CInv, Advanced
    <3>2. Good(e)
      BY <1>1
    <3> QED
      BY <3>1, <3>2 DEF SentBy
  <2> QED
    BY <2>1, <2>2
<1> HIDE DEF Good
<1>4. \A e \in (queue \cup chain.results)' : Good(e)
  BY <1>2, <1>3
<1> USE DEF Good
<1> QED
  BY <1>4, Zenon DEF OneNumberPerCall, NothingForged

LEMMA LedgerStep == ASSUME CInv, [Next]_vars PROVE LedgerInOrder'
<1>0. /\ chain.seq \in Nat /\ \A r \in chain.results : r.seq \in Nat
      /\ LedgerInOrder
  BY DEF CInv, TypeOK, Chains, Results
<1>1. CASE chain'.seq = chain.seq /\ chain'.results = chain.results
  BY <1>0, <1>1 DEF LedgerInOrder
<1>2. ASSUME NEW e \in queue, NEW v \in 0 .. MaxLiquid, NEW status \in {"SUCCESS", "FAILED"},
             e.seq = chain.seq + 1, chain'.seq = chain.seq + 1,
             chain'.results = chain.results \cup
                 {[tx |-> e.tx, seq |-> e.seq, value |-> v, status |-> status]}
      PROVE  LedgerInOrder'
  <2> DEFINE new == [tx |-> e.tx, seq |-> e.seq, value |-> v, status |-> status]
  <2>1. new.seq = chain.seq + 1
    BY <1>2
  <2>2. chain'.results = chain.results \cup {new}
    BY <1>2
  <2> HIDE DEF new
  <2> QED
    BY <1>0, <1>2, <2>1, <2>2 DEF LedgerInOrder
<1> QED
  BY <1>1, <1>2, ChainSteps DEF CInv, Advanced

LEMMA ResultsStay ==
    ASSUME CInv, [Next]_vars
    PROVE  chain.results \subseteq chain'.results /\ rpc.results \subseteq rpc'.results
<1>1. chain.results \subseteq chain'.results
  BY ChainSteps DEF CInv, Advanced
<1> QED
  BY <1>1, RpcSteps DEF CInv, RpcBehind

LEMMA RpcStep == ASSUME CInv, [Next]_vars PROVE RpcBehind'
<1>1. /\ chain.seq \in Nat /\ rpc.seq \in Nat /\ RpcBehind /\ LedgerInOrder
  BY DEF CInv, TypeOK, Chains
<1>2. chain'.seq \in Nat /\ chain'.seq >= chain.seq
  BY <1>1, ChainSteps DEF CInv, Advanced
<1>3. CASE rpc' = rpc
  BY <1>1, <1>2, <1>3, ResultsStay DEF RpcBehind
<1>4. CASE rpc' = chain /\ chain' = chain
  BY <1>1, <1>4 DEF RpcBehind, LedgerInOrder
<1> QED
  BY <1>3, <1>4, RpcSteps

LEMMA ReportedStep == ASSUME CInv, [Next]_vars PROVE ReportedIsKnown'
<1> SUFFICES ASSUME NEW s \in Submissions, sub'[s].outcome \in {"SUCCESS", "FAILED"}
             PROVE  \E r \in rpc.results :
                        /\ r.tx = sub'[s].tx /\ r.seq = sub'[s].seq
                        /\ r.status = sub'[s].outcome /\ r.value = sub'[s].value
  BY ResultsStay DEF ReportedIsKnown
<1>1. Moved(s)
  BY SubmissionMoves DEF CInv
<1>2. sub[s] \in Subs
  BY DEF CInv, TypeOK, Subs
<1>3. CASE sub'[s] = sub[s]
  BY <1>3 DEF CInv, ReportedIsKnown
<1>4. CASE sub'[s] # sub[s] /\ sub[s].at # "done"
  <2>1. sub[s].outcome = "none"
    BY <1>4 DEF CInv, OpenSubmissions
  <2>2. PICK r \in rpc.results :
            /\ r.tx = sub[s].tx /\ r.seq = sub[s].seq
            /\ sub'[s] = [sub[s] EXCEPT !.at = "done", !.outcome = r.status, !.value = r.value]
    BY <1>1, <1>2, <1>4, <2>1 DEF Moved, Subs
  <2> QED
    BY <1>2, <2>2 DEF Subs
<1>5. sub'[s] # sub[s] => sub[s].at # "done"
  BY <1>1, <1>2 DEF Moved
<1> QED
  BY <1>3, <1>4, <1>5

LEMMA CInvStep == CInv /\ [Next]_vars => CInv'
BY TypeStep, OpenStep, NetworkStep, LedgerStep, RpcStep, ReportedStep DEF CInv

LEMMA CInvHolds == Spec => []CInv
BY CInvInit, CInvStep, PTL DEF Spec

-----------------------------------------------------------------------------
(***************************************************************************)
(* The properties                                                          *)
(***************************************************************************)

\* signAndSend reports as executed what the ledger has executed, with its value.
THEOREM ClientReportsAreTrue == Spec => []ReportsAreTrue
<1>1. CInv => ReportsAreTrue
  BY Zenon DEF CInv, ReportedIsKnown, RpcBehind, ReportsAreTrue, ResultOf
<1> QED
  BY <1>1, CInvHolds, PTL

\* Two executions of one call would have the same number, which the ledger uses once.
LEMMA OneEffect == CInv => EffectAtMostOnce
<1> SUFFICES ASSUME CInv, NEW t \in Txs
             PROVE  Cardinality({r \in chain.results : r.tx = t /\ r.status = "SUCCESS"}) <= 1
  BY DEF EffectAtMostOnce
<1> DEFINE effects == {r \in chain.results : r.tx = t /\ r.status = "SUCCESS"}
<1>1. \A q, r \in effects : q = r
  BY DEF CInv, OneNumberPerCall, LedgerInOrder
<1>2. CASE effects = {}
  BY <1>2, FS_EmptySet
<1>3. ASSUME NEW r \in effects
      PROVE  Cardinality(effects) <= 1
  <2>1. effects = {r}
    BY <1>1
  <2>2. Cardinality({r}) = 1
    BY FS_Singleton
  <2>3. Cardinality(effects) = 1
    BY <2>1, <2>2, Zenon
  <2> HIDE DEF effects
  <2> QED
    BY <2>3
<1> QED
  BY <1>2, <1>3

\* However often a call is signed and sent, it takes effect at most once.
THEOREM ClientEffectAtMostOnce == Spec => []EffectAtMostOnce
BY CInvHolds, OneEffect, PTL

\* Once all is settled the RPC has caught up with the account's own transactions.
LEMMA SettledMeansCaughtUp ==
    ASSUME CInv, \A s \in Submissions : Settled(s) PROVE rpc.seq = chain.seq
<1>0. chain.seq \in Nat /\ rpc.seq \in Nat /\ rpc.seq <= chain.seq
  BY DEF CInv, TypeOK, Chains, RpcBehind
<1>1. CASE chain.seq = 0
  BY <1>0, <1>1
<1>2. CASE chain.seq > 0
  <2>1. PICK r \in chain.results : r.seq = chain.seq
    BY <1>2 DEF CInv, LedgerInOrder
  <2>2. PICK s \in Submissions : /\ sub[s].at \in Sent /\ sub[s].outcome # "unsigned"
                                 /\ sub[s].tx = r.tx /\ sub[s].seq = r.seq
    BY DEF CInv, NothingForged, SentBy
  <2>3. sub[s].outcome \in {"SUCCESS", "FAILED"}
    BY <2>2 DEF Settled, Sent
  <2>4. PICK q \in rpc.results : q.seq = sub[s].seq
    BY <2>3 DEF CInv, ReportedIsKnown
  <2>5. q.seq <= rpc.seq
    BY DEF CInv, RpcBehind
  <2> QED
    BY <1>0, <2>1, <2>2, <2>4, <2>5
<1> QED
  BY <1>0, <1>1, <1>2

LEMMA FreshStep ==
    ASSUME CInv, [Next]_vars, NEW t \in Txs, built[t].at = "new", built'[t].at # "new",
           \A s \in Submissions : Settled(s)
    PROVE  built'[t].seq = chain.seq + 1
<1>0. built \in [Txs -> Builts]
  BY DEF CInv, TypeOK, Builts
<1>1. GetAccount(t)
  <2>1. CASE Tick
    BY <1>0, <2>1 DEF Tick, Builts
  <2>2. ASSUME NEW u \in Txs, GetAccount(u) \/ Simulate(u), u # t
        PROVE  FALSE
    BY <1>0, <2>2 DEF GetAccount, Simulate
  <2>3. ~Simulate(t)
    BY DEF Simulate
  <2>4. CASE UNCHANGED built
    BY <2>4
  <2> QED
    BY <2>1, <2>2, <2>3, <2>4
    DEF Next, vars, Answered, Apply, Forget, OthersAct, Ingest, SignAndSend, Signed,
        SignerRefuses, SendPending, SendDuplicateOrLater, SendError, SendThrows, Confirmed,
        NotFound, GiveUp, PollThrows
<1>2. built'[t].seq = rpc.seq + 1
  BY <1>0, <1>1 DEF GetAccount, NextSeq, Builts
<1> QED
  BY <1>2, SettledMeansCaughtUp

\* After everything earlier was reported as executed, the next transaction is built
\* with the account's next sequence number, however far the RPC may lag.
THEOREM ClientNextCallIsFresh == Spec => NextCallIsFresh
<1>1. CInv /\ [Next]_vars
      => [ \A t \in Txs :
            /\ built[t].at = "new" /\ built'[t].at # "new"
            /\ \A s \in Submissions : Settled(s)
            => built'[t].seq = chain.seq + 1 ]_vars
  BY FreshStep
<1> QED
  BY <1>1, CInvHolds, PTL DEF Spec, NextCallIsFresh

=============================================================================
