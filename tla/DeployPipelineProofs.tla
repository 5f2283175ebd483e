------------------------- MODULE DeployPipelineProofs -------------------------
(***************************************************************************)
(* Proofs about the deployment script, for any keys, settings and number   *)
(* of failures: the file it writes names a vault of its own, and the key   *)
(* of a funded account is on disk.  Each invariant is strengthened by what *)
(* the running script knows at the step it has reached.                    *)
(***************************************************************************)
EXTENDS DeployPipeline, TLAPS

Scripts   == [at : Steps, key : Keys \cup {NoKey}, admin : Keys \cup Overrides,
              settings : {"good", "bad asset", "bad metadata"}, contract : Nat]
Instances == [admin : Keys \cup Overrides \cup {Stranger}, used : BOOLEAN]
Txs       == [op : DOMAIN Waiting, key : Keys, contract : Nat, admin : Keys \cup Overrides,
              awaited : BOOLEAN]

-----------------------------------------------------------------------------
(***************************************************************************)
(* Types                                                                   *)
(***************************************************************************)

\* The steps a script takes once it has a deployer.
WithDeployer == Steps \ {"stopped", "deployer"}

\* Types are not inductive by themselves: what is funded and what is sent is on
\* behalf of the script's deployer.
TInv ==
    /\ TypeOK
    /\ script.at \in WithDeployer => script.key \in Keys /\ script.admin # NoKey

LEMMA TypeInit == Init => TInv
BY KeysAssumption, InjectedAssumption, OverridesAssumption
   DEF Init, TInv, TypeOK, NoRecord, Stopped, NotFound, Steps, WithDeployer

\* What is left of a run that ends.
LEMMA StopTypes ==
    ASSUME TInv, Stop
    PROVE  /\ script' = Stopped /\ answer' = NotFound /\ sent' \subseteq Txs
           /\ script' \in Scripts /\ script'.at \notin WithDeployer
           /\ answer' \in [status : {"NOT_FOUND", "SUCCESS", "FAILED"}, contract : Nat]
<1>1. script' = Stopped /\ answer' = NotFound
  BY DEF Stop
<1>2. ASSUME NEW s \in sent'
      PROVE  s \in Txs
  <2>1. PICK t \in sent : s = [t EXCEPT !.awaited = FALSE]
    BY Zenon DEF Stop
  <2>2. t \in Txs
    BY DEF TInv, TypeOK, Txs
  <2> QED
    BY <2>1, <2>2 DEF Txs
<1> QED
  BY <1>1, <1>2, OverridesAssumption DEF Scripts, Stopped, NotFound, Steps, WithDeployer

\* The operations, and the steps at which they are awaited and left.
LEMMA Operations ==
    /\ DOMAIN Waiting = {"upload", "create", "initialize"}
    /\ DOMAIN Onwards = {"uploading", "creating", "initializing"}
    /\ Waiting["upload"] = "uploading" /\ Onwards["uploading"] = "create"
    /\ Waiting["create"] = "creating" /\ Onwards["creating"] = "check fresh"
    /\ Waiting["initialize"] = "initializing" /\ Onwards["initializing"] = "verify"
BY DEF Waiting, Onwards

\* Changing an instance changes no other.
LEMMA InstanceChanged ==
    ASSUME NEW s \in Seq(Instances), NEW c, NEW x, c \in DOMAIN s => x \in Instances
    PROVE  LET r == [s EXCEPT ![c] = x] IN
           /\ r \in Seq(Instances) /\ DOMAIN r = DOMAIN s
           /\ \A i \in DOMAIN s : r[i] = IF i = c THEN x ELSE s[i]
<1>1. CASE c \in DOMAIN s
  <2>1. [s EXCEPT ![c] = x] \in Seq(Instances)
    BY <1>1
  <2> QED
    BY <1>1, <2>1
<1>2. CASE c \notin DOMAIN s
  <2>1. [s EXCEPT ![c] = x] = s
    BY <1>2
  <2> QED
    BY <1>2, <2>1
<1> QED
  BY <1>1, <1>2

LEMMA TypeStep == TInv /\ [Next]_vars => TInv'
<1> SUFFICES ASSUME TInv, [Next]_vars PROVE TInv'
  OBVIOUS
<1> USE KeysAssumption, InjectedAssumption, OverridesAssumption
<1>a. NoRecord \in [contract : Nat, admin : Keys \cup Overrides]
  BY DEF NoRecord
<1>1. CASE Start
  <2>1. PICK admin \in Overrides, settings \in {"good", "bad asset", "bad metadata"} :
            script' = [Stopped EXCEPT !.at = "deployer", !.admin = admin,
                                      !.settings = settings]
    BY <1>1 DEF Start
  <2>2. script' \in Scripts /\ script'.at = "deployer"
    BY <2>1 DEF Stopped, Scripts, Steps
  <2> QED
    BY <1>1, <2>2 DEF TInv, TypeOK, Scripts, Start, network, disk, WithDeployer
<1>2. CASE Interrupted
  <2>1. Stop
    BY <1>2 DEF Interrupted
  <2> QED
    BY <1>2, <2>1, StopTypes DEF TInv, TypeOK, Interrupted, disk, Txs, Scripts
<1>3. CASE LoadDeployer
  <2>1. ASSUME NEW key \in Keys, NEW step \in {"fund", "save key"}, Deployer(key, step)
        PROVE  script' \in Scripts /\ script'.key \in Keys /\ script'.admin # NoKey
    BY <2>1 DEF Deployer, AdminFor, TInv, TypeOK, Scripts, Steps
  <2>2. CASE Stop /\ UNCHANGED keyFile
    BY <1>3, <2>2, StopTypes DEF TInv, TypeOK, LoadDeployer, Txs, Scripts
  <2>3. CASE \E key \in Keys, step \in {"fund", "save key"} :
                 /\ Deployer(key, step)
                 /\ keyFile' \in {keyFile, Torn} /\ UNCHANGED <<answer, sent>>
    BY <1>3, <2>1, <2>3 DEF TInv, TypeOK, LoadDeployer, Scripts
  <2> QED
    BY <1>3, <2>2, <2>3 DEF LoadDeployer, AfterGenerating
<1>4. CASE SaveKey
  BY <1>4 DEF TInv, TypeOK, SaveKey, Goto, network, Steps, WithDeployer
<1>5. CASE EnsureFunded
  BY <1>5 DEF TInv, TypeOK, EnsureFunded, Goto, disk, Steps, WithDeployer
<1>6. CASE AwaitFunding
  BY <1>6, StopTypes DEF TInv, TypeOK, AwaitFunding, Goto, disk, Steps, Scripts, Txs, WithDeployer
<1>7. CASE ResolveAsset
  BY <1>7, StopTypes DEF TInv, TypeOK, ResolveAsset, Goto, disk, Steps, Scripts, Txs, WithDeployer
<1>8. ASSUME NEW op \in DOMAIN Waiting, Submit(op)
      PROVE  TInv'
  <2>1. CASE Stop
    BY <1>8, <2>1, StopTypes DEF TInv, TypeOK, Submit, disk, Scripts, Txs
  <2>2. CASE ~Stop
    <3>1. script.at \in WithDeployer /\ Waiting[op] \in WithDeployer
      BY <1>8, Operations DEF Submit, Steps, WithDeployer
    <3>2. /\ script' = [script EXCEPT !.at = Waiting[op]]
          /\ sent' = sent \cup {[op |-> op, key |-> script.key, contract |-> script.contract,
                                 admin |-> script.admin, awaited |-> TRUE]}
          /\ answer' = NotFound
      BY <1>8, <2>2 DEF Submit, Goto
    <3>3. sent' \subseteq Txs
      <4>1. [op |-> op, key |-> script.key, contract |-> script.contract,
             admin |-> script.admin, awaited |-> TRUE] \in Txs
        BY <3>1 DEF TInv, TypeOK, Txs
      <4>2. sent \subseteq Txs
        BY DEF TInv, TypeOK, Txs
      <4> QED
        BY <3>2, <4>1, <4>2
    <3>4. script' \in Scripts /\ script'.key \in Keys /\ script'.admin # NoKey
      BY <3>1, <3>2 DEF TInv, TypeOK, Scripts, WithDeployer
    <3> QED
      BY <1>8, <3>2, <3>3, <3>4 DEF TInv, TypeOK, Submit, disk, Scripts, Txs, NotFound
  <2> QED
    BY <2>1, <2>2
<1>9. CASE AwaitConfirmation
  <2>1. CASE Stop
    BY <1>9, <2>1, StopTypes DEF TInv, TypeOK, AwaitConfirmation, disk, Scripts, Txs
  <2>2. CASE ~Stop
    <3>1. script.at \in WithDeployer /\ Onwards[script.at] \in WithDeployer
      BY <1>9, Operations DEF AwaitConfirmation, Steps, WithDeployer
    <3>2. /\ script' = [script EXCEPT
                           !.at = Onwards[@],
                           !.contract = IF script.at = "creating" THEN answer.contract ELSE @]
          /\ UNCHANGED <<answer, sent>>
      BY <1>9, <2>2 DEF AwaitConfirmation
    <3>3. script' \in Scripts /\ script'.key \in Keys /\ script'.admin # NoKey
      BY <3>1, <3>2 DEF TInv, TypeOK, Scripts, WithDeployer
    <3> QED
      BY <1>9, <3>2, <3>3 DEF TInv, TypeOK, AwaitConfirmation, disk, Scripts
  <2> QED
    BY <2>1, <2>2
<1>10. CASE CheckFresh
  BY <1>10, StopTypes DEF TInv, TypeOK, CheckFresh, Goto, disk, Steps, Scripts, Txs, WithDeployer
<1>11. CASE Verify
  BY <1>11, StopTypes DEF TInv, TypeOK, Verify, Goto, disk, Steps, Scripts, Txs, WithDeployer
<1>12. CASE OpenRecord
  BY <1>12, <1>a DEF TInv, TypeOK, OpenRecord, Goto, network, Steps, WithDeployer
<1>13. CASE WriteRecord
  BY <1>13, StopTypes DEF TInv, TypeOK, WriteRecord, Scripts, Txs
<1>14. ASSUME NEW t \in sent, Execute(t)
       PROVE  TInv'
  <2>1. t \in Txs /\ contracts \in Seq(Instances)
    BY DEF TInv, TypeOK, Txs, Instances
  <2>2. contracts' \in Seq(Instances)
    <3>1. CASE t.op = "create"
      <4>1. contracts' = Append(contracts, [admin |-> NoKey, used |-> FALSE])
        BY <1>14, <3>1 DEF Execute
      <4>2. [admin |-> NoKey, used |-> FALSE] \in Instances
        BY DEF Instances
      <4> QED
        BY <2>1, <4>1, <4>2
    <3>2. CASE t.op # "create" /\ contracts' = [contracts EXCEPT ![t.contract].admin = t.admin]
      <4>1. ASSUME t.contract \in DOMAIN contracts
            PROVE  [contracts[t.contract] EXCEPT !.admin = t.admin] \in Instances
        <5>1. contracts[t.contract] \in Instances
          BY <2>1, <4>1
        <5> QED
          BY <2>1, <5>1 DEF Txs, Instances
      <4> DEFINE x == [contracts[t.contract] EXCEPT !.admin = t.admin]
      <4>2. contracts' = [contracts EXCEPT ![t.contract] = x]
        BY <3>2
      <4> HIDE DEF x
      <4> QED
        BY <2>1, <4>1, <4>2, InstanceChanged DEF x
    <3>3. CASE contracts' = contracts
      BY <2>1, <3>3
    <3> QED
      BY <1>14, <3>1, <3>2, <3>3 DEF Execute
  <2>3. sent' \subseteq sent
    BY <1>14 DEF Execute
  <2>4. answer' \in [status : {"NOT_FOUND", "SUCCESS", "FAILED"}, contract : Nat]
    <3>1. Len(contracts') \in Nat
      BY <2>2
    <3> QED
      BY <1>14, <3>1 DEF Execute, TInv, TypeOK
  <2> QED
    BY <1>14, <2>2, <2>3, <2>4 DEF TInv, TypeOK, Execute, disk, Instances
<1>15. ASSUME NEW t \in sent, Expire(t)
       PROVE  TInv'
  BY <1>15 DEF TInv, TypeOK, Expire, disk
<1>16. ASSUME NEW k \in promised, FundingLands(k) \/ FundingFails(k)
       PROVE  TInv'
  BY <1>16 DEF TInv, TypeOK, FundingLands, FundingFails, disk
<1>17. ASSUME NEW c \in DOMAIN contracts, OthersAct(c)
       PROVE  TInv'
  <2>1. contracts \in Seq(Instances)
    BY DEF TInv, TypeOK, Instances
  <2>2. /\ [contracts[c] EXCEPT !.admin = Stranger] \in Instances
        /\ [contracts[c] EXCEPT !.used = TRUE] \in Instances
    <3>1. contracts[c] \in Instances
      BY <2>1
    <3> QED
      BY <3>1 DEF Instances
  <2>3. contracts' \in Seq(Instances)
    <3>1. \/ contracts' = [contracts EXCEPT ![c] = [contracts[c] EXCEPT !.admin = Stranger]]
          \/ contracts' = [contracts EXCEPT ![c] = [contracts[c] EXCEPT !.used = TRUE]]
      BY <1>17 DEF OthersAct
    <3>2. CASE contracts' = [contracts EXCEPT ![c] = [contracts[c] EXCEPT !.admin = Stranger]]
      BY <2>1, <2>2, <3>2, InstanceChanged
    <3>3. CASE contracts' = [contracts EXCEPT ![c] = [contracts[c] EXCEPT !.used = TRUE]]
      BY <2>1, <2>2, <3>3, InstanceChanged
    <3> QED
      BY <3>1, <3>2, <3>3
  <2> QED
    BY <1>17, <2>3 DEF TInv, TypeOK, OthersAct, disk, Instances
<1>18. CASE UNCHANGED vars
  BY <1>18 DEF TInv, TypeOK, vars, disk, network
<1> QED
  BY <1>1, <1>2, <1>3, <1>4, <1>5, <1>6, <1>7, <1>8, <1>9, <1>10, <1>11, <1>12, <1>13,
     <1>14, <1>15, <1>16, <1>17, <1>18, Zenon DEF Next, Main

LEMMA TypesHold == Spec => []TInv
BY TypeInit, TypeStep, PTL DEF Spec

\* Whatever fails, the script, its files and the network stay within their types.
THEOREM DeployTypeCorrect == Spec => []TypeOK
<1>1. TInv => TypeOK
  BY DEF TInv
<1> QED
  BY <1>1, TypesHold, PTL

-----------------------------------------------------------------------------
(***************************************************************************)
(* The key                                                                 *)
(***************************************************************************)

\* While a script runs the key file holds its key, but for the time it is written.
KeyInv ==
    /\ script.at = "save key" => keyFile = Torn
    /\ script.at \in WithDeployer \ {"save key"} =>
           script.key = Injected \/ script.key = keyFile
    /\ FundedKeyIsKept

LEMMA KeyInit == Init => KeyInv
BY DEF Init, KeyInv, FundedKeyIsKept, Stopped, WithDeployer

LEMMA KeyStep == TInv /\ KeyInv /\ [Next]_vars => KeyInv'
<1> SUFFICES ASSUME TInv, KeyInv, [Next]_vars PROVE KeyInv'
  OBVIOUS
<1> USE KeysAssumption, InjectedAssumption DEF KeyInv, FundedKeyIsKept
<1>0. accounts \cup promised \subseteq Keys
  BY DEF TInv, TypeOK
<1>s. ASSUME Stop, UNCHANGED <<keyFile, accounts, promised>>
      PROVE  KeyInv'
  BY <1>s, StopTypes DEF WithDeployer, Steps, Stopped
<1>1. CASE Start
  BY <1>1 DEF Start, network, disk, Stopped, WithDeployer
<1>2. CASE Interrupted
  BY <1>2, <1>s DEF Interrupted, disk
<1>3. CASE LoadDeployer
  <2>1. CASE Injected # NoKey
    <3>1. script' = [script EXCEPT !.at = "fund", !.key = Injected, !.admin = AdminFor(Injected)]
      BY <1>3, <2>1 DEF LoadDeployer, Deployer
    <3>2. script'.at = "fund" /\ script'.key = Injected
      BY <3>1 DEF TInv, TypeOK
    <3> QED
      BY <1>3, <2>1, <3>2 DEF LoadDeployer
  <2>2. CASE Injected = NoKey /\ keyFile \in Keys
    <3>1. script' = [script EXCEPT !.at = "fund", !.key = keyFile, !.admin = AdminFor(keyFile)]
      BY <1>3, <2>2 DEF LoadDeployer, Deployer
    <3>2. script'.at = "fund" /\ script'.key = keyFile
      BY <3>1 DEF TInv, TypeOK
    <3> QED
      BY <1>3, <2>2, <3>2 DEF LoadDeployer
  <2>3. CASE Injected = NoKey /\ keyFile = Torn
    BY <1>3, <2>3, <1>s DEF LoadDeployer
  <2>4. CASE Injected = NoKey /\ keyFile = NoKey
    <3>1. PICK key \in Keys :
              script' = [script EXCEPT !.at = "save key", !.key = key, !.admin = AdminFor(key)]
      BY <1>3, <2>4 DEF LoadDeployer, Deployer, AfterGenerating
    <3>2. script'.at = "save key"
      BY <3>1 DEF TInv, TypeOK
    <3>3. keyFile' = Torn /\ UNCHANGED <<accounts, promised>>
      BY <1>3, <2>4 DEF LoadDeployer
    <3>4. accounts \cup promised = {}
      BY <1>0, <2>4
    <3> QED
      BY <3>2, <3>3, <3>4
  <2> QED
    BY <2>1, <2>2, <2>3, <2>4 DEF TInv, TypeOK
<1>4. CASE SaveKey
  <2>1. /\ script.at = "save key" /\ keyFile = Torn /\ keyFile' = script.key
        /\ script' = [script EXCEPT !.at = "fund"]
        /\ UNCHANGED <<accounts, promised>>
    BY <1>4 DEF SaveKey, Goto, network
  <2>2. script'.at = "fund" /\ script'.key = script.key
    BY <2>1 DEF TInv, TypeOK
  <2> QED
    BY <1>0, <2>1, <2>2
<1>5. CASE EnsureFunded
  <2>1. /\ script.at = "fund"
        /\ script' = [script EXCEPT !.at = "asset"] \/ script' = [script EXCEPT !.at = "funding"]
        /\ accounts' \cup promised' \subseteq accounts \cup promised \cup {script.key}
        /\ UNCHANGED keyFile
    BY <1>5 DEF EnsureFunded, Goto, disk
  <2>2. script'.at \in {"asset", "funding"} /\ script'.key = script.key
    BY <2>1 DEF TInv, TypeOK
  <2>3. script.key = Injected \/ script.key = keyFile
    BY <2>1 DEF WithDeployer, Steps
  <2> QED
    BY <2>1, <2>2, <2>3
<1>6. ASSUME script.at \in WithDeployer \ {"save key"},
             script'.at \in WithDeployer \ {"save key"}, script'.key = script.key,
             UNCHANGED <<keyFile, accounts, promised>>
      PROVE  KeyInv'
  BY <1>6
<1>7. CASE AwaitFunding
  BY <1>7, <1>6, <1>s DEF AwaitFunding, Goto, disk, TInv, TypeOK, WithDeployer, Steps
<1>8. CASE ResolveAsset
  BY <1>8, <1>6, <1>s DEF ResolveAsset, Goto, disk, TInv, TypeOK, WithDeployer, Steps
<1>9. ASSUME NEW op \in DOMAIN Waiting, Submit(op)
      PROVE  KeyInv'
  <2>1. script.at \in WithDeployer \ {"save key"} /\ Waiting[op] \in WithDeployer \ {"save key"}
    BY <1>9, Operations DEF Submit, WithDeployer, Steps
  <2> QED
    BY <1>9, <2>1, <1>6, <1>s DEF Submit, Goto, disk, TInv, TypeOK
<1>10. CASE AwaitConfirmation
  <2>1. /\ script.at \in WithDeployer \ {"save key"}
        /\ Onwards[script.at] \in WithDeployer \ {"save key"}
    BY <1>10, Operations DEF AwaitConfirmation, WithDeployer, Steps
  <2> QED
    BY <1>10, <2>1, <1>6, <1>s DEF AwaitConfirmation, disk, TInv, TypeOK
<1>11. CASE CheckFresh
  BY <1>11, <1>6, <1>s DEF CheckFresh, Goto, disk, TInv, TypeOK, WithDeployer, Steps
<1>12. CASE Verify
  BY <1>12, <1>6, <1>s DEF Verify, Goto, disk, TInv, TypeOK, WithDeployer, Steps
<1>13. CASE OpenRecord
  BY <1>13, <1>6 DEF OpenRecord, Goto, network, TInv, TypeOK, WithDeployer, Steps
<1>14. CASE WriteRecord
  BY <1>14, <1>s DEF WriteRecord
<1>15. ASSUME NEW t \in sent, Execute(t) \/ Expire(t)
       PROVE  KeyInv'
  BY <1>15 DEF Execute, Expire, disk
<1>16. ASSUME NEW k \in promised, FundingLands(k) \/ FundingFails(k)
       PROVE  KeyInv'
  BY <1>16 DEF FundingLands, FundingFails, disk
<1>17. ASSUME NEW c \in DOMAIN contracts, OthersAct(c)
       PROVE  KeyInv'
  BY <1>17 DEF OthersAct, disk
<1>18. CASE UNCHANGED vars
  BY <1>18 DEF vars, disk, network
<1> QED
  BY <1>1, <1>2, <1>3, <1>4, <1>5, <1>7, <1>8, <1>9, <1>10, <1>11, <1>12, <1>13,
     <1>14, <1>15, <1>16, <1>17, <1>18, Zenon DEF Next, Main

\* The key of every account that exists, or will, is injected or in the key file:
\* no crash between making a key, writing it and having it funded loses money.
THEOREM DeployKeyIsKept == Spec => []FundedKeyIsKept
<1>1. KeyInv => FundedKeyIsKept
  BY DEF KeyInv
<1> QED
  BY <1>1, KeyInit, KeyStep, TypesHold, PTL DEF Spec

-----------------------------------------------------------------------------
(***************************************************************************)
(* The record                                                              *)
(***************************************************************************)

\* The steps with a contract of the script's own, and with one that was verified.
WithContract == {"check fresh", "initialize", "initializing", "verify", "open record",
                 "write record"}
Verified     == {"open record", "write record"}

\* The transaction the script awaits is its latest, and nobody has answered it yet.
SentInv ==
    /\ \A t \in sent : t.op = "initialize" => t.contract \in DOMAIN contracts
    /\ \A t \in sent : t.awaited =>
           Waiting[t.op] = script.at /\ t.key = script.key /\ answer = NotFound
    /\ script.at = "creating" /\ answer.status = "SUCCESS" =>
           answer.contract \in DOMAIN contracts

VaultInv ==
    /\ script.at \in WithContract => script.contract \in DOMAIN contracts
    /\ script.at \in Verified => contracts[script.contract].admin = script.admin
    /\ record # NoRecord => record.admin # NoKey
    /\ RecordedVaultIsOurs

LEMMA VaultInit == Init => SentInv /\ VaultInv
BY DEF Init, SentInv, VaultInv, RecordedVaultIsOurs, Stopped, WithContract, Verified

\* Contracts are only added, and an administrator stays.
LEMMA AdminsStay ==
    ASSUME TInv, SentInv, [Next]_vars
    PROVE  /\ DOMAIN contracts \subseteq DOMAIN contracts'
           /\ \A c \in DOMAIN contracts :
                  contracts[c].admin # NoKey => contracts'[c].admin = contracts[c].admin
<1>0. contracts \in Seq(Instances)
  BY DEF TInv, TypeOK, Instances
<1>1. ASSUME NEW t \in sent, Execute(t), contracts' # contracts
      PROVE  /\ DOMAIN contracts \subseteq DOMAIN contracts'
             /\ \A c \in DOMAIN contracts :
                    contracts[c].admin # NoKey => contracts'[c].admin = contracts[c].admin
  <2>1. CASE t.op = "create"
    <3>1. contracts' = Append(contracts, [admin |-> NoKey, used |-> FALSE])
      BY <1>1, <2>1 DEF Execute
    <3> QED
      BY <1>0, <3>1
  <2>2. CASE t.op # "create"
    <3>1. /\ t.op = "initialize" /\ Succeeds(t)
          /\ contracts' = [contracts EXCEPT ![t.contract].admin = t.admin]
      BY <1>1, <2>2 DEF Execute
    <3>2. t.contract \in DOMAIN contracts /\ contracts[t.contract].admin = NoKey
      BY <3>1 DEF SentInv, Succeeds, CanInitialize
    <3> DEFINE x == [contracts[t.contract] EXCEPT !.admin = t.admin]
    <3>3. x \in Instances
      <4>1. contracts[t.contract] \in Instances
        BY <1>0, <3>2
      <4> QED
        BY <4>1 DEF TInv, TypeOK, Instances
    <3>4. contracts' = [contracts EXCEPT ![t.contract] = x]
      BY <3>1
    <3> HIDE DEF x
    <3> QED
      BY <1>0, <3>2, <3>3, <3>4, InstanceChanged
  <2> QED
    BY <2>1, <2>2
<1>2. ASSUME NEW d \in DOMAIN contracts, OthersAct(d)
      PROVE  /\ DOMAIN contracts \subseteq DOMAIN contracts'
             /\ \A c \in DOMAIN contracts :
                    contracts[c].admin # NoKey => contracts'[c].admin = contracts[c].admin
  <2>1. contracts[d] \in Instances
    BY <1>0
  <2>2. CASE /\ contracts[d].admin = NoKey
             /\ contracts' = [contracts EXCEPT ![d].admin = Stranger]
    <3> DEFINE x == [contracts[d] EXCEPT !.admin = Stranger]
    <3>1. x \in Instances
      BY <2>1 DEF Instances
    <3>2. contracts' = [contracts EXCEPT ![d] = x]
      BY <2>2
    <3> HIDE DEF x
    <3> QED
      BY <1>0, <2>2, <3>1, <3>2, InstanceChanged
  <2>3. CASE contracts' = [contracts EXCEPT ![d].used = TRUE]
    <3> DEFINE x == [contracts[d] EXCEPT !.used = TRUE]
    <3>1. x \in Instances /\ x.admin = contracts[d].admin
      BY <2>1 DEF Instances
    <3>2. contracts' = [contracts EXCEPT ![d] = x]
      BY <2>3
    <3> HIDE DEF x
    <3> QED
      BY <1>0, <3>1, <3>2, InstanceChanged
  <2> QED
    BY <1>2, <2>2, <2>3 DEF OthersAct, CanInitialize
<1>3. \/ contracts' = contracts
      \/ \E t \in sent : Execute(t)
      \/ \E c \in DOMAIN contracts : OthersAct(c)
  BY DEF Next, Main, Start, Interrupted, LoadDeployer, SaveKey, EnsureFunded, AwaitFunding,
         ResolveAsset, Submit, AwaitConfirmation, CheckFresh, Verify, OpenRecord, WriteRecord,
         Expire, FundingLands, FundingFails, network, vars
<1> QED
  BY <1>1, <1>2, <1>3

LEMMA VaultStep == TInv /\ SentInv /\ VaultInv /\ [Next]_vars => SentInv' /\ VaultInv'
<1> SUFFICES ASSUME TInv, SentInv, VaultInv, [Next]_vars PROVE SentInv' /\ VaultInv'
  OBVIOUS
<1>0. sent \subseteq Txs /\ script \in Scripts /\ contracts \in Seq(Instances)
  BY DEF TInv, TypeOK, Txs, Scripts, Instances
<1>a. /\ DOMAIN contracts \subseteq DOMAIN contracts'
      /\ \A c \in DOMAIN contracts :
             contracts[c].admin # NoKey => contracts'[c].admin = contracts[c].admin
  BY AdminsStay
\* The record needs attention only where it is written.
<1>b. ASSUME record' \in {record, NoRecord}
      PROVE  /\ record' # NoRecord => record'.admin # NoKey
             /\ RecordedVaultIsOurs'
  BY <1>a, <1>b DEF VaultInv, RecordedVaultIsOurs
<1>e. ASSUME Stop
      PROVE  script'.at = "stopped"
  BY <1>e DEF Stop, Stopped
\* A run that ends leaves its transactions to nobody.
<1>s. ASSUME Stop, record' \in {record, NoRecord}
      PROVE  SentInv' /\ VaultInv'
  <2>1. \A s \in sent' : ~s.awaited /\ \E t \in sent : s.op = t.op /\ s.contract = t.contract
    <3>1. ASSUME NEW s \in sent'
          PROVE  ~s.awaited /\ \E t \in sent : s.op = t.op /\ s.contract = t.contract
      <4>1. PICK t \in sent : s = [t EXCEPT !.awaited = FALSE]
        BY <1>s, <3>1, Zenon DEF Stop
      <4>2. t \in Txs
        BY <1>0
      <4> QED
        BY <4>1, <4>2 DEF Txs
    <3> QED
      BY <3>1
  <2>2. SentInv'
    BY <1>a, <1>s, <2>1, StopTypes DEF SentInv, Stopped
  <2> QED
    BY <1>b, <1>s, <2>2, <1>e DEF VaultInv, WithContract, Verified
\* A step of the script that keeps its contract and awaits nothing before or after.
<1>g. ASSUME script'.contract = script.contract, script'.admin = script.admin,
             script'.at \notin DOMAIN Onwards, script.at \notin DOMAIN Onwards,
             script'.at \in WithContract => script.at \in WithContract,
             script'.at \in Verified =>
                script.at \in Verified \/ contracts[script.contract].admin = script.admin,
             script.admin # NoKey \/ script'.at \notin Verified,
             UNCHANGED <<answer, sent>>, UNCHANGED contracts, record' \in {record, NoRecord}
      PROVE  SentInv' /\ VaultInv'
  <2>1. \A t \in sent : ~t.awaited
    BY <1>0, <1>g, Operations DEF SentInv, Txs
  <2>2. SentInv'
    BY <1>g, <2>1, Operations DEF SentInv
  <2> QED
    BY <1>b, <1>g, <2>2 DEF VaultInv
<1>1. CASE Start
  <2>1. /\ script.at = "stopped" /\ script'.at = "deployer"
        /\ UNCHANGED <<answer, sent, contracts, record>>
    BY <1>1 DEF Start, Stopped, disk, network
  <2>2. \A t \in sent : ~t.awaited
    BY <1>0, <2>1, Operations DEF SentInv, Txs
  <2>3. SentInv'
    BY <2>1, <2>2 DEF SentInv
  <2> QED
    BY <1>b, <2>1, <2>3 DEF VaultInv, WithContract, Verified
<1>2. CASE Interrupted
  BY <1>2, <1>s DEF Interrupted, disk
<1>3. CASE LoadDeployer
  <2>1. ASSUME NEW key \in Keys, NEW step \in {"fund", "save key"}, Deployer(key, step),
               UNCHANGED <<answer, sent>>
        PROVE  SentInv' /\ VaultInv'
    <3>1. script.at = "deployer" /\ script'.at \in {"fund", "save key"}
      BY <1>0, <1>3, <2>1 DEF LoadDeployer, Deployer, Scripts
    <3>2. UNCHANGED <<record, contracts>>
      BY <1>3 DEF LoadDeployer
    <3>3. \A t \in sent : ~t.awaited
      BY <1>0, <3>1, Operations DEF SentInv, Txs
    <3>4. SentInv'
      BY <2>1, <3>1, <3>2, <3>3 DEF SentInv
    <3> QED
      BY <1>b, <3>1, <3>2, <3>4 DEF VaultInv, WithContract, Verified
  <2> QED
    BY <1>3, <1>s, <2>1, KeysAssumption, InjectedAssumption DEF LoadDeployer, AfterGenerating
<1>4. CASE SaveKey
  BY <1>0, <1>4, <1>g, Operations DEF SaveKey, Goto, network, Scripts, WithContract, Verified
<1>5. CASE EnsureFunded
  <2>1. /\ script.at = "fund" /\ script'.at \in {"asset", "funding"}
        /\ script'.contract = script.contract /\ script'.admin = script.admin
        /\ UNCHANGED <<answer, sent, contracts, record>>
    BY <1>0, <1>5 DEF EnsureFunded, Goto, disk, Scripts
  <2> QED
    BY <2>1, <1>g, Operations DEF WithContract, Verified
<1>6. CASE AwaitFunding
  BY <1>0, <1>6, <1>g, <1>s, Operations
     DEF AwaitFunding, Goto, disk, Scripts, WithContract, Verified
<1>7. CASE ResolveAsset
  BY <1>0, <1>7, <1>g, <1>s, Operations
     DEF ResolveAsset, Goto, disk, Scripts, WithContract, Verified
<1>8. ASSUME NEW op \in DOMAIN Waiting, Submit(op)
      PROVE  SentInv' /\ VaultInv'
  <2>1. CASE Stop
    BY <1>8, <1>s, <2>1 DEF Submit, disk
  <2>2. CASE ~Stop
    <3> DEFINE t == [op |-> op, key |-> script.key, contract |-> script.contract,
                     admin |-> script.admin, awaited |-> TRUE]
    <3>1. /\ script.at = op /\ script' = [script EXCEPT !.at = Waiting[op]]
          /\ sent' = sent \cup {t} /\ answer' = NotFound
          /\ UNCHANGED <<contracts, record>>
      BY <1>8, <2>2 DEF Submit, Goto, disk
    <3>2. /\ script'.at = Waiting[op] /\ script'.contract = script.contract
          /\ script'.admin = script.admin /\ script'.key = script.key
      BY <1>0, <3>1 DEF Scripts
    <3>3. \A s \in sent : ~s.awaited
      BY <1>0, <3>1, <1>8, Operations DEF SentInv, Txs
    <3>4. t.op = "initialize" => t.contract \in DOMAIN contracts
      BY <3>1 DEF VaultInv, WithContract
    <3>5. t.op = op /\ t.key = script.key
      OBVIOUS
    <3> HIDE DEF t
    <3>6. SentInv'
      BY <3>1, <3>2, <3>3, <3>4, <3>5 DEF SentInv, NotFound
    <3>7. /\ script'.at \in WithContract => script.at \in WithContract
          /\ script'.at \notin Verified
      BY <1>8, <3>1, <3>2, Operations DEF WithContract, Verified
    <3> QED
      BY <1>b, <3>1, <3>2, <3>6, <3>7 DEF VaultInv
  <2> QED
    BY <2>1, <2>2
<1>9. CASE AwaitConfirmation
  <2>1. CASE Stop
    BY <1>9, <1>s, <2>1 DEF AwaitConfirmation, disk
  <2>2. CASE ~Stop
    <3>1. /\ script.at \in DOMAIN Onwards /\ answer.status = "SUCCESS"
          /\ script' = [script EXCEPT
                           !.at = Onwards[@],
                           !.contract = IF script.at = "creating" THEN answer.contract ELSE @]
          /\ UNCHANGED <<answer, sent, contracts, record>>
      BY <1>9, <2>2 DEF AwaitConfirmation, disk
    <3>2. /\ script'.at = Onwards[script.at]
          /\ script'.contract = IF script.at = "creating" THEN answer.contract
                                ELSE script.contract
      BY <1>0, <3>1 DEF Scripts
    <3>3. \A t \in sent : ~t.awaited
      BY <3>1 DEF SentInv, NotFound
    <3>4. SentInv'
      BY <3>1, <3>2, <3>3, Operations DEF SentInv
    <3>5. script'.at \in WithContract => script'.contract \in DOMAIN contracts
      BY <3>1, <3>2, Operations DEF SentInv, VaultInv, WithContract
    <3>6. script'.at \notin Verified
      BY <3>1, <3>2, Operations DEF Verified
    <3> QED
      BY <1>b, <3>1, <3>4, <3>5, <3>6 DEF VaultInv
  <2> QED
    BY <2>1, <2>2
<1>10. CASE CheckFresh
  BY <1>0, <1>10, <1>g, <1>s, Operations
     DEF CheckFresh, Goto, disk, Scripts, WithContract, Verified
<1>11. CASE Verify
  <2>1. CASE Stop
    BY <1>11, <1>s, <2>1 DEF Verify, disk
  <2>2. CASE ~Stop
    <3>1. /\ script.at = "verify" /\ ReadsBack
          /\ script' = [script EXCEPT !.at = "open record"]
          /\ UNCHANGED <<answer, sent, contracts, record>>
      BY <1>11, <2>2 DEF Verify, Goto, disk
    <3>2. /\ script'.at = "open record" /\ script'.contract = script.contract
          /\ script'.admin = script.admin
      BY <1>0, <3>1 DEF Scripts
    <3>3. contracts[script.contract].admin = script.admin /\ script.admin # NoKey
      <4>1. script.admin # NoKey
        BY <3>1 DEF TInv, WithDeployer, Steps
      <4>2. contracts[script.contract] = [admin |-> script.admin, used |-> FALSE]
        BY <3>1, Zenon DEF ReadsBack
      <4>3. contracts[script.contract].admin = script.admin
        BY <4>2
      <4> QED
        BY <4>1, <4>3
    <3> QED
      BY <1>g, <3>1, <3>2, <3>3, Operations DEF WithContract, Verified
  <2> QED
    BY <2>1, <2>2
<1>12. CASE OpenRecord
  <2>1. /\ script.at = "open record" /\ script'.at = "write record"
        /\ script'.contract = script.contract /\ script'.admin = script.admin
        /\ record' = NoRecord /\ UNCHANGED <<answer, sent, contracts>>
    BY <1>0, <1>12 DEF OpenRecord, Goto, network, Scripts
  <2>2. script.admin # NoKey
    BY <2>1 DEF TInv, WithDeployer, Steps
  <2> QED
    BY <2>1, <2>2, <1>g, Operations DEF WithContract, Verified
<1>13. CASE WriteRecord
  <2>1. /\ script.at = "write record" /\ Stop /\ UNCHANGED contracts
        /\ record' = [contract |-> script.contract, admin |-> script.admin]
    BY <1>13 DEF WriteRecord
  <2>2. /\ script.contract \in DOMAIN contracts /\ script.admin # NoKey
        /\ contracts[script.contract].admin = script.admin
    BY <2>1 DEF VaultInv, WithContract, Verified, TInv, WithDeployer, Steps
  <2>3. RecordedVaultIsOurs' /\ record'.admin # NoKey
    BY <2>1, <2>2 DEF RecordedVaultIsOurs
  <2>4. \A s \in sent' : ~s.awaited /\ \E t \in sent : s.op = t.op /\ s.contract = t.contract
    <3>1. ASSUME NEW s \in sent'
          PROVE  ~s.awaited /\ \E t \in sent : s.op = t.op /\ s.contract = t.contract
      <4>1. PICK t \in sent : s = [t EXCEPT !.awaited = FALSE]
        BY <2>1, <3>1, Zenon DEF Stop
      <4>2. t \in Txs
        BY <1>0
      <4> QED
        BY <4>1, <4>2 DEF Txs
    <3> QED
      BY <3>1
  <2>5. SentInv'
    BY <2>1, <2>4, <1>e DEF SentInv
  <2> QED
    BY <2>1, <2>3, <2>5, <1>e DEF VaultInv, WithContract, Verified
<1>14. ASSUME NEW t \in sent, Execute(t)
       PROVE  SentInv' /\ VaultInv'
  <2>1. /\ sent' = {s \in sent : s.key # t.key}
        /\ ~t.awaited => answer' = answer
        /\ t.awaited => answer'.contract = Len(contracts')
        /\ UNCHANGED <<script, record>>
    BY <1>14 DEF Execute, disk
  <2>2. \A s \in sent' : s.awaited => ~t.awaited
    BY <2>1 DEF SentInv
  <2>3. ASSUME script.at = "creating", answer'.status = "SUCCESS"
        PROVE  answer'.contract \in DOMAIN contracts'
    <3>1. CASE ~t.awaited
      BY <1>a, <2>1, <2>3, <3>1 DEF SentInv
    <3>2. CASE t.awaited
      <4>1. t.op = "create"
        BY <1>0, <2>3, <3>2, Operations DEF SentInv, Txs
      <4>2. contracts' = Append(contracts, [admin |-> NoKey, used |-> FALSE])
        BY <1>14, <4>1 DEF Execute
      <4> QED
        BY <1>0, <2>1, <3>2, <4>2 DEF Instances
    <3> QED
      BY <3>1, <3>2
  <2>4. SentInv'
    BY <1>a, <2>1, <2>2, <2>3 DEF SentInv
  <2>5. script.at \in Verified => script.admin # NoKey /\ script.at \in WithContract
    BY DEF TInv, WithDeployer, Steps, Verified, WithContract
  <2> QED
    BY <1>a, <1>b, <2>1, <2>4, <2>5 DEF VaultInv
<1>15. ASSUME NEW t \in sent, Expire(t)
       PROVE  SentInv' /\ VaultInv'
  BY <1>15 DEF Expire, disk, SentInv, VaultInv, RecordedVaultIsOurs
<1>16. ASSUME NEW k \in promised, FundingLands(k) \/ FundingFails(k)
       PROVE  SentInv' /\ VaultInv'
  BY <1>16 DEF FundingLands, FundingFails, disk, SentInv, VaultInv, RecordedVaultIsOurs
<1>17. ASSUME NEW c \in DOMAIN contracts, OthersAct(c)
       PROVE  SentInv' /\ VaultInv'
  <2>1. UNCHANGED <<script, answer, sent, record>>
    BY <1>17 DEF OthersAct, disk
  <2>2. script.at \in Verified => script.admin # NoKey /\ script.at \in WithContract
    BY DEF TInv, WithDeployer, Steps, Verified, WithContract
  <2>3. SentInv'
    BY <1>a, <2>1 DEF SentInv
  <2> QED
    BY <1>a, <1>b, <2>1, <2>2, <2>3 DEF VaultInv
<1>18. CASE UNCHANGED vars
  BY <1>18 DEF vars, disk, network, SentInv, VaultInv, RecordedVaultIsOurs
<1> QED
  BY <1>1, <1>2, <1>3, <1>4, <1>5, <1>6, <1>7, <1>8, <1>9, <1>10, <1>11, <1>12, <1>13,
     <1>14, <1>15, <1>16, <1>17, <1>18, Zenon DEF Next, Main

\* The file that the other programs are configured from names a vault that this
\* deployer initialized, for any number of runs, failures, contracts and strangers.
THEOREM DeployRecordIsOurs == Spec => []RecordedVaultIsOurs
<1>1. VaultInv => RecordedVaultIsOurs
  BY DEF VaultInv
<1> QED
  BY <1>1, VaultInit, VaultStep, TypesHold, PTL DEF Spec
=============================================================================
