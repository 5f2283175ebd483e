--------------------------- MODULE DeployPipeline ---------------------------
(***************************************************************************)
(* Deploying a vault (scripts/deploy/deploy-yield-vault.ts with            *)
(* scripts/lib/testnet.ts and packages/contract-clients/src/deploy.ts): a  *)
(* script that loads or makes a key, has its account funded, uploads the   *)
(* wasm, creates a contract, initializes it, reads it back and writes its  *)
(* id to a file the other scripts and the indexer are configured from.     *)
(*                                                                         *)
(* The script runs as often as the operator starts it and may stop between *)
(* any two of its awaits and inside a file write: by an exception, a crash *)
(* or an unconfirmed submission, which for what it leaves behind are the   *)
(* same.  A transaction it gave up on may still execute, in the middle of  *)
(* a later run, and other users of the network see the same contracts.     *)
(*                                                                         *)
(* External: the network (one transaction per sequence number), Friendbot  *)
(* and the file system, where writing a file first empties it.  How one    *)
(* submission is polled is in VaultClient; here it is answered or not.     *)
(***************************************************************************)
EXTENDS Integers, Sequences

CONSTANTS Keys,         \* what Keypair.random may return
          NoKey,
          Torn,         \* a file that was opened for writing and not written
          Injected,     \* DEPLOYER_SECRET, or NoKey
          Overrides,    \* the values ADMIN_ADDRESS is given; NoKey: unset
          Stranger,     \* any other user of the network
          MaxContracts, \* bound: contracts before the operator deploys no more
          MaxTrouble,   \* bound: interruptions, lost transactions, bad settings
          MaxMeddling   \* bound: acts of others on the new contracts

ASSUME KeysAssumption ==
    {NoKey, Torn, Stranger} \cap Keys = {} /\ NoKey # Torn /\ Stranger # NoKey
ASSUME InjectedAssumption == Injected \in Keys \cup {NoKey}
ASSUME OverridesAssumption == NoKey \in Overrides /\ Stranger \notin Overrides
ASSUME TroubleAssumption == MaxTrouble \in Nat /\ MaxMeddling \in Nat /\ MaxContracts \in Nat

VARIABLES keyFile,      \* KEY_FILE: a key, Torn, or NoKey when there is none
          record,       \* CONTRACT_ID_FILE, as readRecordedContractId reads it
          script,       \* the running script: where it is and its locals
          answer,       \* what getTransaction answers the script
          accounts,     \* the accounts that exist
          promised,     \* accounts Friendbot has submitted
          contracts,    \* the contracts of the network
          sent,         \* transactions that may still execute
          trouble, meddling

disk    == <<keyFile, record>>
network == <<accounts, promised, contracts, sent>>
vars    == <<disk, script, answer, network, trouble, meddling>>

NoRecord == [contract |-> 0, admin |-> NoKey]
Stopped  == [at |-> "stopped", key |-> NoKey, admin |-> NoKey, settings |-> "good",
             contract |-> 0]
NotFound == [status |-> "NOT_FOUND", contract |-> 0]

Init ==
    /\ keyFile = NoKey /\ record = NoRecord
    /\ script = Stopped /\ answer = NotFound
    /\ accounts \in {{}, {Injected} \ {NoKey}}
    /\ promised = {} /\ contracts = <<>> /\ sent = {}
    /\ trouble = 0 /\ meddling = 0

Trouble == trouble < MaxTrouble /\ trouble' = trouble + 1

\* The process is gone; what it sent stays on its way, for nobody.
Stop ==
    /\ script' = Stopped /\ answer' = NotFound
    /\ sent' = {[t EXCEPT !.awaited = FALSE] : t \in sent}

Goto(step) == script' = [script EXCEPT !.at = step]

-----------------------------------------------------------------------------
(***************************************************************************)
(* The network                                                             *)
(***************************************************************************)

\* Faulty variant: a contract can be initialized again.
CanInitializeAgain(contract, admin, signer) == admin = signer
\* The contract is initialized once, with the authorization of its administrator.
CanInitialize(contract, admin, signer) == contract.admin = NoKey /\ admin = signer

Succeeds(t) ==
    t.op = "initialize" => CanInitialize(contracts[t.contract], t.admin, t.key)

\* Of the transactions of an account built on one sequence number one executes.
Execute(t) ==
    /\ t \in sent
    /\ sent' = {s \in sent : s.key # t.key}
    /\ contracts' =
           CASE t.op = "create" -> Append(contracts, [admin |-> NoKey, used |-> FALSE])
             [] t.op = "initialize" /\ Succeeds(t) ->
                    [contracts EXCEPT ![t.contract].admin = t.admin]
             [] OTHER -> contracts
    /\ answer' = IF ~t.awaited THEN answer
                 ELSE [status   |-> IF Succeeds(t) THEN "SUCCESS" ELSE "FAILED",
                       contract |-> Len(contracts')]
    /\ UNCHANGED <<disk, script, accounts, promised, trouble, meddling>>

\* Its time bound passes, or the network drops it.
Expire(t) ==
    /\ t \in sent /\ Trouble
    /\ sent' = sent \ {t}
    /\ UNCHANGED <<disk, script, answer, accounts, promised, contracts, meddling>>

FundingLands(k) ==
    /\ k \in promised
    /\ accounts' = accounts \cup {k} /\ promised' = promised \ {k}
    /\ UNCHANGED <<disk, script, answer, contracts, sent, trouble, meddling>>

FundingFails(k) ==
    /\ k \in promised /\ Trouble
    /\ promised' = promised \ {k}
    /\ UNCHANGED <<disk, script, answer, accounts, contracts, sent, meddling>>

\* Somebody else initializes a contract, or deposits into an initialized one.
OthersAct(c) ==
    /\ meddling < MaxMeddling /\ meddling' = meddling + 1
    /\ \/ /\ CanInitialize(contracts[c], Stranger, Stranger)
          /\ contracts' = [contracts EXCEPT ![c].admin = Stranger]
       \/ /\ contracts[c].admin # NoKey /\ ~contracts[c].used
          /\ contracts' = [contracts EXCEPT ![c].used = TRUE]
    /\ UNCHANGED <<disk, script, answer, accounts, promised, sent, trouble>>

-----------------------------------------------------------------------------
(***************************************************************************)
(* The script                                                              *)
(***************************************************************************)

\* The operator starts the script, again after a failure or for a new vault, with
\* settings of which a mistake is noticed late: an asset that is no contract, a
\* name or decimals the client's schema refuses, an administrator whose
\* authorization the script cannot give, as it signs with the deployer's key only.
Start ==
    /\ script.at = "stopped"
    /\ record = NoRecord \/ Len(contracts) < MaxContracts
    /\ \E admin \in Overrides, settings \in {"good", "bad asset", "bad metadata"} :
          /\ IF settings = "good" /\ admin = NoKey THEN UNCHANGED trouble ELSE Trouble
          /\ script' = [Stopped EXCEPT !.at = "deployer", !.admin = admin,
                                       !.settings = settings]
    /\ UNCHANGED <<disk, answer, network, meddling>>

\* An exception, or the process dies.
Interrupted ==
    /\ script.at # "stopped" /\ Trouble
    /\ Stop
    /\ UNCHANGED <<disk, accounts, promised, contracts, meddling>>

\* ADMIN_ADDRESS, or the deployer.
AdminFor(key) == IF script.admin = NoKey THEN key ELSE script.admin

Deployer(key, step) ==
    script' = [script EXCEPT !.at = step, !.key = key, !.admin = AdminFor(key)]

\* Faulty variant: a new account is funded before its key is on disk.
AfterGeneratingFund == "fund"
AfterGenerating == "save key"

\* loadDeployer.  A key file that was never finished is not valid JSON.
LoadDeployer ==
    /\ script.at = "deployer"
    /\ CASE Injected # NoKey -> Deployer(Injected, "fund") /\ UNCHANGED <<keyFile, answer, sent>>
         [] Injected = NoKey /\ keyFile \in Keys ->
                Deployer(keyFile, "fund") /\ UNCHANGED <<keyFile, answer, sent>>
         [] Injected = NoKey /\ keyFile = Torn -> Stop /\ UNCHANGED keyFile
         [] OTHER -> /\ \E key \in Keys : Deployer(key, AfterGenerating)
                     /\ keyFile' = Torn
                     /\ UNCHANGED <<answer, sent>>
    /\ UNCHANGED <<record, accounts, promised, contracts, trouble, meddling>>

SaveKey ==
    /\ script.at = "save key"
    /\ keyFile' = script.key
    /\ Goto("fund")
    /\ UNCHANGED <<record, answer, network, trouble, meddling>>

\* ensureFunded: Friendbot is asked only when the account cannot be read.
EnsureFunded ==
    /\ script.at = "fund"
    /\ IF script.key \in accounts
       THEN Goto("asset") /\ UNCHANGED promised
       ELSE Goto("funding") /\ promised' = promised \cup {script.key}
    /\ UNCHANGED <<disk, answer, accounts, contracts, sent, trouble, meddling>>

\* The account is readable, or never will be before the polls end.
AwaitFunding ==
    /\ script.at = "funding"
    /\ \/ script.key \in accounts /\ Goto("asset") /\ UNCHANGED <<answer, sent>>
       \/ script.key \notin accounts \cup promised /\ Stop
    /\ UNCHANGED <<disk, accounts, promised, contracts, trouble, meddling>>

ResolveAsset ==
    /\ script.at = "asset"
    /\ IF script.settings = "bad asset" THEN Stop
       ELSE Goto("upload") /\ UNCHANGED <<answer, sent>>
    /\ UNCHANGED <<disk, accounts, promised, contracts, trouble, meddling>>

\* What a submission waits for, and where the script goes on when it is confirmed.
Waiting == [upload |-> "uploading", create |-> "creating", initialize |-> "initializing"]
Onwards == [uploading |-> "create", creating |-> "check fresh", initializing |-> "verify"]

\* initialize is simulated before it is sent, which a contract that is initialized
\* already does not survive; simulation does not ask whose signature is missing.
Submittable(op) ==
    op = "initialize" =>
        script.settings # "bad metadata" /\ contracts[script.contract].admin = NoKey

\* submitOperation, or build and submit of the client, up to the answer of the
\* network.
Submit(op) ==
    /\ script.at = op
    /\ IF Submittable(op)
       THEN /\ Goto(Waiting[op])
            /\ sent' = sent \cup {[op |-> op, key |-> script.key, contract |-> script.contract,
                                   admin |-> script.admin, awaited |-> TRUE]}
            /\ answer' = NotFound
       ELSE Stop
    /\ UNCHANGED <<disk, accounts, promised, contracts, trouble, meddling>>

\* Faulty variant: the script polls until there is an answer.
HopelessNever == FALSE
\* Every poll will answer NOT_FOUND.
Hopeless == answer = NotFound /\ \A t \in sent : ~t.awaited

\* A poll finds the transaction, executed or failed, or the polls end.
AwaitConfirmation ==
    /\ script.at \in DOMAIN Onwards
    /\ \/ /\ answer.status = "SUCCESS"
          /\ script' = [script EXCEPT
                           !.at = Onwards[@],
                           !.contract = IF script.at = "creating" THEN answer.contract ELSE @]
          /\ UNCHANGED <<answer, sent>>
       \/ (answer.status = "FAILED" \/ Hopeless) /\ Stop
    /\ UNCHANGED <<disk, accounts, promised, contracts, trouble, meddling>>

\* The guard before initialize: the deployment must have created a fresh instance.
CheckFresh ==
    /\ script.at = "check fresh"
    /\ IF contracts[script.contract].admin = NoKey
       THEN Goto("initialize") /\ UNCHANGED <<answer, sent>>
       ELSE Stop
    /\ UNCHANGED <<disk, accounts, promised, contracts, trouble, meddling>>

\* The checks on the state that is read back: whose vault it is, and empty.
ReadsBack ==
    contracts[script.contract] = [admin |-> script.admin, used |-> FALSE]

Verify ==
    /\ script.at = "verify"
    /\ IF ReadsBack THEN Goto("open record") /\ UNCHANGED <<answer, sent>> ELSE Stop
    /\ UNCHANGED <<disk, accounts, promised, contracts, trouble, meddling>>

\* writeFileSync empties the file of the previous deployment ...
OpenRecord ==
    /\ script.at = "open record"
    /\ record' = NoRecord
    /\ Goto("write record")
    /\ UNCHANGED <<keyFile, answer, network, trouble, meddling>>

\* ... and writes that of this one.
WriteRecord ==
    /\ script.at = "write record"
    /\ record' = [contract |-> script.contract, admin |-> script.admin]
    /\ Stop
    /\ UNCHANGED <<keyFile, accounts, promised, contracts, trouble, meddling>>

-----------------------------------------------------------------------------
Main ==
    \/ LoadDeployer \/ SaveKey \/ EnsureFunded \/ AwaitFunding \/ ResolveAsset
    \/ \E op \in DOMAIN Waiting : Submit(op)
    \/ AwaitConfirmation \/ CheckFresh \/ Verify \/ OpenRecord \/ WriteRecord

Next ==
    \/ Start \/ Main \/ Interrupted
    \/ \E t \in sent : Execute(t) \/ Expire(t)
    \/ \E k \in promised : FundingLands(k) \/ FundingFails(k)
    \/ \E c \in DOMAIN contracts : OthersAct(c)

Spec == Init /\ [][Next]_vars

\* The operator starts the script while nothing is recorded, the script goes on,
\* and the network executes what it has accepted.
FairSpec ==
    /\ Spec
    /\ WF_vars(record = NoRecord /\ Start) /\ WF_vars(Main)
    /\ WF_vars(\E t \in sent : Execute(t)) /\ WF_vars(\E k \in promised : FundingLands(k))

-----------------------------------------------------------------------------
(***************************************************************************)
(* Properties                                                              *)
(***************************************************************************)
Steps == {"stopped", "deployer", "save key", "fund", "funding", "asset", "upload",
          "uploading", "create", "creating", "check fresh", "initialize",
          "initializing", "verify", "open record", "write record"}

\* A contract id is of a contract that exists wherever one is needed.
TypeOK ==
    /\ keyFile \in Keys \cup {NoKey, Torn}
    /\ record \in [contract : Nat, admin : Keys \cup Overrides]
    /\ script \in [at : Steps, key : Keys \cup {NoKey}, admin : Keys \cup Overrides,
                   settings : {"good", "bad asset", "bad metadata"}, contract : Nat]
    /\ answer \in [status : {"NOT_FOUND", "SUCCESS", "FAILED"}, contract : Nat]
    /\ accounts \subseteq Keys /\ promised \subseteq Keys
    /\ contracts \in Seq([admin : Keys \cup Overrides \cup {Stranger}, used : BOOLEAN])
    /\ sent \subseteq [op : DOMAIN Waiting, key : Keys, contract : Nat,
                       admin : Keys \cup Overrides, awaited : BOOLEAN]

\* The file other programs are configured from never names a contract that is not
\* initialized by, and for, the administrator it names: whatever run wrote it,
\* whatever others did to the contract between its creation and its initialization
\* (two transactions), and whichever submission of an earlier run executes late.
RecordedVaultIsOurs ==
    record # NoRecord =>
        /\ record.contract \in DOMAIN contracts
        /\ contracts[record.contract].admin = record.admin

\* No account that exists, or that Friendbot is about to create, has lost its key:
\* wherever the first run dies, the account that pays for the deployment and
\* administers the vault can be used by the next.
FundedKeyIsKept ==
    \A k \in accounts \cup promised : k = Injected \/ k = keyFile

\* Started again after every failure the script completes in the end, from
\* whatever accounts, half-deployed contracts and late transactions the failed
\* runs left behind - unless one died while it wrote the key file, which no later
\* run can read.
DeploymentIsRecorded ==
    record = NoRecord ~> (record # NoRecord \/ keyFile = Torn)

=============================================================================
