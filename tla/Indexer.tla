------------------------------ MODULE Indexer -------------------------------
(***************************************************************************)
(* The event indexer (services/indexer): a process that polls the RPC for  *)
(* the events of one vault contract, projects them into database tables    *)
(* and stores the cursor it has reached as a checkpoint.                   *)
(*                                                                         *)
(* Every await of the source is a step of its own: between the request and *)
(* its answer other ledgers close, the process may crash, and a write the  *)
(* caller was told failed may still reach the database (a stray write).    *)
(* An event is named by its position in the contract's history.            *)
(*                                                                         *)
(* External: the RPC (ledgers, pages, cursors, retention) and the database *)
(* (upserts by primary key) are modelled by what the indexer uses of them. *)
(***************************************************************************)
EXTENDS Integers, Sequences, FiniteSets

CONSTANTS Feed,         \* the kinds of the events the contract will publish
          PageLimit,    \* INDEXER_DEFAULTS.pageLimit
          ListLimit,    \* the limit of the API's event lists
          Runs,         \* runs of the poll callback, numbered: more than the guard admits
          MaxLedger,    \* bound: the last ledger that closes
          MaxBurst,     \* bound: events in one ledger
          MaxPruned,    \* bound: ledgers the RPC forgets
          MaxFaults,    \* bound: requests that fail
          MaxCrashes,   \* bound: crashes of the process
          MaxStray      \* bound: failed writes still on their way at a time

ASSUME FeedAssumption == Feed \in Seq({"initialize", "change", "other"})
\* The contract's initialize succeeds once.
ASSUME InitializedOnce ==
    \A i, j \in DOMAIN Feed : Feed[i] = "initialize" /\ Feed[j] = "initialize" => i = j
ASSUME RunsAssumption == Runs \subseteq Nat
ASSUME PageAssumption == PageLimit \in Nat \ {0} /\ ListLimit \in Nat
ASSUME BoundsAssumption ==
    MaxLedger \in Nat \ {0} /\ MaxFaults \in Nat /\ MaxCrashes \in Nat

VARIABLES chain,        \* the ledger of each event published so far
          tip,          \* the latest closed ledger
          oldest,       \* the oldest ledger the RPC still serves
          rows,         \* vault_events: the events stored
          vaultRow,     \* vaults: created_ledger of the vault, or 0
          saved,        \* indexer_checkpoints: the row of the stream
          stray,        \* failed writes that may still land
          phase,        \* how far startWatcher is
          cursor,       \* the cursor in memory
          lastLedger,   \* the ledger in memory
          inFlight,     \* the guard of poll
          run,          \* the runs of poll
          skipped,      \* ghost: events a start without a checkpoint passed over
          faults, crashes

external == <<chain, tip, oldest>>
database == <<rows, vaultRow, saved>>
memory   == <<phase, cursor, lastLedger, inFlight, run>>
vars     == <<external, database, stray, memory, skipped, faults, crashes>>

NoCursor     == [ledger |-> 0, event |-> 0]
NoCheckpoint == [cursor |-> NoCursor, lastLedger |-> 0]
Idle         == [at |-> "idle", cursor |-> NoCursor, startLedger |-> 0,
                 batch |-> {}, next |-> NoCursor, ledger |-> 0]

\* decodeVaultEvent recognises it.
IsVaultEvent(i) == Feed[i] # "other"

MaxOf(S) == CHOOSE x \in S : \A y \in S : y <= x

Init ==
    /\ chain = <<>> /\ tip = 1 /\ oldest = 1
    /\ rows = {} /\ vaultRow = 0 /\ saved = NoCheckpoint
    /\ stray = {}
    /\ phase = "down" /\ cursor = NoCursor /\ lastLedger = 0
    /\ inFlight = FALSE /\ run = [r \in Runs |-> Idle]
    /\ skipped = {}
    /\ faults = 0 /\ crashes = 0

-----------------------------------------------------------------------------
(***************************************************************************)
(* The RPC                                                                 *)
(***************************************************************************)

\* A ledger closes with the next `count` events of the contract.
CloseLedger(count) ==
    /\ tip < MaxLedger
    /\ Len(chain) + count <= Len(Feed)
    /\ tip' = tip + 1
    /\ chain' = chain \o [i \in 1 .. count |-> tip + 1]
    /\ UNCHANGED <<oldest, database, stray, memory, skipped, faults, crashes>>

\* The RPC keeps a window of recent ledgers.
Prune ==
    /\ oldest < tip /\ oldest <= MaxPruned
    /\ oldest' = oldest + 1
    /\ UNCHANGED <<chain, tip, database, stray, memory, skipped, faults, crashes>>

\* A request from before that window is an error.
Served(q) == oldest <= IF q.cursor = NoCursor THEN q.startLedger ELSE q.cursor.ledger

Matching(q) ==
    {i \in DOMAIN chain : IF q.cursor = NoCursor THEN chain[i] >= q.startLedger
                                                 ELSE i > q.cursor.event}

Page(q) == {i \in Matching(q) : Cardinality({j \in Matching(q) : j < i}) < PageLimit}

\* A full page ends at its last event, any other at the end of the latest ledger.
PageCursor(page) ==
    IF Cardinality(page) = PageLimit
    THEN [ledger |-> chain[MaxOf(page)], event |-> MaxOf(page)]
    ELSE [ledger |-> tip, event |-> Len(chain)]

-----------------------------------------------------------------------------
(***************************************************************************)
(* Writes                                                                  *)
(***************************************************************************)
VaultWrite(i)    == [table |-> "vaults", events |-> {i}, row |-> NoCheckpoint]
EventsWrite(S)   == [table |-> "vault_events", events |-> S, row |-> NoCheckpoint]
CheckpointWrite(row) == [table |-> "indexer_checkpoints", events |-> {}, row |-> row]

\* Each write is one upsert, atomic in the database; event rows that are there
\* already are left alone.
Land(w) ==
    /\ rows' = IF w.table = "vault_events" THEN rows \cup w.events ELSE rows
    /\ vaultRow' = IF w.table = "vaults" THEN chain[MaxOf(w.events)] ELSE vaultRow
    /\ saved' = IF w.table = "indexer_checkpoints" THEN w.row ELSE saved

Initializes(batch) == {i \in batch : Feed[i] = "initialize"}

\* The write a run is waiting for.
Pending(r) ==
    CASE run[r].at = "vault"  -> {VaultWrite(MaxOf(Initializes(run[r].batch)))}
      [] run[r].at = "insert" -> {EventsWrite(run[r].batch)}
      [] run[r].at = "save"   -> {CheckpointWrite([cursor     |-> run[r].next,
                                                   lastLedger |-> run[r].ledger])}
      [] OTHER -> {}

\* A write without an answer lands later or never; beyond the bound, never.
GoesAstray(writes) ==
    stray' = IF Cardinality(stray \cup writes) <= MaxStray THEN stray \cup writes ELSE stray

StrayLands(w) ==
    /\ Land(w)
    /\ stray' = stray \ {w}
    /\ UNCHANGED <<external, memory, skipped, faults, crashes>>

-----------------------------------------------------------------------------
(***************************************************************************)
(* startWatcher                                                            *)
(***************************************************************************)
Boot ==
    /\ phase = "down"
    /\ phase' = "load"
    /\ UNCHANGED <<external, database, stray, cursor, lastLedger, inFlight, run,
                   skipped, faults, crashes>>

LoadCheckpoint ==
    /\ phase = "load"
    /\ phase' = IF saved = NoCheckpoint THEN "anchor" ELSE "ready"
    /\ cursor' = saved.cursor
    /\ lastLedger' = saved.lastLedger
    /\ UNCHANGED <<external, database, stray, inFlight, run, skipped, faults, crashes>>

\* Without a checkpoint the watcher starts at the latest ledger.
Anchor ==
    /\ phase = "anchor"
    /\ phase' = "ready"
    /\ lastLedger' = tip
    /\ skipped' = skipped \cup ({i \in DOMAIN chain : chain[i] < tip} \ rows)
    /\ UNCHANGED <<external, database, stray, cursor, inFlight, run, faults, crashes>>

\* Neither load nor anchor is caught: the process ends.
StartFails ==
    /\ phase \in {"load", "anchor"} /\ faults < MaxFaults
    /\ phase' = "down" /\ cursor' = NoCursor /\ lastLedger' = 0
    /\ faults' = faults + 1
    /\ UNCHANGED <<external, database, stray, inFlight, run, skipped, crashes>>

Crash ==
    /\ phase # "down" /\ crashes < MaxCrashes
    /\ GoesAstray(UNION {Pending(r) : r \in Runs})
    /\ phase' = "down" /\ cursor' = NoCursor /\ lastLedger' = 0
    /\ inFlight' = FALSE /\ run' = [r \in Runs |-> Idle]
    /\ crashes' = crashes + 1
    /\ UNCHANGED <<external, database, skipped, faults>>

-----------------------------------------------------------------------------
(***************************************************************************)
(* poll                                                                    *)
(***************************************************************************)

\* Faulty variant: a run starts while another is waiting.
MayPollAlways == TRUE
MayPoll == ~inFlight

\* Faulty variant: a start without a cursor leaves its own ledger out.
FirstLedgerAfter == lastLedger + 1
FirstLedger == lastLedger

\* The first run is awaited before the interval timer is set.
StartPoll(r) ==
    /\ phase \in {"ready", "run"} /\ MayPoll
    /\ run[r].at = "idle" /\ \A s \in Runs : run[s].at = "idle" => r <= s
    /\ inFlight' = TRUE
    /\ phase' = IF phase = "ready" THEN "first" ELSE phase
    /\ run' = [run EXCEPT ![r] = [Idle EXCEPT !.at = "fetch", !.cursor = cursor,
                                              !.startLedger = FirstLedger]]
    /\ UNCHANGED <<external, database, stray, cursor, lastLedger, skipped, faults, crashes>>

\* Faulty variant: the guard is released only by a run that succeeds.
ReleaseOnSuccess(r, ok) ==
    /\ run' = [run EXCEPT ![r] = Idle]
    /\ inFlight' = ~ok
    /\ phase' = IF phase = "first" THEN "run" ELSE phase
\* The finally clause.
Release(r, ok) ==
    /\ run' = [run EXCEPT ![r] = Idle]
    /\ inFlight' = FALSE
    /\ phase' = IF phase = "first" THEN "run" ELSE phase

\* After the projection: a new cursor is taken over and its checkpoint sent.
Projected(r, b) ==
    /\ IF b.next # cursor
       THEN /\ cursor' = b.next
            /\ run' = [run EXCEPT ![r] = [b EXCEPT !.at = "save"]]
            /\ UNCHANGED lastLedger
       ELSE /\ lastLedger' = b.ledger
            /\ run' = [run EXCEPT ![r] = [b EXCEPT !.at = "snapshot"]]
            /\ UNCHANGED cursor
    /\ UNCHANGED <<phase, inFlight>>

Decoded(page) == {i \in page : IsVaultEvent(i)}

\* Faulty variant: event rows are written without the vault's row.
FirstWriteEvents(batch) == "insert"
FirstWrite(batch) == IF Initializes(batch) # {} THEN "vault" ELSE "insert"

\* getEvents answers; the page is decoded and its first write sent.  The ledger
\* observed is the latest of all: no decoded event is later than the RPC's tip.
Fetched(r) ==
    LET page  == Page(run[r])
        batch == Decoded(page)
        b     == [run[r] EXCEPT !.batch = batch, !.next = PageCursor(page),
                                !.ledger = IF lastLedger > tip THEN lastLedger ELSE tip]
    IN  /\ run[r].at = "fetch" /\ Served(run[r])
        /\ IF batch = {}
           THEN Projected(r, b)
           ELSE /\ run' = [run EXCEPT ![r] = [b EXCEPT !.at = FirstWrite(batch)]]
                /\ UNCHANGED <<phase, cursor, lastLedger, inFlight>>
        /\ UNCHANGED <<external, database, stray, skipped, faults, crashes>>

FetchFails(r) ==
    /\ run[r].at = "fetch"
    /\ \/ ~Served(run[r]) /\ faults' = faults
       \/ faults < MaxFaults /\ faults' = faults + 1
    /\ Release(r, FALSE)
    /\ UNCHANGED <<external, database, stray, cursor, lastLedger, skipped, crashes>>

UpsertVault(r) ==
    /\ run[r].at = "vault"
    /\ \A w \in Pending(r) : Land(w)
    /\ run' = [run EXCEPT ![r].at = "insert"]
    /\ UNCHANGED <<external, stray, phase, cursor, lastLedger, inFlight, skipped,
                   faults, crashes>>

InsertVaultEvents(r) ==
    /\ run[r].at = "insert"
    /\ \A w \in Pending(r) : Land(w)
    /\ Projected(r, run[r])
    /\ UNCHANGED <<external, stray, skipped, faults, crashes>>

SaveCheckpoint(r) ==
    /\ run[r].at = "save"
    /\ \A w \in Pending(r) : Land(w)
    /\ lastLedger' = run[r].ledger
    /\ run' = [run EXCEPT ![r].at = "snapshot"]
    /\ UNCHANGED <<external, stray, phase, cursor, inFlight, skipped, faults, crashes>>

\* The pool snapshot (module PoolStats) is inserted, or is not: nothing tells.
RecordSnapshot(r) ==
    /\ run[r].at = "snapshot"
    /\ Release(r, TRUE)
    /\ UNCHANGED <<external, database, stray, cursor, lastLedger, skipped, faults, crashes>>

\* Faulty variant: an error of the event insert is not thrown.
AfterRejectedIgnoring(r) ==
    IF run[r].at = "insert"
    THEN Projected(r, run[r])
    ELSE Release(r, FALSE) /\ UNCHANGED <<cursor, lastLedger>>
\* A rejected write ends the run; a cursor taken over before it stays.
AfterRejected(r) == Release(r, FALSE) /\ UNCHANGED <<cursor, lastLedger>>

WriteRejected(r) ==
    /\ run[r].at \in {"vault", "insert", "save"} /\ faults < MaxFaults
    /\ faults' = faults + 1
    /\ GoesAstray(Pending(r))
    /\ AfterRejected(r)
    /\ UNCHANGED <<external, database, skipped, crashes>>

-----------------------------------------------------------------------------
(***************************************************************************)
(* What the API reads of the same tables (services/api/src/repositories/   *)
(* vault-repository.ts)                                                    *)
(***************************************************************************)

\* The vault and the ledger it was created in; 0 when there is no such row.
GetVault == vaultRow

\* Faulty variant: the list is in ascending order.
ListsOldest(i, j) == chain[i] <= chain[j]
\* The order of the event lists, by ledger, descending: what is listed before what.
ListsBefore(i, j) == chain[i] >= chain[j]

\* The answers listVaultEvents may give: up to the limit of the events stored, those
\* of one ledger in any order.
ListVaultEvents ==
    {list \in SUBSET rows :
        /\ Cardinality(list) = ListLimit \/ list = rows
        /\ Cardinality(list) <= ListLimit
        /\ \A i \in list, j \in rows \ list : ListsBefore(i, j)}

-----------------------------------------------------------------------------
Work(r) ==
    \/ StartPoll(r) \/ Fetched(r) \/ FetchFails(r)
    \/ UpsertVault(r) \/ InsertVaultEvents(r) \/ SaveCheckpoint(r) \/ RecordSnapshot(r)

Next ==
    \/ \E count \in 0 .. MaxBurst : CloseLedger(count)
    \/ Prune
    \/ \E w \in stray : StrayLands(w)
    \/ Boot \/ LoadCheckpoint \/ Anchor \/ StartFails \/ Crash
    \/ \E r \in Runs : Work(r) \/ WriteRejected(r)

Spec == Init /\ [][Next]_vars

\* The event loop runs what is ready, every request is answered one way or the
\* other, the timer fires again, and somebody restarts a process that ended.
FairSpec ==
    /\ Spec
    /\ WF_vars(Boot \/ LoadCheckpoint \/ Anchor)
    /\ \A r \in Runs : WF_vars(Work(r))

-----------------------------------------------------------------------------
(***************************************************************************)
(* Properties                                                              *)
(***************************************************************************)
Cursors     == [ledger : 0 .. MaxLedger, event : 0 .. Len(Feed)]
Checkpoints == [cursor : Cursors, lastLedger : 0 .. MaxLedger]
VaultEvents == {i \in DOMAIN Feed : IsVaultEvent(i)}
RunStates   == [at : {"idle", "fetch", "vault", "insert", "save", "snapshot"},
                cursor : Cursors, startLedger : 0 .. MaxLedger, batch : SUBSET VaultEvents,
                next : Cursors, ledger : 0 .. MaxLedger]

\* Only recognised events of the contract's history are stored, under one row each.
TypeOK ==
    /\ chain \in Seq(1 .. MaxLedger) /\ Len(chain) <= Len(Feed)
    /\ tip \in 1 .. MaxLedger /\ oldest \in 1 .. tip
    /\ rows \subseteq VaultEvents /\ vaultRow \in 0 .. MaxLedger
    /\ saved \in Checkpoints
    /\ \A w \in stray : /\ w.table \in {"vaults", "vault_events", "indexer_checkpoints"}
                        /\ w.events \subseteq VaultEvents /\ w.row \in Checkpoints
    /\ phase \in {"down", "load", "anchor", "ready", "first", "run"}
    /\ cursor \in Cursors /\ lastLedger \in 0 .. MaxLedger /\ inFlight \in BOOLEAN
    /\ run \in [Runs -> RunStates]
    /\ skipped \subseteq DOMAIN Feed
    /\ faults \in 0 .. MaxFaults /\ crashes \in 0 .. MaxCrashes

\* The event is stored, or a start without a checkpoint passed over it: only a late
\* write of an earlier life of the process could still store it.
StoredOrSkipped(i) == i \in VaultEvents => i \in rows \cup skipped

StoredOrSkippedTo(c) == \A i \in 1 .. c.event : StoredOrSkipped(i)

\* No cursor the indexer will ever resume from is ahead of the events stored:
\* not the one in memory, not the checkpoint, and not a checkpoint whose write is
\* still on its way.  Whatever fails or crashes between two writes, the cursor passes
\* no event that is missing, but for those that a start without a checkpoint has
\* passed over before (RestartSkipsNothing).
CursorNeverAheadOfLog ==
    /\ StoredOrSkippedTo(cursor)
    /\ StoredOrSkippedTo(saved.cursor)
    /\ \A w \in stray : StoredOrSkippedTo(w.row.cursor)

\* The stored log has no holes but those that starts without a checkpoint have left:
\* an event that is missing before a stored one was passed over by such a start, and by
\* nothing else, no rejected write, replayed page or late write.  So a reader can find a
\* burn without its mint, but only where a start anchored later than the mint.
OnlyStartsLeaveHoles ==
    \A j \in rows : \A i \in VaultEvents \cap (1 .. j) : i \in rows \/ i \in skipped

\* Whoever reads the initialize event finds the vault, with the ledger it was
\* created in: a batch that holds both stays coherent when the process dies in its
\* middle or a write of an earlier run lands late.
VaultRowBeforeItsEvents ==
    \A i \in rows : Feed[i] = "initialize" => GetVault = chain[i]

\* A list of events is the end of the contract's history as far as it is stored:
\* between an event that is listed and the latest one stored nothing is missing but
\* what a start passed over, though pages, failures and late writes have cut the
\* insertion in pieces and the limit cuts the list inside a ledger.
ListingHasNoHoles ==
    \A list \in ListVaultEvents : \A listed \in list, i \in VaultEvents :
        /\ i \in DOMAIN chain /\ chain[i] > chain[listed]
        /\ \E j \in rows : i <= j
        => i \in list \cup skipped

\* Within one life of the process the cursor only moves forward: a slow run
\* never puts it back behind a later one.
CursorMovesForward ==
    [][ phase' \notin {"down", "ready"}
            => cursor'.event >= cursor.event /\ cursor'.ledger >= cursor.ledger ]_vars

\* The watcher asks for ledgers the RPC has forgotten: it fails for ever.
BeyondRetention ==
    /\ phase \in {"ready", "first", "run"}
    /\ oldest > IF cursor = NoCursor THEN lastLedger ELSE cursor.ledger

\* Every event the contract publishes is stored in the end, whichever requests
\* fail and whenever the process crashes, with two exceptions: the event was passed
\* over by a start without a checkpoint, or the RPC forgot what the watcher had not
\* read, which stops it for good.
EveryEventIsIngested ==
    \A i \in VaultEvents :
        i \in DOMAIN chain ~> (i \in rows \/ i \in skipped \/ []BeyondRetention)

-----------------------------------------------------------------------------
(***************************************************************************)
(* Claims of the documentation that the code does not keep                 *)
(***************************************************************************)

\* database/migrations/002_create_protocol_tables.sql:50: "so the indexer can
\* resume after a restart instead of replaying or skipping ledgers".  A restart
\* before the first checkpoint is saved starts at the latest ledger once more,
\* past events that came after the ones it had stored.
RestartSkipsNothing == \A i \in rows, j \in skipped : j < i

\* What does hold: as long as no restart has passed over events in that way, the
\* stored log is one stretch of the contract's history, without a hole from its first
\* event to its last.
LogIsContiguous ==
    RestartSkipsNothing =>
        \A first, last \in rows : VaultEvents \cap (first .. last) \subseteq rows

=============================================================================
