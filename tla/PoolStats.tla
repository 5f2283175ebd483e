------------------------------ MODULE PoolStats ------------------------------
(***************************************************************************)
(* The pool figures of the dashboard, from the table to the screen: the    *)
(* indexer inserts a snapshot at each of its runs (services/indexer/src/   *)
(* watcher.ts), the API reads the latest one and the history by a query    *)
(* each (services/api/src/routes/pool.ts), and the page asks for them when *)
(* it opens, when the wallet's key changes and every 15 seconds            *)
(* (apps/web/src/app/App.tsx).                                             *)
(*                                                                         *)
(* Nothing cancels a request when the next is made, and the answers arrive *)
(* in any order.  A snapshot is named by its position in the table.        *)
(***************************************************************************)
EXTENDS Integers, FiniteSets

CONSTANTS Requests,      \* bound: the requests open at a time
          MaxSnapshots,  \* bound: the snapshots inserted
          MaxFaults      \* bound: queries, requests and inserts that fail

ASSUME PoolAssumption == MaxSnapshots \in Nat /\ MaxFaults \in Nat

VARIABLES snapshots,     \* pool_snapshots: the number of rows
          request,       \* each request: where it is and what was read for it
          shown,         \* tvl and apy: the snapshot on the screen, 0 initially
          faults

vars == <<snapshots, request, shown, faults>>

Null == 0
Closed == [at |-> "closed", latest |-> Null, history |-> Null]

Init ==
    /\ snapshots = 0 /\ shown = 0 /\ faults = 0
    /\ request = [r \in Requests |-> Closed]

Fault == faults < MaxFaults /\ faults' = faults + 1

\* recordScaffoldSnapshot.  An insert that is rejected goes unnoticed.
RecordSnapshot ==
    /\ snapshots < MaxSnapshots
    /\ snapshots' = snapshots + 1
    /\ UNCHANGED <<request, shown, faults>>

\* fetchPoolStats, called by the effect or by the interval it sets.
Fetch(r) ==
    /\ request[r].at = "closed"
    /\ request' = [request EXCEPT ![r].at = "latest"]
    /\ UNCHANGED <<snapshots, shown, faults>>

\* Both queries of the route; the error of either is dropped and its data null.
QueryAnswer == {snapshots} \cup (IF faults < MaxFaults THEN {Null} ELSE {})

QueryLatest(r) ==
    /\ request[r].at = "latest"
    /\ \E rows \in QueryAnswer :
          /\ request' = [request EXCEPT ![r].at = "history", ![r].latest = rows]
          /\ faults' = faults + IF rows = snapshots THEN 0 ELSE 1
    /\ UNCHANGED <<snapshots, shown>>

QueryHistory(r) ==
    /\ request[r].at = "history"
    /\ \E rows \in QueryAnswer :
          /\ request' = [request EXCEPT ![r].at = "answered", ![r].history = rows]
          /\ faults' = faults + IF rows = snapshots THEN 0 ELSE 1
    /\ UNCHANGED <<snapshots, shown>>

\* Faulty variant: only the first answer is shown.
FiguresOfOnce(latest) == IF shown = Null THEN latest ELSE shown
\* Figures are replaced by those of an answer that has any.
FiguresOf(latest) == IF latest = Null THEN shown ELSE latest

Answered(r) ==
    /\ request[r].at = "answered"
    /\ shown' = FiguresOf(request[r].latest)
    /\ request' = [request EXCEPT ![r] = Closed]
    /\ UNCHANGED <<snapshots, faults>>

\* The request fails, or its answer is no JSON: the figures stay.
RequestFails(r) ==
    /\ request[r].at # "closed" /\ Fault
    /\ request' = [request EXCEPT ![r] = Closed]
    /\ UNCHANGED <<snapshots, shown>>

Serve(r) == Fetch(r) \/ QueryLatest(r) \/ QueryHistory(r) \/ Answered(r)

Next == RecordSnapshot \/ \E r \in Requests : Serve(r) \/ RequestFails(r)

\* The interval fires again and again, and a request is answered or fails.
Spec == Init /\ [][Next]_vars /\ \A r \in Requests : WF_vars(Serve(r))

-----------------------------------------------------------------------------
(***************************************************************************)
(* Properties                                                              *)
(***************************************************************************)

\* The screen catches up: however answers overtake each other and whichever of the
\* queries and requests fail, once no snapshot is added the figures are, and from
\* then on stay, those of the last one.
FiguresCatchUp == <>[](shown = snapshots)

=============================================================================
