---------------------------- MODULE IndexerProofs -----------------------------
(***************************************************************************)
(* Proofs about the indexer, for any history, page size and number of      *)
(* failures, crashes and late writes: types, that the stored log has no    *)
(* holes but those that starts without a checkpoint have left, and that no *)
(* cursor is ahead of it.  The invariant says of a run in flight, and of a *)
(* write that may still land, what is known of the events it holds.        *)
(***************************************************************************)
EXTENDS Indexer, FiniteSetTheorems, SequenceTheorems, WellFoundedInduction, TLAPS

-----------------------------------------------------------------------------
(***************************************************************************)
(* Sets of numbers                                                         *)
(***************************************************************************)
LEMMA LeastElement ==
    ASSUME NEW S \in SUBSET Nat, S # {}
    PROVE  \E x \in S : \A y \in S : x <= y
<1> DEFINE R == OpToRel(<, Nat)
<1>1. IsWellFoundedOn(R, Nat)
  BY NatLessThanWellFounded, Zenon
<1>2. \A x, y \in Nat : y < x => <<y, x>> \in R
  BY DEF OpToRel
<1> HIDE DEF R
<1>3. PICK x \in S : \A y \in S : ~ (<<y, x>> \in R)
  BY <1>1, WFMin
<1>4. ASSUME NEW y \in S
      PROVE  x <= y
  <2>1. x \in Nat /\ y \in Nat
    OBVIOUS
  <2>2. ~ (y < x)
    BY <1>2, <1>3, <2>1, Zenon
  <2> QED
    BY <2>1, <2>2
<1> QED
  BY <1>4

LEMMA GreatestElement ==
    ASSUME NEW n \in Nat, NEW S \in SUBSET (1 .. n), S # {}
    PROVE  MaxOf(S) \in S /\ \A y \in S : y <= MaxOf(S)
<1> DEFINE T == {n - x : x \in S}
<1>1. T \in SUBSET Nat /\ T # {}
  <2>1. \A x \in S : n - x \in Nat
    OBVIOUS
  <2>2. T \subseteq Nat
    BY <2>1
  <2>3. PICK x \in S : TRUE
    OBVIOUS
  <2>4. n - x \in T
    BY <2>3
  <2> QED
    BY <2>2, <2>4, Zenon
<1>2. PICK t \in T : \A u \in T : t <= u
  BY <1>1, LeastElement
<1>3. PICK x \in S : t = n - x
  BY <1>2
<1>4. ASSUME NEW y \in S
      PROVE  y <= x
  <2>1. t <= n - y
    BY <1>2
  <2>2. x \in 1 .. n /\ y \in 1 .. n
    OBVIOUS
  <2> QED
    BY <1>3, <2>1, <2>2
<1>5. \E m \in S : \A y \in S : y <= m
  BY <1>4
<1> QED
  BY <1>5 DEF MaxOf

LEMMA MaxOfOne == ASSUME NEW i \in Nat PROVE MaxOf({i}) = i
BY DEF MaxOf

-----------------------------------------------------------------------------
(***************************************************************************)
(* The invariant                                                           *)
(***************************************************************************)

\* Later events are in later ledgers.
Sorted ==
    /\ \A i \in DOMAIN chain : chain[i] <= tip
    /\ \A i, j \in DOMAIN chain : i <= j => chain[i] <= chain[j]

\* Everything up to the cursor is stored or skipped, with the events in S; and
\* nothing after it is from before the cursor's ledger.
CursorOK(c, S) ==
    /\ c.event <= Len(chain) /\ c.ledger <= tip
    /\ \A i \in 1 .. c.event : StoredOrSkipped(i) \/ i \in S
    /\ \A i \in DOMAIN chain : i > c.event => chain[i] >= c.ledger

\* The events of a batch are published, and with them stored none is missing before
\* them but what a start has passed over.
BatchOK(S) ==
    /\ S \subseteq DOMAIN chain
    /\ \A j \in S : \A i \in 1 .. j : StoredOrSkipped(i) \/ i \in S

\* The vault's row is there when the initialize event is among the events.
VaultKnown(S) == \A i \in S : Feed[i] = "initialize" => vaultRow = chain[i]

\* Where the watcher starts without a cursor, everything before is stored or skipped.
FromOK(c, ledger) ==
    c = NoCursor => ledger <= tip /\ \A i \in DOMAIN chain : chain[i] < ledger => StoredOrSkipped(i)

\* OnlyStartsLeaveHoles, event by event.
NoOtherHoles == \A j \in rows : \A i \in 1 .. j : StoredOrSkipped(i)

StoredOK ==
    /\ rows \subseteq DOMAIN chain
    /\ NoOtherHoles /\ VaultKnown(rows)
    /\ CursorOK(saved.cursor, {})
    /\ saved = NoCheckpoint \/ saved.cursor # NoCursor

\* A write may land at any time.
WriteOK(w) ==
    /\ w.table = "vaults" =>
           \E i \in DOMAIN chain : w.events = {i} /\ Feed[i] = "initialize"
    /\ w.table = "vault_events" => BatchOK(w.events) /\ VaultKnown(w.events)
    /\ w.table = "indexer_checkpoints" => w.row.cursor # NoCursor
    /\ CursorOK(w.row.cursor, {})

StrayOK == \A w \in stray : WriteOK(w)

Ahead(next, c) == next.event >= c.event /\ next.ledger >= c.ledger /\ next # NoCursor

\* What a run holds at each of its awaits.
RunOK(r) ==
    /\ run[r].at # "idle" => inFlight /\ phase \in {"first", "run"}
    /\ run[r].at = "fetch" => /\ run[r].cursor = cursor
                              /\ FromOK(run[r].cursor, run[r].startLedger)
    /\ run[r].at \in {"vault", "insert"} => /\ BatchOK(run[r].batch)
                                            /\ CursorOK(run[r].next, run[r].batch)
                                            /\ Ahead(run[r].next, cursor)
    /\ run[r].at = "vault" => Initializes(run[r].batch) # {}
    /\ run[r].at = "insert" => VaultKnown(run[r].batch)
    /\ run[r].at = "save" => run[r].next = cursor /\ cursor # NoCursor

\* The guard admits one run.
Solo == \A r, s \in Runs : run[r].at # "idle" /\ run[s].at # "idle" => r = s

Resumes ==
    /\ CursorOK(cursor, {})
    /\ phase \in {"down", "load", "anchor"} => cursor = NoCursor
    /\ phase \in {"ready", "first", "run"} => FromOK(cursor, lastLedger)

MemoryOK == Resumes /\ Solo /\ \A r \in Runs : RunOK(r)

IInv == TypeOK /\ Sorted /\ StoredOK /\ StrayOK /\ MemoryOK

\* Types in the form the steps use them.
Writes == [table : {"vaults", "vault_events", "indexer_checkpoints"},
           events : SUBSET VaultEvents, row : Checkpoints]

LEMMA ChainTypes ==
    ASSUME TypeOK
    PROVE  /\ Len(chain) \in Nat /\ DOMAIN chain = 1 .. Len(chain)
           /\ DOMAIN chain \subseteq DOMAIN Feed /\ Len(Feed) \in Nat
           /\ DOMAIN Feed = 1 .. Len(Feed)
           /\ tip \in 1 .. MaxLedger /\ MaxLedger \in Nat
           /\ \A i \in DOMAIN chain : chain[i] \in 1 .. MaxLedger
BY FeedAssumption, BoundsAssumption DEF TypeOK

LEMMA CursorTypes ==
    ASSUME NEW c \in Cursors PROVE c.event \in Nat /\ c.ledger \in Nat
BY FeedAssumption, BoundsAssumption DEF Cursors

LEMMA NoCursorOK ==
    ASSUME TypeOK PROVE NoCursor \in Cursors /\ CursorOK(NoCursor, {})
BY ChainTypes DEF NoCursor, Cursors, CursorOK

-----------------------------------------------------------------------------
(***************************************************************************)
(* Pages                                                                   *)
(***************************************************************************)
LEMMA PageFacts ==
    ASSUME TypeOK, Sorted, NEW q \in RunStates
    PROVE  /\ Page(q) \subseteq Matching(q) /\ Matching(q) \subseteq DOMAIN chain
           /\ \A j \in Page(q), i \in Matching(q) : i <= j => i \in Page(q)
           /\ Cardinality(Page(q)) # PageLimit => Page(q) = Matching(q)
           /\ Cardinality(Page(q)) = PageLimit => Page(q) # {}
<1> DEFINE M == Matching(q)
           P == Page(q)
           Before(i) == {j \in M : j < i}
<1>1. P \subseteq M /\ M \subseteq DOMAIN chain
  BY DEF Page, Matching
<1>2. M \subseteq 1 .. Len(chain) /\ Len(chain) \in Nat
  BY <1>1, ChainTypes
<1>3. IsFiniteSet(M)
  <2>1. IsFiniteSet(1 .. Len(chain))
    BY <1>2, FS_Interval
  <2>2. M \in SUBSET (1 .. Len(chain))
    BY <1>2
  <2> QED
    BY <2>1, <2>2, FS_Subset
<1>4. \A i \in M : i \in P <=> Cardinality(Before(i)) < PageLimit
  BY DEF Page
<1>5. \A i : IsFiniteSet(Before(i)) /\ Cardinality(Before(i)) \in Nat
  <2> TAKE i
  <2>1. Before(i) \in SUBSET M
    OBVIOUS
  <2>2. IsFiniteSet(Before(i))
    BY <1>3, <2>1, FS_Subset
  <2> QED
    BY <2>2, FS_CardinalityType
<1> HIDE DEF M, P
<1>6. ASSUME NEW j \in P, NEW i \in M, i <= j
      PROVE  i \in P
  <2>1. Before(i) \in SUBSET Before(j)
    BY <1>1, <1>2, <1>6
  <2>2. Cardinality(Before(i)) <= Cardinality(Before(j))
    BY <1>5, <2>1, FS_Subset
  <2>3. Cardinality(Before(j)) < PageLimit
    BY <1>1, <1>4
  <2> HIDE DEF Before
  <2> QED
    BY <1>4, <1>5, <2>2, <2>3, PageAssumption
<1>7. IsFiniteSet(P) /\ Cardinality(P) \in Nat
  BY <1>1, <1>3, FS_Subset, FS_CardinalityType
<1>8. Cardinality(P) <= PageLimit
  <2>1. CASE P = {}
    BY <2>1, FS_EmptySet, PageAssumption
  <2>2. CASE P # {}
    <3> DEFINE m == MaxOf(P)
    <3>1. m \in P /\ \A y \in P : y <= m
      BY <1>1, <1>2, <2>2, GreatestElement
    <3> HIDE DEF m
    <3>2. P \in SUBSET (Before(m) \cup {m})
      BY <1>1, <1>2, <3>1
    <3>3. IsFiniteSet(Before(m)) /\ m \notin Before(m)
      <4>1. m \in Nat
        BY <1>1, <1>2, <3>1
      <4>2. m \notin Before(m)
        BY <4>1
      <4> HIDE DEF Before
      <4> QED
        BY <1>5, <4>2
    <3>4. /\ IsFiniteSet(Before(m) \cup {m})
          /\ Cardinality(Before(m) \cup {m}) = Cardinality(Before(m)) + 1
      BY <3>3, FS_AddElement
    <3>5. Cardinality(P) <= Cardinality(Before(m) \cup {m})
      BY <3>2, <3>4, FS_Subset
    <3>6. Cardinality(Before(m)) < PageLimit /\ Cardinality(Before(m)) \in Nat
      BY <1>1, <1>4, <1>5, <3>1
    <3> HIDE DEF Before
    <3> QED
      BY <1>7, <3>4, <3>5, <3>6, PageAssumption
  <2> QED
    BY <2>1, <2>2
<1>9. ASSUME Cardinality(P) # PageLimit, P # M
      PROVE  FALSE
  <2>1. M \ P \in SUBSET Nat /\ M \ P # {}
    BY <1>1, <1>2, <1>9
  <2>2. PICK x \in M \ P : \A y \in M \ P : x <= y
    BY <2>1, LeastElement
  <2>3. Before(x) \in SUBSET P
    <3> SUFFICES ASSUME NEW y \in M, y < x PROVE y \in P
      OBVIOUS
    <3>1. x \in Nat /\ y \in Nat
      BY <1>2, <2>2
    <3> QED
      BY <2>2, <3>1
  <2>4. Cardinality(Before(x)) <= Cardinality(P)
    BY <1>7, <2>3, FS_Subset
  <2>5. ~(Cardinality(Before(x)) < PageLimit) /\ Cardinality(Before(x)) \in Nat
    BY <1>4, <1>5, <2>2
  <2> HIDE DEF Before
  <2> QED
    BY <1>7, <1>8, <1>9, <2>4, <2>5, PageAssumption
<1>10. Cardinality(P) = PageLimit => P # {}
  BY FS_EmptySet, PageAssumption
<1> QED
  BY <1>1, <1>6, <1>9, <1>10 DEF M, P

\* A page answers a request without a hole: with its events stored the new cursor
\* has nothing missing before it but what a start has passed over.
LEMMA PageOK ==
    ASSUME TypeOK, Sorted, NEW q \in RunStates,
           CursorOK(q.cursor, {}), FromOK(q.cursor, q.startLedger)
    PROVE  /\ Decoded(Page(q)) \subseteq VaultEvents
           /\ BatchOK(Decoded(Page(q)))
           /\ PageCursor(Page(q)) \in Cursors
           /\ CursorOK(PageCursor(Page(q)), Decoded(Page(q)))
           /\ Ahead(PageCursor(Page(q)), q.cursor)
<1> DEFINE M == Matching(q)
           P == Page(q)
           S == Decoded(P)
           next == PageCursor(P)
<1>1. /\ P \subseteq M /\ M \subseteq DOMAIN chain
      /\ \A j \in P, i \in M : i <= j => i \in P
      /\ Cardinality(P) # PageLimit => P = M
      /\ Cardinality(P) = PageLimit => P # {}
  BY PageFacts
<1>2. /\ Len(chain) \in Nat /\ DOMAIN chain = 1 .. Len(chain) /\ Len(chain) <= Len(Feed)
      /\ DOMAIN Feed = 1 .. Len(Feed) /\ tip \in 1 .. MaxLedger /\ Len(Feed) \in Nat
      /\ \A i \in DOMAIN chain : chain[i] \in 1 .. MaxLedger
  BY ChainTypes DEF TypeOK
<1>3. q.cursor.event \in Nat /\ q.cursor.ledger \in Nat /\ q.startLedger \in Nat
  BY CursorTypes, BoundsAssumption DEF RunStates
<1>4. ASSUME NEW i \in DOMAIN chain, i \notin M
      PROVE  StoredOrSkipped(i)
  <2>1. CASE q.cursor = NoCursor
    BY <1>2, <1>3, <1>4, <2>1 DEF Matching, FromOK
  <2>2. CASE q.cursor # NoCursor
    <3>1. i \in 1 .. q.cursor.event
      BY <1>2, <1>3, <1>4, <2>2 DEF Matching
    <3> QED
      BY <3>1 DEF CursorOK
  <2> QED
    BY <2>1, <2>2
<1>5. \A i \in M : i > q.cursor.event /\ chain[i] >= q.cursor.ledger
  <2>1. CASE q.cursor = NoCursor
    BY <1>1, <1>2, <2>1 DEF NoCursor
  <2>2. CASE q.cursor # NoCursor
    BY <1>1, <2>2 DEF Matching, CursorOK
  <2> QED
    BY <2>1, <2>2
<1>6. S \subseteq VaultEvents /\ S \subseteq P
  BY <1>1, <1>2 DEF Decoded, VaultEvents
<1>7. \A i \in P : StoredOrSkipped(i) \/ i \in S
  BY DEF StoredOrSkipped, VaultEvents, Decoded
<1> HIDE DEF S
<1>8. \A j \in P : \A i \in 1 .. j : StoredOrSkipped(i) \/ i \in S
  BY <1>1, <1>2, <1>4, <1>7
<1>9. BatchOK(S)
  BY <1>1, <1>6, <1>8 DEF BatchOK
<1>10. CASE Cardinality(P) = PageLimit
  <2> DEFINE m == MaxOf(P)
  <2>1. m \in P
    BY <1>1, <1>2, <1>10, GreatestElement
  <2>2. next = [ledger |-> chain[m], event |-> m]
    BY <1>10 DEF PageCursor
  <2> HIDE DEF m, next, P, M
  <2>3. next.ledger = chain[m] /\ next.event = m /\ m \in DOMAIN chain /\ m \in M
    BY <1>1, <2>1, <2>2
  <2>4. next \in Cursors
    BY <1>2, <2>2, <2>3 DEF Cursors
  <2>5. CursorOK(next, S)
    BY <1>2, <1>8, <2>1, <2>3 DEF CursorOK, Sorted
  <2>6. Ahead(next, q.cursor)
    BY <1>2, <1>3, <1>5, <2>3 DEF Ahead, NoCursor
  <2> QED
    BY <1>6, <1>9, <2>4, <2>5, <2>6 DEF S, P, next
<1>11. CASE Cardinality(P) # PageLimit
  <2>1. next = [ledger |-> tip, event |-> Len(chain)]
    BY <1>11 DEF PageCursor
  <2> HIDE DEF next, P, M
  <2>2. next.ledger = tip /\ next.event = Len(chain)
    BY <2>1
  <2>3. next \in Cursors
    BY <1>2, <2>1 DEF Cursors
  <2>4. CursorOK(next, S)
    BY <1>1, <1>2, <1>4, <1>7, <1>11, <2>2 DEF CursorOK
  <2>5. Ahead(next, q.cursor)
    BY <1>2, <1>3, <2>2 DEF Ahead, NoCursor, CursorOK
  <2> QED
    BY <1>6, <1>9, <2>3, <2>4, <2>5 DEF S, P, next
<1> QED
  BY <1>10, <1>11

-----------------------------------------------------------------------------
(***************************************************************************)
(* What every step leaves true                                             *)
(***************************************************************************)
ExternalTypes == /\ chain \in Seq(1 .. MaxLedger) /\ Len(chain) <= Len(Feed)
                 /\ tip \in 1 .. MaxLedger /\ oldest \in 1 .. tip
DatabaseTypes == rows \subseteq VaultEvents /\ vaultRow \in 0 .. MaxLedger /\ saved \in Checkpoints
WriteType(w)  == /\ w.table \in {"vaults", "vault_events", "indexer_checkpoints"}
                 /\ w.events \subseteq VaultEvents /\ w.row \in Checkpoints
StrayTypes    == \A w \in stray : WriteType(w)
MemoryTypes   == /\ phase \in {"down", "load", "anchor", "ready", "first", "run"}
                 /\ cursor \in Cursors /\ lastLedger \in 0 .. MaxLedger /\ inFlight \in BOOLEAN
                 /\ run \in [Runs -> RunStates]
CountTypes    == /\ skipped \subseteq DOMAIN Feed
                 /\ faults \in 0 .. MaxFaults /\ crashes \in 0 .. MaxCrashes

LEMMA TypeParts ==
    TypeOK <=> ExternalTypes /\ DatabaseTypes /\ StrayTypes /\ MemoryTypes /\ CountTypes
BY Zenon DEF TypeOK, ExternalTypes, DatabaseTypes, WriteType, StrayTypes, MemoryTypes, CountTypes

LEMMA TypePartsNext ==
    ASSUME ExternalTypes', DatabaseTypes', StrayTypes', MemoryTypes', CountTypes'
    PROVE  TypeOK'
BY DEF TypeOK, ExternalTypes, DatabaseTypes, WriteType, StrayTypes, MemoryTypes, CountTypes

\* The history, the log and what was passed over only grow, later events are in later
\* ledgers, and there is one value the vault's row takes.
Later ==
    /\ Len(chain') \in Nat /\ DOMAIN chain' = 1 .. Len(chain') /\ Len(chain) <= Len(chain')
    /\ \A i \in DOMAIN chain : chain'[i] = chain[i]
    /\ \A i \in DOMAIN chain' : i > Len(chain) => chain'[i] > tip /\ chain'[i] \in Nat
    /\ tip' \in Nat /\ tip <= tip'
    /\ rows \subseteq rows' /\ skipped \subseteq skipped'
    /\ \/ vaultRow' = vaultRow
       \/ \E i \in DOMAIN chain : Feed[i] = "initialize" /\ vaultRow' = chain[i]

LEMMA StoredOrSkippedStays ==
    ASSUME Later, NEW i, StoredOrSkipped(i) PROVE StoredOrSkipped(i)'
BY DEF Later, StoredOrSkipped

LEMMA CursorStays ==
    ASSUME TypeOK, Later, NEW c \in Cursors, NEW S, CursorOK(c, S) PROVE CursorOK(c, S)'
<1>1. /\ Len(chain) \in Nat /\ DOMAIN chain = 1 .. Len(chain) /\ tip \in Nat
      /\ c.event \in Nat /\ c.ledger \in Nat
  BY ChainTypes, CursorTypes
<1>2. \A i \in 1 .. c.event : StoredOrSkipped(i)' \/ i \in S
  BY StoredOrSkippedStays DEF CursorOK
<1>3. /\ c.event <= Len(chain') /\ c.ledger <= tip'
      /\ \A i \in DOMAIN chain' : i > c.event => chain'[i] >= c.ledger
  BY <1>1 DEF CursorOK, Later
<1> QED
  BY <1>2, <1>3 DEF CursorOK

LEMMA BatchStays ==
    ASSUME TypeOK, Later, NEW S, BatchOK(S) PROVE BatchOK(S)'
<1>1. Len(chain) \in Nat /\ DOMAIN chain = 1 .. Len(chain)
  BY ChainTypes
<1>2. S \subseteq DOMAIN chain'
  BY <1>1 DEF BatchOK, Later
<1>3. \A j \in S : \A i \in 1 .. j : StoredOrSkipped(i)' \/ i \in S
  BY StoredOrSkippedStays DEF BatchOK
<1> QED
  BY <1>2, <1>3 DEF BatchOK

LEMMA VaultStays ==
    ASSUME TypeOK, Later, NEW S, S \subseteq DOMAIN chain, VaultKnown(S) PROVE VaultKnown(S)'
<1> SUFFICES ASSUME NEW i \in S, Feed[i] = "initialize" PROVE vaultRow' = chain'[i]
  BY DEF VaultKnown
<1>1. i \in DOMAIN chain /\ chain'[i] = chain[i] /\ vaultRow = chain[i]
  BY DEF Later, VaultKnown
<1>2. \A j \in DOMAIN chain : Feed[j] = "initialize" => j = i
  BY <1>1, ChainTypes, InitializedOnce
<1> QED
  BY <1>1, <1>2 DEF Later

LEMMA FromStays ==
    ASSUME TypeOK, Later, NEW c, NEW ledger \in Nat, FromOK(c, ledger) PROVE FromOK(c, ledger)'
<1>1. Len(chain) \in Nat /\ DOMAIN chain = 1 .. Len(chain) /\ tip \in Nat
  BY ChainTypes
<1> SUFFICES ASSUME c = NoCursor
             PROVE  /\ ledger <= tip'
                    /\ \A i \in DOMAIN chain' : chain'[i] < ledger => StoredOrSkipped(i)'
  BY DEF FromOK
<1>2. ledger <= tip /\ \A i \in DOMAIN chain : chain[i] < ledger => StoredOrSkipped(i)
  BY DEF FromOK
<1>3. ledger <= tip'
  BY <1>1, <1>2 DEF Later
<1>4. ASSUME NEW i \in DOMAIN chain', chain'[i] < ledger
      PROVE  StoredOrSkipped(i)'
  <2>1. i \in DOMAIN chain /\ chain[i] < ledger
    BY <1>1, <1>2, <1>4 DEF Later
  <2> QED
    BY <1>2, <2>1, StoredOrSkippedStays
<1> QED
  BY <1>3, <1>4

LEMMA WriteStays ==
    ASSUME TypeOK, Later, NEW w, WriteType(w), WriteOK(w) PROVE WriteOK(w)'
<1>1. w.row.cursor \in Cursors
  BY DEF WriteType, Checkpoints
<1>2. CursorOK(w.row.cursor, {})'
  BY <1>1, CursorStays DEF WriteOK
<1>3. w.table = "vaults" =>
          \E i \in DOMAIN chain' : w.events = {i} /\ Feed[i] = "initialize"
  BY ChainTypes DEF WriteOK, Later
<1>4. w.table = "vault_events" => BatchOK(w.events)' /\ VaultKnown(w.events)'
  BY BatchStays, VaultStays DEF WriteOK, BatchOK
<1> QED
  BY <1>2, <1>3, <1>4 DEF WriteOK

\* Nothing but the watcher's memory, or the counts, has moved.
LEMMA QuietDatabase ==
    ASSUME IInv, UNCHANGED <<external, database>>, skipped \subseteq skipped'
    PROVE  Later /\ Sorted' /\ StoredOK' /\ ExternalTypes' /\ DatabaseTypes'
<1>1. TypeOK /\ StoredOK /\ Sorted
  BY DEF IInv
<1>2. /\ chain' = chain /\ tip' = tip /\ oldest' = oldest
      /\ rows' = rows /\ vaultRow' = vaultRow /\ saved' = saved
  BY DEF external, database
<1>3. Later
  BY <1>1, <1>2, ChainTypes DEF Later
<1>4. Sorted' /\ ExternalTypes' /\ DatabaseTypes'
  BY <1>1, <1>2, TypeParts DEF Sorted, ExternalTypes, DatabaseTypes
<1>5. CursorOK(saved.cursor, {})'
  <2>1. saved.cursor \in Cursors
    BY <1>1 DEF TypeOK, Checkpoints
  <2>2. \A c \in Cursors : CursorOK(c, {}) => CursorOK(c, {})'
    BY <1>1, <1>3, CursorStays
  <2> QED
    BY <1>1, <1>2, <2>1, <2>2 DEF StoredOK, CursorOK
<1>6. NoOtherHoles' /\ VaultKnown(rows)'
  BY <1>1, <1>2, <1>3, StoredOrSkippedStays DEF StoredOK, NoOtherHoles, VaultKnown
<1> QED
  BY <1>1, <1>2, <1>3, <1>4, <1>5, <1>6 DEF StoredOK

\* Writes that go astray, or none.
LEMMA StrayStays ==
    ASSUME IInv, Later, NEW W, \A w \in W : WriteType(w) /\ WriteOK(w),
           stray' \subseteq stray \cup W
    PROVE  StrayOK' /\ StrayTypes'
<1>1. \A w \in stray' : WriteType(w) /\ WriteOK(w)
  BY TypeParts DEF IInv, StrayOK, StrayTypes
<1>2. StrayOK'
  BY <1>1, WriteStays DEF IInv, StrayOK
<1>3. StrayTypes'
  BY <1>1 DEF StrayTypes, WriteType
<1> QED
  BY <1>2, <1>3

LEMMA StrayShrinks ==
    ASSUME IInv, Later, stray' \subseteq stray PROVE StrayOK' /\ StrayTypes'
<1> DEFINE none == {}
<1>1. stray' \subseteq stray \cup none /\ \A w \in none : WriteType(w) /\ WriteOK(w)
  OBVIOUS
<1> HIDE DEF none
<1> QED
  BY <1>1, StrayStays

LEMMA QuietMemory ==
    ASSUME IInv, Later, UNCHANGED memory PROVE MemoryOK' /\ MemoryTypes'
<1>1. TypeOK /\ MemoryOK /\ MemoryTypes
  BY TypeParts DEF IInv
<1>2. phase' = phase /\ cursor' = cursor /\ lastLedger' = lastLedger /\ inFlight' = inFlight
      /\ run' = run
  BY DEF memory
<1>3. MemoryTypes'
  BY <1>1, <1>2 DEF MemoryTypes
<1>4. \A c \in Cursors : \A S : CursorOK(c, S) => CursorOK(c, S)'
  BY <1>1, CursorStays
<1>5. \A c, ledger : ledger \in Nat /\ FromOK(c, ledger) => FromOK(c, ledger)'
  BY <1>1, FromStays
<1>6. lastLedger \in Nat /\ cursor \in Cursors /\ Resumes
  BY <1>1, BoundsAssumption DEF MemoryTypes, MemoryOK
<1>7. Resumes'
  BY <1>2, <1>4, <1>5, <1>6 DEF Resumes
<1>8. Solo'
  BY <1>1, <1>2 DEF MemoryOK, Solo
<1>9. ASSUME NEW r \in Runs
      PROVE  RunOK(r)'
  <2>1. RunOK(r) /\ run[r] \in RunStates
    BY <1>1 DEF MemoryOK, MemoryTypes
  <2>2. run[r].startLedger \in Nat /\ run[r].next \in Cursors
    BY <2>1, BoundsAssumption DEF RunStates
  <2>3. run[r].at = "fetch" => FromOK(run[r].cursor, run[r].startLedger)'
    BY <1>2, <1>5, <2>1, <2>2 DEF RunOK
  <2>4. run[r].at \in {"vault", "insert"} =>
            BatchOK(run[r].batch)' /\ CursorOK(run[r].next, run[r].batch)'
    <3>1. \A S : BatchOK(S) => BatchOK(S)'
      BY <1>1, BatchStays
    <3> QED
      BY <1>2, <1>4, <2>1, <2>2, <3>1 DEF RunOK
  <2>5. run[r].at = "insert" => VaultKnown(run[r].batch)'
    <3>1. \A S : S \subseteq DOMAIN chain /\ VaultKnown(S) => VaultKnown(S)'
      BY <1>1, VaultStays
    <3> QED
      BY <1>2, <2>1, <3>1 DEF RunOK, BatchOK
  <2> QED
    BY <1>2, <2>1, <2>3, <2>4, <2>5 DEF RunOK, Ahead, Initializes
<1> QED
  BY <1>3, <1>7, <1>8, <1>9 DEF MemoryOK

-----------------------------------------------------------------------------
(***************************************************************************)
(* Writes that land                                                        *)
(***************************************************************************)
LEMMA OneInitialize ==
    ASSUME TypeOK, NEW S, S \subseteq DOMAIN chain, Initializes(S) # {}
    PROVE  \E i \in S : /\ Feed[i] = "initialize" /\ i \in DOMAIN chain
                        /\ Initializes(S) = {i} /\ MaxOf(Initializes(S)) = i
<1>1. PICK i \in S : Feed[i] = "initialize"
  BY DEF Initializes
<1>2. i \in Nat /\ i \in DOMAIN chain
  BY ChainTypes
<1>3. \A j \in S : Feed[j] = "initialize" => j = i
  BY <1>1, <1>2, ChainTypes, InitializedOnce
<1>4. Initializes(S) = {i}
  BY <1>1, <1>3 DEF Initializes
<1> QED
  BY <1>1, <1>2, <1>4, MaxOfOne

LEMMA LandOK ==
    ASSUME IInv, NEW w, WriteType(w), WriteOK(w), Land(w), UNCHANGED external,
           skipped' = skipped
    PROVE  /\ Later /\ Sorted' /\ StoredOK' /\ ExternalTypes' /\ DatabaseTypes'
           /\ w.table = "vault_events" => w.events \subseteq rows'
           /\ w.table = "vaults" => VaultKnown(DOMAIN chain)'
<1>1. TypeOK /\ StoredOK /\ Sorted /\ ExternalTypes /\ DatabaseTypes
  BY TypeParts DEF IInv
<1>2. chain' = chain /\ tip' = tip /\ oldest' = oldest
  BY DEF external
<1>3. ASSUME w.table = "vaults"
      PROVE  \E i \in DOMAIN chain : Feed[i] = "initialize" /\ vaultRow' = chain[i]
  <2>1. PICK i \in DOMAIN chain : w.events = {i} /\ Feed[i] = "initialize"
    BY <1>3 DEF WriteOK
  <2>2. MaxOf(w.events) = i
    BY <2>1, <1>1, ChainTypes, MaxOfOne
  <2> QED
    BY <1>3, <2>1, <2>2 DEF Land
<1>4. /\ rows \subseteq rows'
      /\ w.table # "vaults" => vaultRow' = vaultRow
      /\ rows' = IF w.table = "vault_events" THEN rows \cup w.events ELSE rows
      /\ saved' = IF w.table = "indexer_checkpoints" THEN w.row ELSE saved
  BY DEF Land
<1>5. Later
  BY <1>1, <1>2, <1>3, <1>4, ChainTypes DEF Later
<1>6. Sorted' /\ ExternalTypes'
  BY <1>1, <1>2 DEF Sorted, ExternalTypes
<1>7. DatabaseTypes'
  <2>1. vaultRow' \in 0 .. MaxLedger
    BY <1>1, <1>3, <1>4, ChainTypes DEF DatabaseTypes
  <2> QED
    BY <1>1, <1>4, <2>1 DEF DatabaseTypes, WriteType
<1>8. \A c \in Cursors : CursorOK(c, {}) => CursorOK(c, {})'
  BY <1>1, <1>5, CursorStays
<1>9. CursorOK(saved.cursor, {})' /\ (saved' = NoCheckpoint \/ saved'.cursor # NoCursor)
  <2>1. saved.cursor \in Cursors /\ w.row.cursor \in Cursors
    BY <1>1 DEF DatabaseTypes, Checkpoints, WriteType
  <2>2. CursorOK(saved.cursor, {}) /\ CursorOK(w.row.cursor, {})
    BY <1>1 DEF StoredOK, WriteOK
  <2>3. saved' = saved \/ (saved' = w.row /\ w.row.cursor # NoCursor)
    BY <1>4 DEF WriteOK
  <2>4. CASE saved' = saved
    BY <1>1, <1>8, <2>1, <2>2, <2>4 DEF StoredOK
  <2>5. CASE saved' = w.row /\ w.row.cursor # NoCursor
    BY <1>8, <2>1, <2>2, <2>5
  <2> QED
    BY <2>3, <2>4, <2>5
<1>10. rows' \subseteq DOMAIN chain' /\ NoOtherHoles' /\ VaultKnown(rows)'
  <2>1. \A i : StoredOrSkipped(i) => StoredOrSkipped(i)'
    BY <1>5, StoredOrSkippedStays
  <2>2. CASE w.table # "vault_events"
    <3>1. rows' = rows
      BY <1>4, <2>2
    <3>2. VaultKnown(rows)'
      <4>1. \A S : S \subseteq DOMAIN chain /\ VaultKnown(S) => VaultKnown(S)'
        BY <1>1, <1>5, VaultStays
      <4> QED
        BY <1>1, <3>1, <4>1 DEF StoredOK
    <3> QED
      BY <1>1, <1>2, <2>1, <3>1, <3>2 DEF StoredOK, NoOtherHoles
  <2>3. CASE w.table = "vault_events"
    <3>1. BatchOK(w.events) /\ VaultKnown(w.events) /\ rows' = rows \cup w.events
      BY <1>4, <2>3 DEF WriteOK
    <3>2. vaultRow' = vaultRow
      BY <1>4, <2>3
    <3>3. VaultKnown(rows)'
      BY <1>1, <1>2, <3>1, <3>2 DEF VaultKnown, StoredOK
    <3>4. \A i \in w.events : StoredOrSkipped(i)'
      BY <3>1 DEF StoredOrSkipped
    <3>5. \A j \in rows' : \A i \in 1 .. j : StoredOrSkipped(i)'
      BY <1>1, <2>1, <3>1, <3>4 DEF StoredOK, NoOtherHoles, BatchOK
    <3> QED
      BY <1>1, <1>2, <3>1, <3>3, <3>5 DEF StoredOK, NoOtherHoles, BatchOK
  <2> QED
    BY <2>2, <2>3
<1>11. w.table = "vault_events" => w.events \subseteq rows'
  BY <1>4
<1>12. w.table = "vaults" => VaultKnown(DOMAIN chain)'
  <2>1. \A i, j \in DOMAIN chain : Feed[i] = "initialize" /\ Feed[j] = "initialize" => i = j
    BY <1>1, ChainTypes, InitializedOnce
  <2> QED
    BY <1>2, <1>3, <2>1 DEF VaultKnown
<1> QED
  BY <1>5, <1>6, <1>7, <1>9, <1>10, <1>11, <1>12 DEF StoredOK

\* What a run waits to have written may be written, now or later.
LEMMA PendingOK ==
    ASSUME IInv, NEW r \in Runs, NEW w \in Pending(r)
    PROVE  WriteType(w) /\ WriteOK(w)
<1>1. TypeOK /\ RunOK(r) /\ run[r] \in RunStates /\ Resumes
  BY TypeParts DEF IInv, MemoryOK, MemoryTypes
<1>2. NoCheckpoint \in Checkpoints /\ CursorOK(NoCheckpoint.cursor, {})
  <2>1. NoCursor \in Cursors /\ CursorOK(NoCursor, {})
    BY <1>1, NoCursorOK
  <2> QED
    BY <2>1, BoundsAssumption DEF NoCheckpoint, Checkpoints
<1>3. CASE run[r].at = "vault"
  <2>1. run[r].batch \subseteq DOMAIN chain /\ Initializes(run[r].batch) # {}
        /\ run[r].batch \subseteq VaultEvents
    BY <1>1, <1>3 DEF RunOK, BatchOK, RunStates
  <2>2. PICK i \in run[r].batch : /\ Feed[i] = "initialize" /\ i \in DOMAIN chain
                                  /\ MaxOf(Initializes(run[r].batch)) = i
    BY <1>1, <2>1, OneInitialize
  <2>3. w = [table |-> "vaults", events |-> {i}, row |-> NoCheckpoint]
    BY <1>3, <2>2 DEF Pending, VaultWrite
  <2> QED
    BY <1>2, <2>1, <2>2, <2>3 DEF WriteType, WriteOK
<1>4. CASE run[r].at = "insert"
  <2>1. w = [table |-> "vault_events", events |-> run[r].batch, row |-> NoCheckpoint]
    BY <1>4 DEF Pending, EventsWrite
  <2>2. BatchOK(run[r].batch) /\ VaultKnown(run[r].batch) /\ run[r].batch \subseteq VaultEvents
    BY <1>1, <1>4 DEF RunOK, RunStates
  <2> QED
    BY <1>2, <2>1, <2>2 DEF WriteType, WriteOK
<1>5. CASE run[r].at = "save"
  <2> DEFINE row == [cursor |-> run[r].next, lastLedger |-> run[r].ledger]
  <2>1. w = [table |-> "indexer_checkpoints", events |-> {}, row |-> row]
    BY <1>5 DEF Pending, CheckpointWrite
  <2>2. row \in Checkpoints
    BY <1>1 DEF RunStates, Checkpoints
  <2>3. row.cursor = cursor /\ cursor # NoCursor /\ CursorOK(cursor, {})
    BY <1>1, <1>5 DEF RunOK, Resumes
  <2> HIDE DEF row
  <2> QED
    BY <2>1, <2>2, <2>3 DEF WriteType, WriteOK
<1>6. CASE run[r].at \notin {"vault", "insert", "save"}
  BY <1>6 DEF Pending
<1> QED
  BY <1>3, <1>4, <1>5, <1>6

-----------------------------------------------------------------------------
(***************************************************************************)
(* The watcher's memory                                                    *)
(***************************************************************************)
LEMMA IdleType == Idle \in RunStates /\ Idle.at = "idle"
<1>1. NoCursor \in Cursors
  BY FeedAssumption, BoundsAssumption DEF NoCursor, Cursors
<1> QED
  BY <1>1, BoundsAssumption DEF Idle, RunStates

LEMMA NothingInFlight ==
    ASSUME run' \in [Runs -> RunStates], \A r \in Runs : run'[r].at = "idle", Resumes'
    PROVE  MemoryOK'
<1>1. Solo'
  BY DEF Solo
<1>2. \A r \in Runs : RunOK(r)'
  BY DEF RunOK
<1> QED
  BY <1>1, <1>2 DEF MemoryOK

\* The same cursor, still good.
LEMMA ResumesStay ==
    ASSUME IInv, Later, cursor' = cursor,
           phase \in {"ready", "first", "run"}, phase' \in {"ready", "first", "run"},
           lastLedger' = lastLedger \/ cursor # NoCursor
    PROVE  Resumes'
<1>1. TypeOK /\ Resumes /\ cursor \in Cursors /\ lastLedger \in Nat
  BY TypeParts, BoundsAssumption DEF IInv, MemoryOK, MemoryTypes
<1>2. CursorOK(cursor, {})'
  <2>1. \A c \in Cursors : CursorOK(c, {}) => CursorOK(c, {})'
    BY <1>1, CursorStays
  <2> QED
    BY <1>1, <2>1 DEF Resumes
<1>3. FromOK(cursor, lastLedger)'
  <2>1. CASE cursor # NoCursor
    BY <2>1 DEF FromOK
  <2>2. CASE lastLedger' = lastLedger
    <3>1. \A c : FromOK(c, lastLedger) => \A l : l = lastLedger => FromOK(c, l)'
      BY <1>1, FromStays
    <3> QED
      BY <1>1, <2>2, <3>1 DEF Resumes
  <2> QED
    BY <2>1, <2>2
<1> QED
  BY <1>2, <1>3 DEF Resumes

LEMMA ReleaseOK ==
    ASSUME IInv, Later, NEW r \in Runs, run[r].at # "idle", NEW ok, Release(r, ok),
           cursor' = cursor,
           lastLedger' = lastLedger \/ (lastLedger' \in 0 .. MaxLedger /\ cursor # NoCursor)
    PROVE  MemoryOK' /\ MemoryTypes'
<1>1. MemoryTypes /\ MemoryOK /\ phase \in {"first", "run"}
  BY TypeParts DEF IInv, MemoryOK, RunOK
<1>2. phase' = "run" /\ inFlight' = FALSE /\ run' = [run EXCEPT ![r] = Idle]
  BY <1>1 DEF Release
<1>3. run' \in [Runs -> RunStates] /\ \A s \in Runs : run'[s].at = "idle"
  BY <1>1, <1>2, IdleType DEF MemoryTypes, MemoryOK, Solo
<1>4. Resumes'
  BY <1>1, <1>2, ResumesStay
<1>5. MemoryTypes'
  BY <1>1, <1>2, <1>3 DEF MemoryTypes
<1> QED
  BY <1>3, <1>4, <1>5, NothingInFlight

\* A run goes on to its next await.
LEMMA RunMoves ==
    ASSUME IInv, Later, NEW r \in Runs, NEW d \in RunStates,
           run[r].at # "idle" \/ (~inFlight /\ phase \in {"ready", "run"}),
           run' = [run EXCEPT ![r] = d], d.at # "idle", inFlight', inFlight' \in BOOLEAN,
           phase' = IF phase = "ready" THEN "first" ELSE phase,
           cursor' = cursor,
           lastLedger' = lastLedger \/ (lastLedger' \in 0 .. MaxLedger /\ cursor # NoCursor),
           d.at = "fetch" => d.cursor = cursor /\ FromOK(d.cursor, d.startLedger)',
           d.at \in {"vault", "insert"} => /\ BatchOK(d.batch)' /\ CursorOK(d.next, d.batch)'
                                           /\ Ahead(d.next, cursor),
           d.at = "vault" => Initializes(d.batch) # {},
           d.at = "insert" => VaultKnown(d.batch)',
           d.at = "save" => d.next = cursor /\ cursor # NoCursor
    PROVE  MemoryOK' /\ MemoryTypes'
<1>1. /\ MemoryTypes /\ MemoryOK /\ run \in [Runs -> RunStates]
      /\ \A s \in Runs : s # r => run[s].at = "idle"
      /\ phase \in {"ready", "first", "run"}
  BY TypeParts DEF IInv, MemoryOK, Solo, RunOK, MemoryTypes
<1>2. phase' \in {"first", "run"}
  BY <1>1
<1>3. run' \in [Runs -> RunStates] /\ run'[r] = d
      /\ \A s \in Runs : s # r => run'[s].at = "idle"
  BY <1>1
<1>4. MemoryTypes'
  BY <1>1, <1>2, <1>3 DEF MemoryTypes
<1>5. Resumes'
  BY <1>1, <1>2, ResumesStay
<1>6. Solo'
  BY <1>3 DEF Solo
<1>7. ASSUME NEW s \in Runs
      PROVE  RunOK(s)'
  <2>1. CASE s = r
    BY <1>2, <1>3, <2>1 DEF RunOK, Ahead, Initializes
  <2>2. CASE s # r
    BY <1>3, <2>2 DEF RunOK
  <2> QED
    BY <2>1, <2>2
<1> QED
  BY <1>4, <1>5, <1>6, <1>7 DEF MemoryOK

\* The cursor moves on, to where nothing is missing.
LEMMA ProjectedOK ==
    ASSUME IInv, Later, NEW r \in Runs, NEW b \in RunStates,
           run[r].at \in {"fetch", "insert"},
           Ahead(b.next, cursor), CursorOK(b.next, {})', Projected(r, b)
    PROVE  /\ MemoryOK' /\ MemoryTypes'
           /\ cursor' = cursor \/ Ahead(cursor', cursor)
<1>1. /\ MemoryTypes /\ MemoryOK /\ phase \in {"first", "run"} /\ inFlight
      /\ run \in [Runs -> RunStates]
  BY TypeParts DEF IInv, MemoryOK, RunOK, MemoryTypes
<1>2. b.next \in Cursors /\ b.ledger \in 0 .. MaxLedger /\ b.next # NoCursor
  BY DEF RunStates, Ahead
<1>3. CASE b.next # cursor
  <2>1. /\ cursor' = b.next /\ run' = [run EXCEPT ![r] = [b EXCEPT !.at = "save"]]
        /\ phase' = phase /\ lastLedger' = lastLedger /\ inFlight' = inFlight
    BY <1>3 DEF Projected
  <2> DEFINE d == [b EXCEPT !.at = "save"]
  <2>2. d \in RunStates /\ d.at = "save" /\ d.next = b.next
    BY DEF RunStates
  <2>3. run' = [run EXCEPT ![r] = d]
    BY <2>1
  <2> HIDE DEF d
  <2>4. run' \in [Runs -> RunStates] /\ run'[r] = d
        /\ \A s \in Runs : s # r => run'[s] = run[s] /\ run[s].at = "idle"
    BY <1>1, <2>2, <2>3 DEF MemoryOK, Solo
  <2>5. MemoryTypes'
    BY <1>1, <1>2, <2>1, <2>4 DEF MemoryTypes
  <2>6. Resumes'
    BY <1>1, <1>2, <2>1 DEF Resumes, FromOK
  <2>7. Solo'
    BY <2>4 DEF Solo
  <2>8. \A s \in Runs : RunOK(s)'
    BY <1>1, <1>2, <2>1, <2>2, <2>4 DEF RunOK
  <2> QED
    BY <2>1, <2>5, <2>6, <2>7, <2>8 DEF MemoryOK
<1>4. CASE b.next = cursor
  <2>1. PICK d : d = [b EXCEPT !.at = "snapshot"]
    OBVIOUS
  <2>2. d \in RunStates /\ d.at = "snapshot"
    BY <2>1 DEF RunStates
  <2>3. /\ cursor' = cursor /\ lastLedger' = b.ledger /\ run' = [run EXCEPT ![r] = d]
        /\ phase' = phase /\ inFlight' = inFlight
    BY <1>4, <2>1 DEF Projected
  <2>4. inFlight' /\ inFlight' \in BOOLEAN /\ cursor # NoCursor
        /\ phase' = IF phase = "ready" THEN "first" ELSE phase
    BY <1>1, <1>2, <1>4, <2>3 DEF MemoryTypes
  <2> QED
    BY <1>2, <2>2, <2>3, <2>4, RunMoves
<1> QED
  BY <1>3, <1>4

-----------------------------------------------------------------------------
(***************************************************************************)
(* The steps                                                               *)
(***************************************************************************)
LEMMA IInvInit == Init => IInv
<1> SUFFICES ASSUME Init PROVE IInv
  OBVIOUS
<1>1. NoCursor \in Cursors /\ NoCheckpoint \in Checkpoints
  BY FeedAssumption, BoundsAssumption
  DEF NoCursor, Cursors, NoCheckpoint, Checkpoints
<1>2. ExternalTypes /\ DatabaseTypes
  BY <1>1, FeedAssumption, BoundsAssumption DEF Init, ExternalTypes, DatabaseTypes
<1>3. StrayTypes /\ CountTypes
  BY BoundsAssumption DEF Init, StrayTypes, CountTypes
<1>4. MemoryTypes
  <2>1. run \in [Runs -> RunStates]
    BY IdleType DEF Init
  <2>2. 0 \in 0 .. MaxLedger
    BY BoundsAssumption
  <2> QED
    BY <1>1, <2>1, <2>2 DEF Init, MemoryTypes
<1>5. TypeOK
  BY <1>2, <1>3, <1>4, TypeParts
<1>6. Sorted /\ StrayOK
  BY DEF Init, Sorted, StrayOK
<1>7. CursorOK(NoCursor, {})
  BY <1>5, NoCursorOK
<1>8. StoredOK
  BY <1>7 DEF Init, StoredOK, NoOtherHoles, VaultKnown, NoCheckpoint
<1>9. MemoryOK
  BY <1>7, IdleType DEF Init, MemoryOK, Resumes, Solo, RunOK
<1> QED
  BY <1>5, <1>6, <1>8, <1>9 DEF IInv

LEMMA CountsStay ==
    ASSUME TypeOK, skipped' = skipped,
           faults' = faults \/ (faults < MaxFaults /\ faults' = faults + 1),
           crashes' = crashes \/ (crashes < MaxCrashes /\ crashes' = crashes + 1)
    PROVE  CountTypes'
BY TypeParts, BoundsAssumption DEF CountTypes

LEMMA CloseLedgerOK ==
    ASSUME IInv, NEW count \in 0 .. MaxBurst, CloseLedger(count) PROVE IInv'
<1> DEFINE new == [i \in 1 .. count |-> tip + 1]
<1>1. TypeOK /\ Sorted /\ StoredOK /\ ExternalTypes /\ DatabaseTypes
  BY TypeParts DEF IInv
<1>2. /\ Len(chain) \in Nat /\ DOMAIN chain = 1 .. Len(chain) /\ tip \in 1 .. MaxLedger
      /\ MaxLedger \in Nat /\ \A i \in DOMAIN chain : chain[i] \in 1 .. MaxLedger
  BY <1>1, ChainTypes
<1>3. /\ tip < MaxLedger /\ Len(chain) + count <= Len(Feed) /\ tip' = tip + 1
      /\ chain' = chain \o new
      /\ oldest' = oldest /\ rows' = rows /\ vaultRow' = vaultRow /\ saved' = saved
      /\ stray' = stray /\ skipped' = skipped /\ faults' = faults /\ crashes' = crashes
      /\ UNCHANGED memory
  BY DEF CloseLedger, database
<1>4. count \in Nat /\ new \in Seq(1 .. MaxLedger) /\ Len(new) = count
      /\ \A i \in 1 .. count : new[i] = tip + 1
  BY <1>2, <1>3
<1> HIDE DEF new
<1>5. /\ chain' \in Seq(1 .. MaxLedger) /\ Len(chain') = Len(chain) + count
      /\ \A i \in 1 .. Len(chain) + count :
             chain'[i] = IF i <= Len(chain) THEN chain[i] ELSE new[i - Len(chain)]
  BY <1>1, <1>3, <1>4, ConcatProperties DEF ExternalTypes
<1>6. DOMAIN chain' = 1 .. Len(chain') /\ Len(chain') \in Nat
  BY <1>5
<1>7. /\ \A i \in DOMAIN chain : chain'[i] = chain[i] /\ i \in DOMAIN chain'
      /\ \A i \in DOMAIN chain' : i \in DOMAIN chain \/ (i > Len(chain) /\ chain'[i] = tip + 1)
  <2>1. ASSUME NEW i \in DOMAIN chain', i \notin DOMAIN chain
        PROVE  i > Len(chain) /\ chain'[i] = tip + 1
    <3>1. i \in 1 .. Len(chain) + count /\ i > Len(chain) /\ i - Len(chain) \in 1 .. count
      BY <1>2, <1>4, <1>5, <1>6, <2>1
    <3> QED
      BY <1>2, <1>4, <1>5, <3>1
  <2> QED
    BY <1>2, <1>4, <1>5, <1>6, <2>1
<1>8. Later
  BY <1>2, <1>3, <1>4, <1>5, <1>6, <1>7 DEF Later
<1>9. Sorted'
  BY <1>1, <1>2, <1>3, <1>6, <1>7 DEF Sorted
<1>10. ExternalTypes' /\ DatabaseTypes'
  BY <1>1, <1>2, <1>3, <1>4, <1>5 DEF ExternalTypes, DatabaseTypes
<1>11. StoredOK'
  <2>1. \A c \in Cursors : CursorOK(c, {}) => CursorOK(c, {})'
    BY <1>1, <1>8, CursorStays
  <2>2. saved.cursor \in Cursors
    BY <1>1 DEF DatabaseTypes, Checkpoints
  <2>3. CursorOK(saved.cursor, {})'
    BY <1>1, <1>3, <2>1, <2>2 DEF StoredOK
  <2>4. NoOtherHoles'
    BY <1>1, <1>3, <1>8, StoredOrSkippedStays DEF StoredOK, NoOtherHoles
  <2>5. VaultKnown(rows)' /\ rows' \subseteq DOMAIN chain'
    BY <1>1, <1>3, <1>7 DEF StoredOK, VaultKnown
  <2> QED
    BY <1>1, <1>3, <2>3, <2>4, <2>5 DEF StoredOK
<1>12. StrayOK' /\ StrayTypes'
  BY <1>3, <1>8, StrayShrinks
<1>13. MemoryOK' /\ MemoryTypes'
  BY <1>3, <1>8, QuietMemory
<1>14. CountTypes'
  BY <1>1, <1>3, CountsStay
<1> QED
  BY <1>9, <1>10, <1>11, <1>12, <1>13, <1>14, TypePartsNext DEF IInv

LEMMA PruneOK == ASSUME IInv, Prune PROVE IInv'
<1>1. TypeOK /\ Sorted /\ StoredOK /\ ExternalTypes /\ DatabaseTypes
  BY TypeParts DEF IInv
<1>2. /\ oldest' = oldest + 1 /\ oldest < tip /\ chain' = chain /\ tip' = tip
      /\ rows' = rows /\ vaultRow' = vaultRow /\ saved' = saved
      /\ stray' = stray /\ skipped' = skipped /\ faults' = faults /\ crashes' = crashes
      /\ UNCHANGED memory
  BY DEF Prune, database
<1>3. Later
  BY <1>1, <1>2, ChainTypes DEF Later
<1>4. Sorted' /\ ExternalTypes' /\ DatabaseTypes'
  BY <1>1, <1>2 DEF Sorted, ExternalTypes, DatabaseTypes
<1>5. StoredOK'
  BY <1>1, <1>2 DEF StoredOK, CursorOK, NoOtherHoles, VaultKnown, StoredOrSkipped
<1>6. StrayOK' /\ StrayTypes' /\ MemoryOK' /\ MemoryTypes' /\ CountTypes'
  BY <1>1, <1>2, <1>3, StrayShrinks, QuietMemory, CountsStay
<1> QED
  BY <1>4, <1>5, <1>6, TypePartsNext DEF IInv

LEMMA StrayLandsOK == ASSUME IInv, NEW w \in stray, StrayLands(w) PROVE IInv'
<1>1. WriteType(w) /\ WriteOK(w)
  BY TypeParts DEF IInv, StrayTypes, StrayOK
<1>2. /\ Land(w) /\ stray' \subseteq stray /\ UNCHANGED external /\ UNCHANGED memory
      /\ skipped' = skipped /\ faults' = faults /\ crashes' = crashes
  BY DEF StrayLands
<1>3. Later /\ Sorted' /\ StoredOK' /\ ExternalTypes' /\ DatabaseTypes'
  BY <1>1, <1>2, LandOK
<1>4. StrayOK' /\ StrayTypes' /\ MemoryOK' /\ MemoryTypes'
  BY <1>2, <1>3, StrayShrinks, QuietMemory
<1>5. CountTypes'
  BY <1>2, CountsStay DEF IInv
<1> QED
  BY <1>3, <1>4, <1>5, TypePartsNext DEF IInv

\* What the starts and ends of the process leave to show.
LEMMA ProcessOK ==
    ASSUME IInv, UNCHANGED <<external, database>>, skipped \subseteq skipped',
           NEW W, \A w \in W : WriteType(w) /\ WriteOK(w), stray' \subseteq stray \cup W,
           MemoryTypes', \A r \in Runs : run'[r].at = "idle", Resumes', CountTypes'
    PROVE  IInv'
<1>1. Later /\ Sorted' /\ StoredOK' /\ ExternalTypes' /\ DatabaseTypes'
  BY QuietDatabase
<1>2. StrayOK' /\ StrayTypes'
  BY <1>1, StrayStays
<1>3. MemoryOK'
  BY NothingInFlight DEF MemoryTypes
<1> QED
  BY <1>1, <1>2, <1>3, TypePartsNext DEF IInv

LEMMA StartsOK ==
    ASSUME IInv, UNCHANGED <<external, database>>, skipped \subseteq skipped', stray' = stray,
           MemoryTypes', \A r \in Runs : run'[r].at = "idle", Resumes', CountTypes'
    PROVE  IInv'
<1> DEFINE none == {}
<1>1. stray' \subseteq stray \cup none /\ \A w \in none : WriteType(w) /\ WriteOK(w)
  OBVIOUS
<1> HIDE DEF none
<1> QED
  BY <1>1, ProcessOK

\* The process is not running: nothing is in flight.
LEMMA NoRunYet ==
    ASSUME IInv, phase \notin {"first", "run"}
    PROVE  \A r \in Runs : run[r].at = "idle"
BY DEF IInv, MemoryOK, RunOK

LEMMA StartOK ==
    ASSUME IInv, Boot \/ LoadCheckpoint \/ Anchor \/ StartFails PROVE IInv'
<1>1. /\ TypeOK /\ Sorted /\ MemoryTypes /\ DatabaseTypes /\ CountTypes /\ Resumes /\ StoredOK
      /\ NoCursor \in Cursors /\ CursorOK(NoCursor, {})
  BY TypeParts, NoCursorOK DEF IInv, MemoryOK
<1>2. \A r \in Runs : run[r].at = "idle"
  BY NoRunYet DEF Boot, LoadCheckpoint, Anchor, StartFails
<1>3. /\ UNCHANGED <<external, database>> /\ stray' = stray /\ run' = run
      /\ skipped \subseteq skipped'
  BY DEF Boot, LoadCheckpoint, Anchor, StartFails
<1>4. chain' = chain /\ tip' = tip /\ rows' = rows /\ saved' = saved
  BY <1>3 DEF external, database
<1>5. Later
  BY <1>3, QuietDatabase
<1>6. \A c \in Cursors : CursorOK(c, {}) => CursorOK(c, {})'
  BY <1>1, <1>5, CursorStays
<1>7. \A r \in Runs : run'[r].at = "idle"
  BY <1>2, <1>3
<1>8. CASE Boot
  <2>1. MemoryTypes' /\ CountTypes'
    BY <1>1, <1>8 DEF Boot, MemoryTypes, CountTypes
  <2>2. Resumes'
    BY <1>1, <1>6, <1>8 DEF Boot, Resumes
  <2> QED
    BY <1>3, <1>7, <2>1, <2>2, StartsOK
<1>9. CASE LoadCheckpoint
  <2>1. saved.cursor \in Cursors /\ saved.lastLedger \in 0 .. MaxLedger
    BY <1>1 DEF DatabaseTypes, Checkpoints
  <2>2. MemoryTypes' /\ CountTypes'
    BY <1>1, <1>9, <2>1 DEF LoadCheckpoint, MemoryTypes, CountTypes
  <2>3. CursorOK(saved.cursor, {})'
    BY <1>1, <1>4, <1>6, <2>1 DEF StoredOK
  <2>4. cursor' = saved.cursor
    BY <1>9 DEF LoadCheckpoint
  <2>5. CursorOK(cursor, {})'
    BY <1>1, <1>6, <2>1, <2>4 DEF StoredOK
  <2>6. phase' = IF saved = NoCheckpoint THEN "anchor" ELSE "ready"
    BY <1>9 DEF LoadCheckpoint
  <2>7. saved = NoCheckpoint => cursor' = NoCursor
    BY <2>4 DEF NoCheckpoint
  <2>8. saved # NoCheckpoint => cursor' # NoCursor
    BY <1>1, <2>4 DEF StoredOK
  <2>9. Resumes'
    BY <2>5, <2>6, <2>7, <2>8 DEF Resumes, FromOK
  <2> QED
    BY <1>3, <1>7, <2>2, <2>9, StartsOK
<1>10. CASE Anchor
  <2>1. skipped' \subseteq DOMAIN Feed
    BY <1>1, <1>10, ChainTypes DEF Anchor, CountTypes
  <2>2. MemoryTypes' /\ CountTypes'
    BY <1>1, <1>10, <2>1, ChainTypes DEF Anchor, MemoryTypes, CountTypes
  <2>3. cursor' = cursor /\ lastLedger' = tip /\ phase' = "ready"
    BY <1>10 DEF Anchor
  <2>4. CursorOK(cursor, {})'
    BY <1>1, <1>6, <2>3 DEF Resumes, MemoryTypes
  <2>5. \A i \in DOMAIN chain : chain[i] < tip => StoredOrSkipped(i)'
    BY <1>4, <1>10 DEF Anchor, StoredOrSkipped
  <2>6. tip \in Nat
    BY <1>1, ChainTypes
  <2>7. FromOK(cursor, lastLedger)'
    BY <1>4, <2>3, <2>5, <2>6 DEF FromOK
  <2>8. Resumes'
    BY <2>3, <2>4, <2>7 DEF Resumes
  <2> QED
    BY <1>3, <1>7, <2>2, <2>8, StartsOK
<1>11. CASE StartFails
  <2>1. MemoryTypes' /\ CountTypes'
    BY <1>1, <1>11, BoundsAssumption DEF StartFails, MemoryTypes, CountTypes
  <2>2. CursorOK(NoCursor, {})' /\ cursor' = NoCursor /\ phase' = "down"
    BY <1>1, <1>6, <1>11 DEF StartFails
  <2>3. Resumes'
    BY <2>2 DEF Resumes
  <2> QED
    BY <1>3, <1>7, <2>1, <2>3, StartsOK
<1> QED
  BY <1>8, <1>9, <1>10, <1>11

LEMMA AstrayOK ==
    ASSUME NEW W, GoesAstray(W) PROVE stray' \subseteq stray \cup W
BY DEF GoesAstray

LEMMA CrashOK == ASSUME IInv, Crash PROVE IInv'
<1> DEFINE W == UNION {Pending(r) : r \in Runs}
<1>1. /\ TypeOK /\ MemoryTypes /\ CountTypes
      /\ NoCursor \in Cursors /\ CursorOK(NoCursor, {})
  BY TypeParts, NoCursorOK DEF IInv
<1>2. stray' \subseteq stray \cup W
  BY AstrayOK DEF Crash
<1>3. \A w \in W : WriteType(w) /\ WriteOK(w)
  <2> SUFFICES ASSUME NEW w \in W PROVE WriteType(w) /\ WriteOK(w)
    OBVIOUS
  <2>1. PICK r \in Runs : w \in Pending(r)
    OBVIOUS
  <2> QED
    BY <2>1, PendingOK
<1> HIDE DEF W
<1>4. /\ UNCHANGED <<external, database>> /\ skipped' = skipped
      /\ phase' = "down" /\ cursor' = NoCursor /\ lastLedger' = 0 /\ inFlight' = FALSE
      /\ run' = [r \in Runs |-> Idle]
  BY DEF Crash
<1>5. MemoryTypes' /\ CountTypes'
  <2>1. run' \in [Runs -> RunStates]
    BY <1>4, IdleType
  <2>2. 0 \in 0 .. MaxLedger
    BY BoundsAssumption
  <2>3. MemoryTypes'
    BY <1>1, <1>4, <2>1, <2>2 DEF MemoryTypes
  <2> QED
    BY <1>1, <1>4, <2>3, BoundsAssumption DEF Crash, CountTypes
<1>6. \A r \in Runs : run'[r].at = "idle"
  BY <1>4, IdleType
<1>7. Later
  BY <1>4, QuietDatabase
<1>8. Resumes'
  BY <1>1, <1>4, <1>7, CursorStays DEF Resumes
<1> QED
  BY <1>2, <1>3, <1>4, <1>5, <1>6, <1>8, ProcessOK

-----------------------------------------------------------------------------
(***************************************************************************)
(* The steps of a poll.  PICK names the values a step computes, which stay *)
(* the same after it.                                                      *)
(***************************************************************************)
LEMMA StartPollOK == ASSUME IInv, NEW r \in Runs, StartPoll(r) PROVE IInv'
<1>1. /\ TypeOK /\ MemoryTypes /\ Resumes
      /\ cursor \in Cursors /\ lastLedger \in 0 .. MaxLedger /\ lastLedger \in Nat
  BY TypeParts, BoundsAssumption DEF IInv, MemoryOK, MemoryTypes
<1>2. PICK c, l, d : /\ c = cursor /\ l = lastLedger
                     /\ d = [Idle EXCEPT !.at = "fetch", !.cursor = c, !.startLedger = l]
  OBVIOUS
<1>3. /\ UNCHANGED <<external, database>> /\ stray' = stray /\ skipped' = skipped
      /\ faults' = faults /\ crashes' = crashes /\ cursor' = cursor
      /\ lastLedger' = lastLedger /\ inFlight' = TRUE
      /\ phase' = IF phase = "ready" THEN "first" ELSE phase
      /\ run' = [run EXCEPT ![r] = d]
      /\ ~inFlight /\ phase \in {"ready", "run"}
  BY <1>2 DEF StartPoll, MayPoll, FirstLedger
<1>4. d \in RunStates /\ d.at = "fetch" /\ d.cursor = c /\ d.startLedger = l
  BY <1>1, <1>2, IdleType DEF RunStates
<1>5. Later /\ Sorted' /\ StoredOK' /\ ExternalTypes' /\ DatabaseTypes'
  BY <1>3, QuietDatabase
<1>6. FromOK(c, l) /\ l \in Nat
  BY <1>1, <1>2, <1>3 DEF Resumes
<1>7. FromOK(c, l)'
  BY <1>1, <1>5, <1>6, FromStays
<1>8. FromOK(d.cursor, d.startLedger)'
  BY <1>4, <1>7
<1>9. MemoryOK' /\ MemoryTypes'
  BY <1>2, <1>3, <1>4, <1>5, <1>8, RunMoves
<1>10. StrayOK' /\ StrayTypes' /\ CountTypes'
  BY <1>1, <1>3, <1>5, StrayShrinks, CountsStay
<1> QED
  BY <1>5, <1>9, <1>10, TypePartsNext DEF IInv

LEMMA FetchedOK ==
    ASSUME IInv, NEW r \in Runs, Fetched(r)
    PROVE  IInv' /\ (cursor' = cursor \/ Ahead(cursor', cursor))
<1>1. /\ TypeOK /\ Sorted /\ MemoryTypes /\ Resumes /\ RunOK(r)
      /\ run[r] \in RunStates /\ lastLedger \in 0 .. MaxLedger /\ tip \in 0 .. MaxLedger
  BY TypeParts, ChainTypes DEF IInv, MemoryOK, MemoryTypes
<1>2. PICK batch, next, seen :
          /\ batch = Decoded(Page(run[r])) /\ next = PageCursor(Page(run[r]))
          /\ seen = IF lastLedger > tip THEN lastLedger ELSE tip
  OBVIOUS
<1>3. PICK b : b = [run[r] EXCEPT !.batch = batch, !.next = next, !.ledger = seen]
  OBVIOUS
<1>4. /\ UNCHANGED <<external, database>> /\ stray' = stray /\ skipped' = skipped
      /\ faults' = faults /\ crashes' = crashes /\ run[r].at = "fetch"
  BY DEF Fetched
<1>5. run[r].cursor = cursor /\ FromOK(run[r].cursor, run[r].startLedger)
  BY <1>1, <1>4 DEF RunOK
<1>6. CursorOK(run[r].cursor, {})
  BY <1>1, <1>5 DEF Resumes
<1>7. /\ batch \subseteq VaultEvents /\ BatchOK(batch) /\ next \in Cursors
      /\ CursorOK(next, batch) /\ Ahead(next, cursor)
  BY <1>1, <1>2, <1>5, <1>6, PageOK
<1>8. seen \in 0 .. MaxLedger
  BY <1>1, <1>2
<1>9. b.batch = batch /\ b.next = next /\ b \in RunStates
  BY <1>1, <1>3, <1>7, <1>8 DEF RunStates
<1>10. IF batch = {}
       THEN Projected(r, b)
       ELSE /\ run' = [run EXCEPT ![r] = [b EXCEPT !.at = FirstWrite(batch)]]
            /\ phase' = phase /\ cursor' = cursor /\ lastLedger' = lastLedger
            /\ inFlight' = inFlight
  BY <1>2, <1>3 DEF Fetched
<1>11. Later /\ Sorted' /\ StoredOK' /\ ExternalTypes' /\ DatabaseTypes'
  BY <1>4, QuietDatabase
<1>12. StrayOK' /\ StrayTypes' /\ CountTypes'
  BY <1>1, <1>4, <1>11, StrayShrinks, CountsStay
<1>13. CursorOK(next, batch)' /\ BatchOK(batch)'
  BY <1>1, <1>7, <1>11, CursorStays, BatchStays
<1>14. (MemoryOK' /\ MemoryTypes') /\ (cursor' = cursor \/ Ahead(cursor', cursor))
  <2>1. CASE batch = {}
    <3>1. CursorOK(b.next, {})' /\ Ahead(b.next, cursor) /\ Projected(r, b)
      BY <1>7, <1>9, <1>10, <1>13, <2>1
    <3> QED
      BY <1>4, <1>9, <1>11, <3>1, ProjectedOK
  <2>2. CASE batch # {}
    <3>1. PICK d : d = [b EXCEPT !.at = FirstWrite(batch)]
      OBVIOUS
    <3>2. FirstWrite(batch) = IF Initializes(batch) # {} THEN "vault" ELSE "insert"
      BY DEF FirstWrite
    <3>3. /\ d \in RunStates /\ d.at = FirstWrite(batch)
          /\ d.batch = batch /\ d.next = next
      BY <1>9, <3>1, <3>2 DEF RunStates
    <3>4. /\ run' = [run EXCEPT ![r] = d] /\ phase' = phase /\ cursor' = cursor
          /\ lastLedger' = lastLedger /\ inFlight' = inFlight
      BY <1>10, <2>2, <3>1
    <3>5. inFlight /\ inFlight \in BOOLEAN /\ phase \in {"first", "run"}
      BY <1>1, <1>4 DEF RunOK, MemoryTypes
    <3>6. d.at = "insert" => VaultKnown(d.batch)'
      BY <3>2, <3>3 DEF VaultKnown, Initializes
    <3>7. BatchOK(d.batch)' /\ CursorOK(d.next, d.batch)' /\ Ahead(d.next, cursor)
      BY <1>7, <1>13, <3>3
    <3>8. MemoryOK' /\ MemoryTypes'
      <4>1. /\ d.at # "idle" /\ d.at # "fetch" /\ d.at # "save"
            /\ d.at = "vault" => Initializes(d.batch) # {}
        BY <3>2, <3>3
      <4>2. inFlight' /\ inFlight' \in BOOLEAN /\ run[r].at # "idle"
            /\ phase' = IF phase = "ready" THEN "first" ELSE phase
        BY <1>4, <3>4, <3>5
      <4> QED
        BY <1>11, <3>3, <3>4, <3>6, <3>7, <4>1, <4>2, RunMoves
    <3> QED
      BY <3>4, <3>8
  <2> QED
    BY <2>1, <2>2
<1> QED
  BY <1>11, <1>12, <1>14, TypePartsNext DEF IInv

LEMMA FetchFailsOK == ASSUME IInv, NEW r \in Runs, FetchFails(r) PROVE IInv'
<1>1. TypeOK
  BY DEF IInv
<1>2. /\ UNCHANGED <<external, database>> /\ stray' = stray /\ skipped' = skipped
      /\ faults' = faults \/ (faults < MaxFaults /\ faults' = faults + 1)
      /\ crashes' = crashes /\ run[r].at # "idle" /\ Release(r, FALSE)
      /\ cursor' = cursor /\ lastLedger' = lastLedger
  BY DEF FetchFails
<1>3. Later /\ Sorted' /\ StoredOK' /\ ExternalTypes' /\ DatabaseTypes'
  BY <1>2, QuietDatabase
<1>4. StrayOK' /\ StrayTypes' /\ CountTypes'
  BY <1>1, <1>2, <1>3, StrayShrinks, CountsStay
<1>5. MemoryOK' /\ MemoryTypes'
  BY <1>2, <1>3, ReleaseOK
<1> QED
  BY <1>3, <1>4, <1>5, TypePartsNext DEF IInv

LEMMA UpsertVaultOK == ASSUME IInv, NEW r \in Runs, UpsertVault(r) PROVE IInv'
<1>1. /\ TypeOK /\ RunOK(r) /\ run \in [Runs -> RunStates] /\ inFlight \in BOOLEAN
  BY TypeParts DEF IInv, MemoryOK, MemoryTypes
<1>2. PICK b, w : b = run[r] /\ w = VaultWrite(MaxOf(Initializes(b.batch)))
  OBVIOUS
<1>3. /\ run[r].at = "vault" /\ UNCHANGED external /\ stray' = stray /\ skipped' = skipped
      /\ faults' = faults /\ crashes' = crashes /\ phase' = phase /\ cursor' = cursor
      /\ lastLedger' = lastLedger /\ inFlight' = inFlight
      /\ run' = [run EXCEPT ![r].at = "insert"]
  BY DEF UpsertVault
<1>4. w \in Pending(r) /\ Land(w)
  BY <1>2, <1>3 DEF UpsertVault, Pending
<1>5. WriteType(w) /\ WriteOK(w) /\ w.table = "vaults"
  BY <1>2, <1>4, PendingOK DEF VaultWrite
<1>6. /\ Later /\ Sorted' /\ StoredOK' /\ ExternalTypes' /\ DatabaseTypes'
      /\ VaultKnown(DOMAIN chain)'
  BY <1>3, <1>4, <1>5, LandOK
<1>7. PICK d : d = [b EXCEPT !.at = "insert"]
  OBVIOUS
<1>8. /\ d \in RunStates /\ d.at = "insert" /\ d.batch = b.batch /\ d.next = b.next
      /\ b.next \in Cursors
  BY <1>1, <1>2, <1>7 DEF RunStates
<1>9. run' = [run EXCEPT ![r] = d]
  BY <1>2, <1>3, <1>7
<1>10. BatchOK(b.batch) /\ CursorOK(b.next, b.batch) /\ Ahead(b.next, cursor)
  BY <1>1, <1>2, <1>3 DEF RunOK
<1>11. BatchOK(b.batch)' /\ CursorOK(b.next, b.batch)'
  BY <1>1, <1>6, <1>8, <1>10, BatchStays, CursorStays
<1>12. VaultKnown(b.batch)'
  BY <1>6, <1>11 DEF VaultKnown, BatchOK
<1>13. BatchOK(d.batch)' /\ CursorOK(d.next, d.batch)' /\ VaultKnown(d.batch)'
       /\ Ahead(d.next, cursor)
  BY <1>8, <1>10, <1>11, <1>12
<1>14. MemoryOK' /\ MemoryTypes'
  <2>1. /\ d.at # "idle" /\ d.at # "fetch" /\ d.at # "save" /\ d.at # "vault"
        /\ run[r].at # "idle"
    BY <1>3, <1>8
  <2>2. inFlight' /\ inFlight' \in BOOLEAN
        /\ phase' = IF phase = "ready" THEN "first" ELSE phase
    BY <1>1, <1>3 DEF RunOK
  <2> QED
    BY <1>3, <1>6, <1>8, <1>9, <1>13, <2>1, <2>2, RunMoves
<1>15. StrayOK' /\ StrayTypes' /\ CountTypes'
  BY <1>1, <1>3, <1>6, StrayShrinks, CountsStay
<1> QED
  BY <1>6, <1>14, <1>15, TypePartsNext DEF IInv

LEMMA InsertVaultEventsOK ==
    ASSUME IInv, NEW r \in Runs, InsertVaultEvents(r)
    PROVE  IInv' /\ (cursor' = cursor \/ Ahead(cursor', cursor))
<1>1. TypeOK /\ RunOK(r) /\ run \in [Runs -> RunStates]
  BY TypeParts DEF IInv, MemoryOK, MemoryTypes
<1>2. PICK b, w : b = run[r] /\ w = EventsWrite(b.batch)
  OBVIOUS
<1>3. /\ run[r].at = "insert" /\ UNCHANGED external /\ stray' = stray /\ skipped' = skipped
      /\ faults' = faults /\ crashes' = crashes /\ Projected(r, b)
  BY <1>2 DEF InsertVaultEvents
<1>4. w \in Pending(r) /\ Land(w)
  BY <1>2, <1>3 DEF InsertVaultEvents, Pending
<1>5. WriteType(w) /\ WriteOK(w) /\ w.table = "vault_events" /\ w.events = b.batch
  BY <1>2, <1>4, PendingOK DEF EventsWrite
<1>6. /\ Later /\ Sorted' /\ StoredOK' /\ ExternalTypes' /\ DatabaseTypes'
      /\ b.batch \subseteq rows'
  BY <1>3, <1>4, <1>5, LandOK
<1>7. b \in RunStates /\ b.next \in Cursors
  BY <1>1, <1>2 DEF RunStates
<1>8. CursorOK(b.next, b.batch) /\ Ahead(b.next, cursor)
  BY <1>1, <1>2, <1>3 DEF RunOK
<1>9. CursorOK(b.next, b.batch)'
  BY <1>1, <1>6, <1>7, <1>8, CursorStays
<1>10. CursorOK(b.next, {})'
  BY <1>6, <1>9 DEF CursorOK, StoredOrSkipped
<1>11. /\ MemoryOK' /\ MemoryTypes'
       /\ cursor' = cursor \/ Ahead(cursor', cursor)
  BY <1>3, <1>6, <1>7, <1>8, <1>10, ProjectedOK
<1>12. StrayOK' /\ StrayTypes' /\ CountTypes'
  BY <1>1, <1>3, <1>6, StrayShrinks, CountsStay
<1> QED
  BY <1>6, <1>11, <1>12, TypePartsNext DEF IInv

LEMMA SaveCheckpointOK == ASSUME IInv, NEW r \in Runs, SaveCheckpoint(r) PROVE IInv'
<1>1. TypeOK /\ RunOK(r) /\ run \in [Runs -> RunStates] /\ inFlight \in BOOLEAN
  BY TypeParts DEF IInv, MemoryOK, MemoryTypes
<1>2. /\ run[r].at = "save" /\ UNCHANGED external /\ stray' = stray /\ skipped' = skipped
      /\ faults' = faults /\ crashes' = crashes /\ cursor' = cursor
      /\ lastLedger' = run[r].ledger /\ phase' = phase /\ inFlight' = inFlight
      /\ run' = [run EXCEPT ![r].at = "snapshot"]
  BY DEF SaveCheckpoint
<1>3. PICK w : w = CheckpointWrite([cursor |-> run[r].next, lastLedger |-> run[r].ledger])
  OBVIOUS
<1>4. w \in Pending(r) /\ Land(w)
  BY <1>2, <1>3 DEF SaveCheckpoint, Pending
<1>5. Later /\ Sorted' /\ StoredOK' /\ ExternalTypes' /\ DatabaseTypes'
  BY <1>2, <1>4, PendingOK, LandOK
<1>6. run[r].ledger \in 0 .. MaxLedger /\ cursor # NoCursor
  BY <1>1, <1>2 DEF RunOK, RunStates
<1>7. MemoryOK' /\ MemoryTypes'
  <2>1. PICK d : d = [run[r] EXCEPT !.at = "snapshot"]
    OBVIOUS
  <2>2. d \in RunStates /\ d.at = "snapshot"
    BY <1>1, <2>1 DEF RunStates
  <2>3. run' = [run EXCEPT ![r] = d]
    BY <1>2, <2>1
  <2>4. run[r].at # "idle" /\ lastLedger' \in 0 .. MaxLedger
    BY <1>2, <1>6
  <2>5. inFlight' /\ inFlight' \in BOOLEAN
        /\ phase' = IF phase = "ready" THEN "first" ELSE phase
    BY <1>1, <1>2, <2>4 DEF RunOK
  <2> QED
    BY <1>2, <1>5, <1>6, <2>2, <2>3, <2>4, <2>5, RunMoves
<1>8. StrayOK' /\ StrayTypes' /\ CountTypes'
  BY <1>1, <1>2, <1>5, StrayShrinks, CountsStay
<1> QED
  BY <1>5, <1>7, <1>8, TypePartsNext DEF IInv

LEMMA RecordSnapshotOK == ASSUME IInv, NEW r \in Runs, RecordSnapshot(r) PROVE IInv'
<1>1. TypeOK
  BY DEF IInv
<1>2. /\ UNCHANGED <<external, database>> /\ stray' = stray /\ skipped' = skipped
      /\ faults' = faults /\ crashes' = crashes /\ run[r].at # "idle" /\ Release(r, TRUE)
      /\ cursor' = cursor /\ lastLedger' = lastLedger
  BY DEF RecordSnapshot
<1>3. Later /\ Sorted' /\ StoredOK' /\ ExternalTypes' /\ DatabaseTypes'
  BY <1>2, QuietDatabase
<1>4. StrayOK' /\ StrayTypes' /\ CountTypes'
  BY <1>1, <1>2, <1>3, StrayShrinks, CountsStay
<1>5. MemoryOK' /\ MemoryTypes'
  BY <1>2, <1>3, ReleaseOK
<1> QED
  BY <1>3, <1>4, <1>5, TypePartsNext DEF IInv

LEMMA WriteRejectedOK == ASSUME IInv, NEW r \in Runs, WriteRejected(r) PROVE IInv'
<1>1. TypeOK
  BY DEF IInv
<1>2. /\ UNCHANGED <<external, database>> /\ skipped' = skipped
      /\ faults < MaxFaults /\ faults' = faults + 1 /\ crashes' = crashes
      /\ run[r].at # "idle" /\ GoesAstray(Pending(r)) /\ Release(r, FALSE)
      /\ cursor' = cursor /\ lastLedger' = lastLedger
  BY DEF WriteRejected, AfterRejected
<1>3. Later /\ Sorted' /\ StoredOK' /\ ExternalTypes' /\ DatabaseTypes'
  BY <1>2, QuietDatabase
<1>4. PICK W : W = Pending(r)
  OBVIOUS
<1>5. stray' \subseteq stray \cup W /\ \A w \in W : WriteType(w) /\ WriteOK(w)
  BY <1>2, <1>4, AstrayOK, PendingOK
<1>6. StrayOK' /\ StrayTypes'
  BY <1>3, <1>5, StrayStays
<1>7. MemoryOK' /\ MemoryTypes' /\ CountTypes'
  BY <1>1, <1>2, <1>3, ReleaseOK, CountsStay
<1> QED
  BY <1>3, <1>6, <1>7, TypePartsNext DEF IInv

LEMMA UnchangedOK == ASSUME IInv, UNCHANGED vars PROVE IInv'
<1>1. /\ UNCHANGED <<external, database>> /\ UNCHANGED memory /\ stray' = stray
      /\ skipped' = skipped /\ faults' = faults /\ crashes' = crashes
  BY DEF vars
<1>2. Later /\ Sorted' /\ StoredOK' /\ ExternalTypes' /\ DatabaseTypes'
  BY <1>1, QuietDatabase
<1>3. MemoryOK' /\ MemoryTypes' /\ StrayOK' /\ StrayTypes' /\ CountTypes'
  BY <1>1, <1>2, QuietMemory, StrayShrinks, CountsStay DEF IInv
<1> QED
  BY <1>2, <1>3, TypePartsNext DEF IInv

LEMMA IInvStep == IInv /\ [Next]_vars => IInv'
<1> SUFFICES ASSUME IInv, [Next]_vars PROVE IInv'
  OBVIOUS
<1>1. ASSUME NEW r \in Runs, Work(r) \/ WriteRejected(r)
      PROVE  IInv'
  BY <1>1, StartPollOK, FetchedOK, FetchFailsOK, UpsertVaultOK, InsertVaultEventsOK,
     SaveCheckpointOK, RecordSnapshotOK, WriteRejectedOK, Zenon DEF Work
<1>2. CASE Boot \/ LoadCheckpoint \/ Anchor \/ StartFails \/ Crash \/ Prune
  BY <1>2, StartOK, CrashOK, PruneOK, Zenon
<1>3. ASSUME NEW count \in 0 .. MaxBurst, CloseLedger(count)
      PROVE  IInv'
  BY <1>3, CloseLedgerOK
<1>4. ASSUME NEW w \in stray, StrayLands(w)
      PROVE  IInv'
  BY <1>4, StrayLandsOK
<1>5. CASE UNCHANGED vars
  BY <1>5, UnchangedOK
<1> QED
  BY <1>1, <1>2, <1>3, <1>4, <1>5, Zenon DEF Next

LEMMA IInvHolds == Spec => []IInv
BY IInvInit, IInvStep, PTL DEF Spec

-----------------------------------------------------------------------------
(***************************************************************************)
(* The properties                                                          *)
(***************************************************************************)

\* Only recognised events are stored, and no value of watcher or database, nor one of
\* a write still under way, leaves its type.
THEOREM IndexerTypeCorrect == Spec => []TypeOK
BY IInvHolds, PTL DEF IInv

\* No cursor the watcher resumes from passes an event that is neither stored nor one
\* that a start without a checkpoint has passed over.
THEOREM IndexerCursorNeverAhead == Spec => []CursorNeverAheadOfLog
<1>1. IInv => CursorNeverAheadOfLog
  BY DEF IInv, StoredOK, StrayOK, WriteOK, MemoryOK, Resumes, CursorOK,
         CursorNeverAheadOfLog, StoredOrSkippedTo
<1> QED
  BY <1>1, IInvHolds, PTL

\* Nothing is missing before a stored event but what starts without a checkpoint have
\* passed over.
THEOREM IndexerOnlyStartsLeaveHoles == Spec => []OnlyStartsLeaveHoles
<1>1. IInv => OnlyStartsLeaveHoles
  BY DEF IInv, StoredOK, NoOtherHoles, StoredOrSkipped, OnlyStartsLeaveHoles
<1> QED
  BY <1>1, IInvHolds, PTL

\* Until a restart passes over events later than one it has stored, the stored log is a
\* stretch of the history without a hole.
THEOREM IndexerLogIsContiguous == Spec => []LogIsContiguous
<1>1. IInv => LogIsContiguous
  <2> SUFFICES ASSUME IInv, RestartSkipsNothing, NEW first \in rows, NEW last \in rows,
                      NEW i \in VaultEvents, i \in first .. last
               PROVE  i \in rows
    BY DEF LogIsContiguous
  <2>1. first \in Nat /\ first >= 1 /\ last \in Nat
    BY ChainTypes DEF IInv, StoredOK
  <2>2. StoredOrSkipped(i)
    BY <2>1 DEF IInv, StoredOK, NoOtherHoles
  <2>3. i \notin skipped
    BY <2>1 DEF RestartSkipsNothing
  <2> QED
    BY <2>2, <2>3 DEF StoredOrSkipped
<1> QED
  BY <1>1, IInvHolds, PTL

\* Whoever reads the initialize event finds the vault.
THEOREM IndexerVaultRowFirst == Spec => []VaultRowBeforeItsEvents
<1>1. IInv => VaultRowBeforeItsEvents
  BY DEF IInv, StoredOK, VaultKnown, VaultRowBeforeItsEvents, GetVault
<1> QED
  BY <1>1, IInvHolds, PTL

\* A list of events read from the log leaves nothing out that is stored later than
\* one it shows.
THEOREM IndexerListingHasNoHoles == Spec => []ListingHasNoHoles
<1>1. IInv => ListingHasNoHoles
  <2> SUFFICES ASSUME IInv, NEW list \in ListVaultEvents, NEW listed \in list,
                      NEW i \in VaultEvents, i \in DOMAIN chain, chain[i] > chain[listed],
                      NEW j \in rows, i <= j
               PROVE  i \in list \cup skipped
    BY DEF ListingHasNoHoles
  <2>1. i \in Nat /\ i >= 1
    BY ChainTypes DEF IInv
  <2>2. StoredOrSkipped(i)
    BY <2>1 DEF IInv, StoredOK, NoOtherHoles
  <2>3. CASE i \in rows \ list
    <3>1. ListsBefore(listed, i) /\ listed \in DOMAIN chain
      BY <2>3 DEF ListVaultEvents, IInv, StoredOK
    <3>2. chain[listed] >= chain[i] /\ chain[listed] \in Nat /\ chain[i] \in Nat
      BY <3>1, ChainTypes DEF ListsBefore, IInv
    <3> QED
      BY <3>2
  <2> QED
    BY <2>2, <2>3 DEF StoredOrSkipped
<1> QED
  BY <1>1, IInvHolds, PTL

\* A slow run never takes the cursor back.
LEMMA ForwardStep ==
    ASSUME IInv, [Next]_vars, phase' \notin {"down", "ready"}
    PROVE  cursor'.event >= cursor.event /\ cursor'.ledger >= cursor.ledger
<1>1. cursor \in Cursors /\ cursor.event \in Nat /\ cursor.ledger \in Nat /\ Resumes
  BY TypeParts, CursorTypes DEF IInv, MemoryTypes, MemoryOK
<1>2. CASE cursor' = cursor
  BY <1>1, <1>2
<1>3. ASSUME NEW r \in Runs, Work(r) \/ WriteRejected(r)
      PROVE  cursor' = cursor \/ Ahead(cursor', cursor)
  <2>1. CASE Fetched(r) \/ InsertVaultEvents(r)
    BY <2>1, FetchedOK, InsertVaultEventsOK
  <2>2. CASE StartPoll(r) \/ FetchFails(r) \/ UpsertVault(r) \/ SaveCheckpoint(r)
             \/ RecordSnapshot(r) \/ WriteRejected(r)
    BY <2>2 DEF StartPoll, FetchFails, UpsertVault, SaveCheckpoint, RecordSnapshot,
                WriteRejected, AfterRejected
  <2> QED
    BY <1>3, <2>1, <2>2 DEF Work
<1>4. CASE Ahead(cursor', cursor)
  BY <1>4 DEF Ahead
<1>5. CASE LoadCheckpoint
  <2>1. cursor' = NoCursor /\ cursor = NoCursor
    BY <1>1, <1>5 DEF LoadCheckpoint, NoCheckpoint, Resumes
  <2> QED
    BY <1>1, <2>1
<1>6. CASE StartFails \/ Crash
  BY <1>6 DEF StartFails, Crash
<1>7. CASE \/ \E count \in 0 .. MaxBurst : CloseLedger(count)
           \/ Prune \/ Boot \/ Anchor \/ UNCHANGED vars
           \/ \E w \in stray : StrayLands(w)
  <2>1. cursor' = cursor
    BY <1>7 DEF CloseLedger, Prune, Boot, Anchor, StrayLands, vars, memory
  <2> QED
    BY <1>2, <2>1
<1> QED
  BY <1>2, <1>3, <1>4, <1>5, <1>6, <1>7, Zenon DEF Next

\* Within one life of the process the cursor only moves forward.
THEOREM IndexerCursorMovesForward == Spec => CursorMovesForward
<1>1. IInv /\ [Next]_vars
      => [ phase' \notin {"down", "ready"}
            => cursor'.event >= cursor.event /\ cursor'.ledger >= cursor.ledger ]_vars
  BY ForwardStep
<1> QED
  BY <1>1, IInvHolds, PTL DEF Spec, CursorMovesForward

=============================================================================
