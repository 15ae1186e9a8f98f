---------------------------- MODULE ReportStore ----------------------------
(***************************************************************************)
(* The write path of fleetwatch: repo::ingest as a database transaction    *)
(* taken statement by statement by concurrent request handlers, the        *)
(* producers' spools that retry until a 2xx, the boot-time reconcile of    *)
(* the latest_report pointer, and hand-deletion of reports.                *)
(*                                                                         *)
(* A report travels                                                        *)
(*   Collect -> Deliver -> InsertReport -> UpsertPointer -> MaintainSince  *)
(*           -> Commit                                                     *)
(* and any of the later steps can instead end in Abort or AckDuplicate.    *)
(* What a transaction has written but not committed is kept in up, ptr and *)
(* runs; report, latest and since are the committed tables.  The waits of  *)
(* the storage engine are guards: InsertReport waits for an uncommitted    *)
(* row of the same id, UpsertPointer for the producer's pointer row.       *)
(***************************************************************************)
EXTENDS Integers

CONSTANTS
  Producers,    \* (source, collector) pairs
  Ids,          \* report ids: ULIDs, compared as strings, so a set of numbers
  Stamps,       \* collected_at on the wire, in microseconds
  Labels,       \* check labels
  CheckLists,   \* the lists of checks a report can carry
  Forms,        \* which uploads occur: "ok", "malformed", "wide"
  Handlers,     \* concurrent requests being served
  None,         \* SQL NULL, an absent row
  MaxFaults,    \* bound: failed statements, crashes and lost answers
  Doomed        \* bound: the reports an operator may delete by hand

Verdicts == {"pass", "warn", "fail", "skip"}
Check    == [label: Labels, verdict: Verdicts]

ASSUME IdsAssumption     == Ids \subseteq Nat
ASSUME StampsAssumption  == Stamps \subseteq Nat
ASSUME ChecksAssumption  == CheckLists \subseteq SUBSET Check
ASSUME FormsAssumption   == Forms \subseteq {"ok", "malformed", "wide"}
ASSUME BoundsAssumption  == MaxFaults \in Nat /\ Doomed \subseteq Ids

\* "malformed": refused by validation (schema, ULID, empty collector or label,
\* a section or label over 255 bytes).  "wide": a section of 129 to 255 bytes,
\* which validation lets through and the VARCHAR(128) column does not.
Upload == [id: Ids, prod: Producers, at: Stamps, checks: CheckLists, form: Forms]

\* Columns are DATETIME(3): microseconds are cut off.
Col(t) == t - (t % 1000)

Row     == [prod: Producers, at: Nat, checks: CheckLists]
Pointer == [id: Ids, at: Nat]
Runs    == [Labels -> Nat \cup {None}]

ASSUME NoneAssumption == /\ None \notin Nat
                         /\ None \notin Row
                         /\ None \notin Pointer
                         /\ None \notin Upload
                         /\ None \notin Runs

VARIABLES
  report,   \* table report joined with check_result, by id
  latest,   \* table latest_report, by producer
  since,    \* table problem_since, by producer and label
  spool,    \* uploads the producers still hold
  minted,   \* every upload a producer ever spooled
  pc,       \* per handler: the next statement of its transaction
  up,       \* per handler: the upload it serves
  ptr,      \* per handler: the latest_report row it wrote, uncommitted
  runs,     \* per handler: its producer's problem_since rows, uncommitted
  faults,   \* faults so far
  surgery,  \* ids deleted by hand
  damage    \* per producer: what a hand-deletion, a reconcile that moved the
            \* pointer, or a report that arrived late, left in the tables and
            \* nothing repaired since

tables == <<report, latest, since>>
txs    == <<pc, up, ptr, runs>>
vars   == <<report, latest, since, spool, minted, pc, up, ptr, runs,
            faults, surgery, damage>>

Harms   == {"pointer", "since", "history", "late"}

-----------------------------------------------------------------------------
(* What the statements of ingest compute.                                  *)

Validate(u) == u.form # "malformed"

FitsColumns(u) == u.form # "wide"

RowOf(u) == [prod |-> u.prod, at |-> Col(u.at), checks |-> u.checks]

Failing(checks) == {c.label : c \in {d \in checks : d.verdict \in {"fail", "warn"}}}

\* Mutant: collected_at assigned before report_id.
UpsertSwapped(row, u) ==
  IF row = None
  THEN [id |-> u.id, at |-> Col(u.at)]
  ELSE LET at == IF u.at > row.at THEN Col(u.at) ELSE row.at
       IN [id |-> IF u.at > at \/ (u.at = at /\ u.id > row.id) THEN u.id ELSE row.id,
           at |-> at]

\* Mutant: last writer wins.
UpsertAlways(row, u) == [id |-> u.id, at |-> Col(u.at)]

\* Mutant: ordered by ULID instead of collection time.
UpsertById(row, u) ==
  IF row = None \/ u.id > row.id THEN [id |-> u.id, at |-> Col(u.at)] ELSE row

\* INSERT ... ON DUPLICATE KEY UPDATE on latest_report.  The bound parameter
\* keeps its microseconds; the stored column has none.  report_id is assigned
\* first, so both comparisons read the old collected_at.
Upsert(row, u) ==
  IF row = None
  THEN [id |-> u.id, at |-> Col(u.at)]
  ELSE [id |-> IF u.at > row.at \/ (u.at = row.at /\ u.id > row.id)
               THEN u.id ELSE row.id,
        at |-> IF u.at > row.at THEN Col(u.at) ELSE row.at]

\* Mutant: only a passing check ends a run, an absent one does not.
OpenRunsUnlessPassed(old, u) ==
  [l \in Labels |-> IF l \in Failing(u.checks)
                    THEN IF old[l] = None THEN Col(u.at) ELSE old[l]
                    ELSE IF \E c \in u.checks : c.label = l THEN None ELSE old[l]]

\* Mutant: REPLACE instead of INSERT IGNORE, the start moves with every report.
OpenRunsRestarted(old, u) ==
  [l \in Labels |-> IF l \in Failing(u.checks) THEN Col(u.at) ELSE None]

\* problem_since after a report that became the latest: failing labels keep an
\* open run or open one, every other run of the producer ends.
OpenRuns(old, u) ==
  [l \in Labels |-> IF l \in Failing(u.checks)
                    THEN IF old[l] = None THEN Col(u.at) ELSE old[l]
                    ELSE None]

\* Row (at, id) ranks before (bat, bid) in ORDER BY collected_at DESC, id DESC.
Before(at, id, bat, bid) == at > bat \/ (at = bat /\ id > bid)

ReportsOf(table, p) == {i \in Ids : table[i] # None /\ table[i].prod = p}

PointersInto(table) ==
  {[id |-> i, at |-> table[i].at] : i \in {j \in Ids : table[j] # None}}

\* r is the row ROW_NUMBER() gives rn = 1 among the reports of p, or None when
\* p has none.
RanksFirst(table, p, r) ==
  IF ReportsOf(table, p) = {}
  THEN r = None
  ELSE /\ r \in PointersInto(table)
       /\ r.id \in ReportsOf(table, p)
       /\ \A i \in ReportsOf(table, p) \ {r.id} :
            Before(r.at, r.id, table[i].at, i)

\* Transactions that hold an uncommitted report row, and the producer's
\* latest_report row.
HoldsReport(h)  == pc[h] \in {"stored", "pointed", "ready"}
HoldsPointer(h) == pc[h] \in {"pointed", "ready"}

-----------------------------------------------------------------------------
Init ==
  /\ report = [i \in Ids |-> None]
  /\ latest = [p \in Producers |-> None]
  /\ since  = [p \in Producers |-> [l \in Labels |-> None]]
  /\ spool = {} /\ minted = {}
  /\ pc   = [h \in Handlers |-> "idle"]
  /\ up   = [h \in Handlers |-> None]
  /\ ptr  = [h \in Handlers |-> None]
  /\ runs = [h \in Handlers |-> None]
  /\ faults = 0 /\ surgery = {}
  /\ damage = [p \in Producers |-> {}]

\* A producer run: a report under a fresh ULID goes to the spool.  Stamps are
\* the producer's clock, in any order.
Collect(u) ==
  /\ \A v \in minted : v.id # u.id
  /\ spool'  = spool \cup {u}
  /\ minted' = minted \cup {u}
  /\ UNCHANGED <<tables, txs, faults, surgery, damage>>

\* A spooled file is uploaded: at any time, in any order, and again while an
\* earlier attempt is still being served.
Deliver(h, u) ==
  /\ pc[h] = "idle" /\ u \in spool
  /\ Validate(u)
  /\ pc' = [pc EXCEPT ![h] = "begun"]
  /\ up' = [up EXCEPT ![h] = u]
  /\ UNCHANGED <<tables, spool, minted, ptr, runs, faults, surgery, damage>>

\* 422 before any statement; a 4xx does not empty the spool.
Refuse(h, u) ==
  /\ pc[h] = "idle" /\ u \in spool
  /\ ~Validate(u)
  /\ UNCHANGED vars

\* Mutant: the insert does not wait for an uncommitted row of its id.
IdNeverHeld(h) == h \in Handlers

\* No other transaction has an uncommitted row under h's id.
IdIsFree(h) ==
  \A g \in Handlers \ {h} : HoldsReport(g) => up[g].id # up[h].id

\* Mutant: the pointer row is read without being locked.
PointerNeverHeld(h) == h \in Handlers

\* No other transaction has touched h's producer's pointer row.
PointerIsFree(h) ==
  \A g \in Handlers \ {h} : HoldsPointer(g) => up[g].prod # up[h].prod

\* INSERT IGNORE INTO report stored a row; the check rows follow in the same
\* transaction.
InsertReport(h) ==
  /\ pc[h] = "begun" /\ IdIsFree(h)
  /\ report[up[h].id] = None
  /\ pc' = [pc EXCEPT ![h] = "stored"]
  /\ UNCHANGED <<tables, spool, minted, up, ptr, runs, faults, surgery, damage>>

\* End of a request: the handler is free, its transaction's writes are gone.
Close(h) ==
  /\ pc'   = [pc EXCEPT ![h] = "idle"]
  /\ up'   = [up EXCEPT ![h] = None]
  /\ ptr'  = [ptr EXCEPT ![h] = None]
  /\ runs' = [runs EXCEPT ![h] = None]

\* Mutant: a row another transaction has not committed yet counts as stored.
AckUncommitted(h) ==
  /\ pc[h] = "begun" /\ (report[up[h].id] # None \/ ~IdIsFree(h))
  /\ spool'  = {u \in spool : u.id # up[h].id}
  /\ Close(h)
  /\ UNCHANGED <<tables, minted, faults, surgery, damage>>

\* Mutant: a duplicate is answered with an error.
RefuseDuplicate(h) ==
  /\ pc[h] = "begun" /\ IdIsFree(h)
  /\ report[up[h].id] # None
  /\ Close(h)
  /\ UNCHANGED <<tables, spool, minted, faults, surgery, damage>>

\* rows_affected() == 0: roll back and answer 200, which empties the spool.
AckDuplicate(h) ==
  /\ pc[h] = "begun" /\ IdIsFree(h)
  /\ report[up[h].id] # None
  /\ spool'  = {u \in spool : u.id # up[h].id}
  /\ Close(h)
  /\ UNCHANGED <<tables, minted, faults, surgery, damage>>

\* Mutant: the error of a check row is swallowed and the upload acknowledged.
InsertCheckIgnored(h) ==
  /\ pc[h] = "stored" /\ ~FitsColumns(up[h])
  /\ spool'  = {u \in spool : u.id # up[h].id}
  /\ Close(h)
  /\ UNCHANGED <<tables, minted, faults, surgery, damage>>

\* A check row does not fit its column: the statement fails, the transaction
\* is dropped, the answer is a 500.
InsertCheckFails(h) ==
  /\ pc[h] = "stored" /\ ~FitsColumns(up[h])
  /\ Close(h)
  /\ UNCHANGED <<tables, spool, minted, faults, surgery, damage>>

\* Mutant: the pointer is written outside the report's transaction.
UpsertPointerAtOnce(h) ==
  /\ pc[h] = "stored" /\ FitsColumns(up[h])
  /\ PointerIsFree(h)
  /\ ptr' = [ptr EXCEPT ![h] = Upsert(latest[up[h].prod], up[h])]
  /\ latest' = [latest EXCEPT ![up[h].prod] = Upsert(latest[up[h].prod], up[h])]
  /\ pc'  = [pc EXCEPT ![h] = "pointed"]
  /\ UNCHANGED <<report, since, spool, minted, up, runs, faults, surgery, damage>>

UpsertPointer(h) ==
  /\ pc[h] = "stored" /\ FitsColumns(up[h])
  /\ PointerIsFree(h)
  /\ ptr' = [ptr EXCEPT ![h] = Upsert(latest[up[h].prod], up[h])]
  /\ pc'  = [pc EXCEPT ![h] = "pointed"]
  /\ UNCHANGED <<tables, spool, minted, up, runs, faults, surgery, damage>>

\* The guard of ingest: the pointer this transaction wrote names its report.
IsLatest(h) == ptr[h].id = up[h].id

\* Mutant: a replay wipes its producer's runs.
MaintainSinceWiping(h) ==
  /\ pc[h] = "pointed"
  /\ runs' = [runs EXCEPT ![h] = IF IsLatest(h) THEN OpenRuns(since[up[h].prod], up[h])
                                 ELSE None]
  /\ pc' = [pc EXCEPT ![h] = "ready"]
  /\ UNCHANGED <<tables, spool, minted, up, ptr, faults, surgery, damage>>

MaintainSince(h) ==
  /\ pc[h] = "pointed"
  /\ runs' = [runs EXCEPT ![h] = IF IsLatest(h)
                                 THEN OpenRuns(since[up[h].prod], up[h])
                                 ELSE since[up[h].prod]]
  /\ pc' = [pc EXCEPT ![h] = "ready"]
  /\ UNCHANGED <<tables, spool, minted, up, ptr, faults, surgery, damage>>

\* COMMIT makes the report, its checks, the pointer and the runs visible at
\* once.  A report that became the latest leaves no stale run behind.
Publish(h) ==
  /\ report' = [report EXCEPT ![up[h].id] = RowOf(up[h])]
  /\ latest' = [latest EXCEPT ![up[h].prod] = ptr[h]]
  /\ since'  = [since EXCEPT ![up[h].prod] = runs[h]]
  /\ damage' = [damage EXCEPT ![up[h].prod] = IF IsLatest(h) THEN @ \ {"since"}
                                               ELSE @ \cup {"late"}]

Commit(h) ==
  /\ pc[h] = "ready"
  /\ Publish(h) /\ Close(h)
  /\ spool'  = {u \in spool : u.id # up[h].id}
  /\ UNCHANGED <<minted, faults, surgery>>

\* The commit takes effect and the producer never hears of it.
CommitUnheard(h) ==
  /\ pc[h] = "ready" /\ faults < MaxFaults
  /\ Publish(h) /\ Close(h)
  /\ faults' = faults + 1
  /\ UNCHANGED <<spool, minted, surgery>>

\* A statement fails, the engine picks the transaction as a deadlock victim,
\* or the pod dies: nothing of it stays.
Abort(h) ==
  /\ pc[h] # "idle" /\ faults < MaxFaults
  /\ faults' = faults + 1
  /\ Close(h)
  /\ UNCHANGED <<tables, spool, minted, surgery, damage>>

\* Mutant: the reconcile inserts missing pointers and overwrites none.
RebuildMissing ==
  /\ \A h \in Handlers : ~HoldsReport(h)
  /\ \E w \in [Producers -> PointersInto(report) \cup {None}] :
       /\ \A p \in Producers : RanksFirst(report, p, w[p])
       /\ latest' = [p \in Producers |-> IF latest[p] = None THEN w[p] ELSE latest[p]]
  /\ damage' = [p \in Producers |-> damage[p] \ {"pointer"}]
  /\ UNCHANGED <<report, since, spool, minted, txs, faults, surgery>>

\* rebuild_latest_report: one statement that reads every report row under a
\* shared lock, so it waits for uncommitted ones, and overwrites the pointers.
\* Runs opened under another pointer stay as they are.
Rebuild ==
  /\ \A h \in Handlers : ~HoldsReport(h)
  /\ \E w \in [Producers -> PointersInto(report) \cup {None}] :
       /\ \A p \in Producers : RanksFirst(report, p, w[p])
       /\ latest' = [p \in Producers |-> IF w[p] = None THEN latest[p] ELSE w[p]]
  /\ damage' = [p \in Producers |-> (damage[p] \ {"pointer"}) \cup
                                    IF latest'[p] = latest[p] THEN {} ELSE {"since"}]
  /\ UNCHANGED <<report, since, spool, minted, txs, faults, surgery>>

\* DELETE FROM report WHERE id = i, typed by an operator: the foreign keys take
\* the checks and the pointer along (waiting for a transaction that has the
\* pointer row); problem_since has no foreign key.
DeleteReport(i) ==
  /\ i \in Doomed \ surgery /\ report[i] # None
  /\ surgery' = surgery \cup {i}
  /\ report' = [report EXCEPT ![i] = None]
  /\ LET p == report[i].prod IN
       IF latest[p] # None /\ latest[p].id = i
       THEN /\ \A h \in Handlers : HoldsPointer(h) => up[h].prod # p
            /\ latest' = [latest EXCEPT ![p] = None]
            /\ damage' = [damage EXCEPT ![p] = {"pointer", "since", "history"}]
       ELSE /\ latest' = latest
            /\ damage' = [damage EXCEPT ![p] = @ \cup {"history"}]
  /\ UNCHANGED <<since, spool, minted, txs, faults>>

HandlerStep(h) ==
  \/ InsertReport(h)
  \/ AckDuplicate(h)
  \/ InsertCheckFails(h)
  \/ UpsertPointer(h)
  \/ MaintainSince(h)
  \/ Commit(h)

Next ==
  \/ \E u \in Upload : Collect(u)
  \/ \E h \in Handlers, u \in spool : Deliver(h, u) \/ Refuse(h, u)
  \/ \E h \in Handlers : HandlerStep(h) \/ CommitUnheard(h) \/ Abort(h)
  \/ Rebuild
  \/ \E i \in Ids : DeleteReport(i)

Spec == Init /\ [][Next]_vars

\* Every started request runs on, and a spooled file is retried until a 2xx:
\* the producers flush the whole spool on every run, and the connection pool
\* serves waiting requests first come, first served.
Fairness ==
  /\ \A h \in Handlers : WF_vars(HandlerStep(h))
  /\ \A i \in Ids : SF_vars(\E h \in Handlers : \E u \in spool : u.id = i /\ Deliver(h, u))

FairSpec == Spec /\ Fairness

-----------------------------------------------------------------------------
(* Properties.                                                             *)

TypeOK ==
  /\ report \in [Ids -> Row \cup {None}]
  /\ latest \in [Producers -> Pointer \cup {None}]
  /\ since \in [Producers -> Runs]
  /\ minted \in SUBSET Upload /\ spool \in SUBSET minted
  /\ pc \in [Handlers -> {"idle", "begun", "stored", "pointed", "ready"}]
  /\ up \in [Handlers -> Upload \cup {None}]
  /\ ptr \in [Handlers -> Pointer \cup {None}]
  /\ runs \in [Handlers -> Runs \cup {None}]
  /\ faults \in 0..MaxFaults
  /\ surgery \in SUBSET Doomed
  /\ damage \in [Producers -> SUBSET Harms]

\* Every producer's pointer is the row the window ranks first, whatever the
\* order, overlap, replay or failure of uploads and reconciles (repo.rs:161-192,
\* migration 0005 "EXACTLY the window's"), unless its newest report was deleted
\* by hand and no reconcile has run since.  It needs stamps of whole
\* milliseconds, which the code does not enforce.
PointerIsNewest ==
  \A p \in Producers :
    "pointer" \notin damage[p] => RanksFirst(report, p, latest[p])

\* Even when two reports share a millisecond, no stored report of a producer
\* was collected after the one its pointer names.
PointerTimeIsNewest ==
  \A p \in Producers : "pointer" \notin damage[p] =>
    IF latest[p] = None
    THEN ReportsOf(report, p) = {}
    ELSE /\ latest[p].id \in ReportsOf(report, p)
         /\ report[latest[p].id].at = latest[p].at
         /\ \A i \in ReportsOf(report, p) : report[i].at <= latest[p].at

\* The open failing runs of a producer are the failing labels of its latest
\* report: late replays neither open nor close a run, and a label that passes
\* or is no longer reported has none (repo.rs:194-267).  Stamps have any
\* precision.  Excepted is a producer whose newest report was deleted by hand or
\* whose pointer a reconcile moved (two reports of one millisecond are enough),
\* until its next report becomes the latest: nothing recomputes the runs.
RunsMatchLatest ==
  \A p \in Producers : "since" \notin damage[p] =>
    {l \in Labels : since[p][l] # None} =
      IF latest[p] = None THEN {} ELSE Failing(report[latest[p].id].checks)

\* A run that counts as confirmed (first_seen < collected_at, repo.rs:538) was
\* seen failing in an earlier stored report, collected at first_seen; and no
\* run starts after the report it is shown with.  Excepted is a producer that
\* had a report deleted by hand.
ConfirmedWasSeenBefore ==
  \A p \in Producers, l \in Labels :
    "history" \notin damage[p] /\ since[p][l] # None =>
      /\ since[p][l] <= latest[p].at
      /\ \E i \in ReportsOf(report, p) :
           report[i].at = since[p][l] /\ l \in Failing(report[i].checks)

\* "Nothing is lost" (design.md 7.2): an upload the producer has let go of is
\* stored, with its own content, although a duplicate is acknowledged without
\* storing and any transaction can fail after another saw its row.
NothingIsLost ==
  \A u \in minted : u \in spool \/ report[u.id] = RowOf(u) \/ u.id \in surgery

\* At most one transaction at a time holds an uncommitted row of an id, and
\* never one that is already stored: "effectively exactly-once" (design.md 7.2).
StoredOnce ==
  \A h \in Handlers : HoldsReport(h) => report[up[h].id] = None /\ IdIsFree(h)

\* What a transaction computed from the committed pointer and runs is still
\* what they would give when it commits: no commit, reconcile or deletion gets
\* between its upsert and its commit (repo.rs:172-269).
NoStaleRead ==
  \A h \in Handlers : HoldsPointer(h) =>
    /\ PointerIsFree(h)
    /\ ptr[h] = Upsert(latest[up[h].prod], up[h])
    /\ pc[h] = "ready" =>
         runs[h] = IF IsLatest(h)
                   THEN OpenRuns(since[up[h].prod], up[h])
                   ELSE since[up[h].prod]

\* A pointer never dangles: it names a stored report of its own producer and
\* carries that report's time (the foreign key of migration 0005).
PointerHasReport ==
  \A p \in Producers : latest[p] # None =>
    /\ latest[p].id \in ReportsOf(report, p)
    /\ report[latest[p].id].at = latest[p].at

\* In normal service (no hand-deletion) every step of the write path either is
\* one atomic entry in the ledger or leaves it alone: a reader never sees a
\* report without its pointer and its runs, and a reconcile is a no-op.  Stamps
\* are whole milliseconds, which the code does not enforce.
Ledger == INSTANCE NewestLedger WITH
            Times  <- Stamps,
            ledger <- report,
            newest <- [p \in Producers |-> IF latest[p] = None THEN None ELSE latest[p].id],
            open   <- since

LedgerSpec == Ledger!Spec

\* Every well-formed report a producer spools is stored and its spool emptied,
\* when faults end: no lock wait, duplicate or replay leaves it stuck.
EventuallyStored ==
  \A i \in Ids :
    (\E u \in spool : u.id = i /\ u.form = "ok")
      ~> (report[i] # None /\ \A u \in spool : u.id # i)

\* Reports of p in which l does not fail, and which rank between i and the
\* latest: a failing run cannot reach back across one.
Interrupted(p, l, i) ==
  \E j \in ReportsOf(report, p) :
    /\ l \notin Failing(report[j].checks)
    /\ Before(report[j].at, j, report[i].at, i)

\* The reports of the current failing run of label l: those that fail, and
\* after which none is without the failure.
RunReports(p, l) ==
  {i \in ReportsOf(report, p) :
     l \in Failing(report[i].checks) /\ ~Interrupted(p, l, i)}

\* since[p][l] is when the current failing run of l began.
IsRunStart(p, l) ==
  /\ \E i \in RunReports(p, l) : report[i].at = since[p][l]
  /\ \A i \in RunReports(p, l) : since[p][l] <= report[i].at

\* first_seen is "the producer's clock at the FIRST report of the current run"
\* (migration 0006:27), across passing, failing and silent reports, reconciles
\* and faults, for a producer none of whose reports arrived late, and with
\* stamps of whole milliseconds.
FirstSeenInOrder ==
  \A p \in Producers, l \in Labels :
    damage[p] = {} /\ since[p][l] # None => IsRunStart(p, l)

============================================================================
