# fleetwatch: models, checks and proofs

TLA+ models of fleetwatch, the service that takes self-reports from a fleet's
collectors (`POST /api/reports`), keeps them in MariaDB, and says what is wrong
right now (`GET /api/problems`, `GET /api/overview`) to a dashboard, a board
CLI and an Android app. Paths below are relative to the repository root, which
`PROJECT.json` calls `src/`.

Contents: [the system](#the-system) · [modules](#modules) ·
[runs](#runs) · [bounds](#bounds-and-why-they-are-enough) ·
[fairness](#fairness) · [proofs](#proofs) ·
[disagreements](#disagreements-between-code-and-text) ·
[choices](#modelling-choices) · [not modelled](#not-modelled) · [plan](#plan)

## The system

| component | state | operations | talks to |
|---|---|---|---|
| Producers (`fleetwatch_push.py`, outside this repository) | a spool of report files, each under a ULID minted once | run: stamp and spool; flush: upload every file, delete it on a 2xx | ingest, over HTTP, any number of times |
| Ingest and report store (`src/report/repo.rs`, `routes/ingest.rs`, migrations 0001, 0004-0006) | `report`, `check_result`; derived `latest_report` (newest report per producer) and `problem_since` (start of each open failing run) | `ingest` in one transaction; `rebuild_latest_report` at boot; hand-deletion, which cascades | every reader, through the tables |
| Problems view and overview (`repo.rs`, `staleness.rs`, `routes/views.rs`) | none | `problems` (four queries), `overview` | reads the store, mutes, retirements |
| Mutes (`repo.rs`, migration 0003) | `mute`: identity, created, expires | create with clamped TTL, delete, list the live ones, lapsing | overlay on the views |
| Retirements (`repo.rs`, migration 0007) | `retirement`: producer, retired_at | create or restate, delete | overlay on the views |
| Retention (`report/retention.rs`, `main.rs`) | none; deletes old `check_result` rows and clears old raw payloads; `last_sweep` stamp in memory | daily sweep | takes rows away under the views; read by the self-report |
| Self-report (`selfcheck.rs`, `main.rs`) | none | every 15 min: pool, lag, retention, boot and churn checks, ingested like any report | ingest, retention stamp |
| Android poller (`android/`, `Watch.kt`, `Alerting.kt`, `Problems.kt`) | the last fingerprint (a preference), one notification | every half hour: fetch, compare, notify, remember | the problems view |
| Login and sessions (`session.rs`, `pending_login.rs`, `routes/auth.rs`) | `sessions` table; a pending-login and a session cookie per browser | login, callback with one retry, logout, sweep | Nextcloud, the browser |
| Bearer tokens (`auth.rs`) | configured list | match a header | guards ingest and reads |
| Pool and readiness (`db.rs`, `routes/health.rs`) | eight connections | acquire, release; `/readyz` within 3 s | everything |
| Dashboard (`frontend/`) | a tab's problems store (answer, status, stamp), its timers, the service worker's copy | refresh on a timer and when shown again, mute, unmute, retire, draw | the API, through the worker |
| History and report views | none | the points of a label, the checks of a report | the store, as far as the sweep has left it |
| Board CLI, telemetry, static files | none | rendering, logging | the store |

What is hard to test here, and what the properties aim at:

- **Two uploads at once**: of the same report (a retry overtaking its first
  attempt) and of one producer (pointer and runs read by one transaction while
  another writes them).
- **Order and repetition**: spools drain late, out of order and again after an
  answer was lost. The pointer and the failing runs are maintained
  incrementally, so each late arrival is a chance to get them wrong.
- **Partial failure**: a statement fails half-way through a report; a pod dies;
  a commit goes through and nobody hears of it.
- **Derived state against its source**: pointer against the window query, runs
  against the newest report's checks, tile counts against check rows that
  retention deletes.
- **Reads that are not one instant**: `problems()` is four queries on a pool.
- **Time**: staleness by a producer's clock, mutes that expire between two
  looks, a sweeper that silently stops.
- **Memory of what was said**: the phone must neither repeat itself nor be
  quiet about something it never told.
- **Old data that looks new**: a dashboard tab that sits in the background, a
  load that fails or overtakes another, an answer from the worker's copy.
- **Waiting while holding**: an ingest waits for a row with a connection in its
  hand, everybody waits for connections, and any of them can be cut off there.
- **Late arrivals against windows**: lag, churn and retention each compare two
  clocks, and a spool that drains late moves between their windows.

What makes each component correct: nothing acknowledged is lost and nothing is
stored twice; the pointer is the window's first row; the open runs are the
failing labels of the newest report and began when they say; no failing label
disappears between overlays, retention and staleness; an answer shows what was
wrong throughout the reading of it; a return stands, a mute is announced before
it lapses, a tile tells the truth; silence and a stopped sweeper get noticed
without false alarms; the phone is quiet only about what it told; a sign-in that nothing
disturbs succeeds and returns to its page, no redirect goes round for ever, and
no session outlives its time; what a tab shows is as young as it says, give or take
a turn of its ticker, and it catches up; a connection and a lock come back however a
request ends, and waiting for them never goes round in a circle; lag, churn and
retention judge a producer by what it did and not by when its spool drained.

## Modules

| module | what it is | code |
|---|---|---|
| `ReportStore` | the write path, statement by statement, with concurrent handlers, spools, faults, reconcile, hand-deletion | `repo.rs` 20-335, `routes/ingest.rs`, migrations 0001, 0005, 0006 |
| `NewestLedger` | what the write path promises: reports enter whole, one at a time, each with its pointer and runs | the same, as a contract |
| `Board` | the read side at one instant: freshness, tiles, rows, mutes, retirements, the retention sweep, over a `NewestLedger` | `repo.rs` 341-799, `staleness.rs`, `retention.rs` |
| `BoardReader` | `Board`, with `problems()` as the four queries it is | `repo.rs` 473-593 |
| `Upkeep` | sweeper and self-report of successive pods | `main.rs` 45-111, `selfcheck.rs` |
| `Poller` | the phone | `Watch.kt`, `Alerting.kt`, `Problems.kt` |
| `SignIn` | the tabs of one browser, its cookies, login and callback, Nextcloud, the sessions and their sweep | `session.rs`, `pending_login.rs`, `routes/auth.rs`, `nextcloud/identity.rs`, `auth-redirect.interceptor.ts` |
| `Dashboard` | the problems page in a tab: its store, timers, loads and mutes, behind the service worker | `problems-store.ts`, `problems.ts`, `ngsw-config.json` |
| `Pool` | the connection pool, ingests, views and the readiness probe that share it | `db.rs`, `routes/health.rs`, `repo.rs` 111-269, 473-560 |
| `Arrivals` | one producer over days: spool, uplink, labels; lag, churn, trends and retention | `selfcheck.rs` 127-161, 239-332, `retention.rs`, `repo.rs` 883-988 |
| `MC...` | small instances for TLC | |
| `ReportStoreProofs`, `BoardProofs`, `UpkeepProofs`, `PollerProofs`, `PoolProofs`, `DashboardProofs`, `ArrivalsProofs`, `SignInProofs` | theorems | |

They compose along the data: `ReportStore` implements `NewestLedger`
(`LedgerSpec`, checked and proved), `Board` takes its reports from
`NewestLedger`'s `Store` and so need not know of transactions, and
`BoardReader` puts the interleaving of the reads on top of `Board`. `Pool` is
`ReportStore`'s transactions and `BoardReader`'s four queries once more, reduced
to what they hold and wait for; `Dashboard` asks what `Board` answers, reduced to
one check and its mutes; `Arrivals` is the spool of `ReportStore` against the
calendar.

### ReportStore

`report`, `latest` and `since` are the committed tables. A handler `h` that
serves an upload `up[h]` goes through the statements of `ingest`:

| `pc[h]` | action | statement |
|---|---|---|
| begun | `InsertReport` / `AckDuplicate` | `INSERT IGNORE INTO report`, and the check rows, or the rollback and the 200 of a duplicate |
| stored | `UpsertPointer` / `InsertCheckFails` | `INSERT ... ON DUPLICATE KEY UPDATE latest_report`, or the failed check row and its 500 |
| pointed | `MaintainSince` | the `is_latest` read, then the inserts and deletes on `problem_since` |
| ready | `Commit` / `CommitUnheard` | `tx.commit()`, with the 201 delivered or lost |
| any | `Abort` | an error, a deadlock victim, a dead pod |

What it has written and not committed is in `ptr[h]` and `runs[h]`. Row locks
are guards: `IdIsFree` for the duplicate-key wait, `PointerIsFree` for the
pointer row. `Collect`, `Deliver` and the removals from `spool` are the
producer; `Rebuild` is the reconcile of a booting pod; `DeleteReport` an
operator's `DELETE`, with the cascade. `damage` records what such a deletion, a
reconcile that moved a pointer, or a late report left behind and no statement of the
code repairs, so that the invariants can say exactly for whom they hold.

### Board and BoardReader

`Tile`, `ProblemRows` and `Assemble` follow `overview_entry`, the first query of
`problems` and its second half. `View` is the answer of one instant. In
`BoardReader` the four queries are four steps and anything else can come
between; `wrong` collects the producers in trouble at *every* instant of a
read, which is what an answer may fairly be measured by, and `calm` is true
while no report or retirement has landed during it.

### Upkeep and Poller

`Upkeep`'s stamp lives in the pod (`Stop` forgets it), the last stored verdict
does not. `Tick` waits for whatever is due: timers fire on time, and a sweep
takes at most `MaxSweep`. `Poller` splits `doWork` at its two hazards: between
the fetch and the decision, and between acting and remembering, where the
preference is in memory (`last`) before it is on disk (`disk`).

### SignIn

A tab is a page, or the request or answer it waits for; the path of a sign-in is
page → login → nextcloud → callback → exchange → page. The two cookies are the
browser's (`jar`): a request carries what they were when it was sent, an answer
changes them when it arrives, and it may get lost. `nc` says whether Nextcloud
knows the browser; if not, its callback brings no state, and `Decide` (the
code's `accept`) sends the tab round once more. `asked` and `trouble` are
history: where a sign-in was to lead, and whether another one crossed it or
something from outside upset it (a cookie that lapsed, a Nextcloud session that
ended, an exchange that failed, an answer that was lost).

### Dashboard

`load` is the page's request: sent, read by the server (`reply` is what it saw),
landed; or answered from the worker's copy (`FallsBack`), or failed. `stamp` is
the age of `fetchedAt`, `lag` that of `nowMs`, which only the ticker sets
(`TickerFires`), and `ago` the age the page shows, which is the distance of the two
and stands still until the ticker fires; `value.age` is the age of the data it stands
beside. In a hidden tab both timers may be held up. `Reload` is Angular's `reload()`: nothing while a load is under way, which is why `asked`
keeps whether the reload after a mute asked anew or was overtaken.

### Pool

A request is queued, testing the connection it was handed, or running; an ingest
keeps its connection until it ends, a view hands it back after each statement, the
probe has a budget over everything. `Ended` is the one way back: dropping the
future returns the connection and rolls the transaction back, whether the request
was answered, refused, timed out or hung up on. Time passes whatever statement runs,
so a request may be refused, or the probe unready, on a database that answers but is
slow.

### Arrivals

A day is a tick. `Collect` spools a run's labels under its day, `Upload` stores it
with the day it came in, `Relabel` rewrites the labels of some of the section's checks,
`Restock` adds and removes checks, `Tick` may take the uplink away.
`LagNamed`, `Churning`, `History` and `Detail` are the queries, over what `Sweep` has
left in `rows` and `raw`.

## Runs

| run | question | result |
|---|---|---|
| `store_races` | three reports of two producers in any order, two labels (one failing *and* passing in one report), two requests at a time, a fault, reconciles: are pointers and runs right at every instant, and is the whole thing a `NewestLedger`? | holds, 503,845 states |
| `store_delivery` | malformed and over-wide uploads, stamps finer than the column, a report deleted by hand, fair retries: is nothing dropped, does a reconcile repair the pointer, is every well-formed upload stored? | holds, 161,031 states |
| `board_overlays` | two reports, two labels, two mutes, retirement, retention: can a failing label vanish, a return be forgiven, a mute lapse unannounced, a tile lie? | holds, 519,448 states |
| `board_reads` | the four queries among mutes, unmutes, sweeps and the clock: does an answer miss what was wrong throughout? is a silent producer listed in the end? | holds, 86,883 states |
| `upkeep_watch` | failing and slow sweeps, failing reports, two pods: is green true, is jitter quiet, is a stopped sweeper named? | holds, 81,023 states |
| `poller_watch` | changing answers, permission, swipes, deaths: is quiet only what was told, is nothing said twice, is everything told in the end? | holds, 14,460 states |
| `signin_tabs` | two tabs sign in and out with shared cookies: does a sign-in fail without a cause, end elsewhere or go round for ever? does a session stay? | holds, 180,823 states |
| `dashboard_tab` | a tab shown and hidden, a network that slows and fails, the worker's copy, mutes: is what is shown fresh, is the age beside it right to a turn of the ticker, does a mute show, does the page catch up? | holds, 1,367,856 states |
| `pool_shared` | two connections for two ingests of one producer, a view and the probe, hang-ups, a database that hangs and goes: does anything leak, does waiting go in a circle, is the probe answered? | holds, 96,948 states |
| `arrivals_week` | six days with outages, skipped runs, rewritten labels, checks that come and go, and sweeps: does lag name only an uplink, churn all that drifts and nothing but that and sections that shrank, does a sweep take something early? | holds, 4,521,331 states |
| `board_double_mute` | is a tile true under overlapping mutes? | violated |
| `board_torn` | is what was wrong throughout a read in its answer, if a report lands meanwhile? | violated |

The properties worth an explanation:

- `NothingIsLost` and `StoredOnce` together are the "effectively exactly-once"
  of `docs/design.md` 7.2. The subtle case is the duplicate: it is acknowledged
  without storing anything, which is right only because the insert waits for
  the other transaction to end.
- `NoStaleRead`: the pointer a transaction wrote, and the runs it computed,
  are still what the committed tables would give. It holds because the upsert
  is the *first* read of derived state and takes the row's lock.
- `ConfirmedWasSeenBefore`, `FirstSeenInOrder`: a problem counts as confirmed
  (and wakes somebody) when `first_seen < collected_at`. The first says that
  this is never an artefact: an earlier stored report did show the failure. The
  second says that `first_seen` is the beginning of the current run, for
  producers without a late report.
- `NothingHidden`: retention deletes check rows by age, those of a producer's
  newest report included, while the tile keeps its counts. It holds because by
  then the report is stale, which is an assumption on two settings
  (`RetentionAssumption`), not a line of code.
- `CalmTroubleIsShown` names exactly which concurrent changes cannot tear an
  answer; `SteadyTroubleIsShown` (violated) which can.
- `StoppedIsNamed` and `QuietWhileSweeping` are the two sides of the 25 hours:
  named within an hour and one report of the missed sweep, never on jitter.
- `SoloSignInFinishes`, `ReturnsHere`: the detour through Nextcloud's login, with
  its dropped code and its second round, is invisible to a tab that signs in by
  itself. `EveryTabRests` holds for tabs that overwrite each other's cookie too,
  because every retry uses up the one attempt of some login.
- `QuietOnlyIfToldAlive`, `MarkWasTold`: what the phone remembers is what it
  delivered, or what it had delivered when it last reached the disk.
- `FreshWhileVisible`: the bound is *two* periods, and it is tight: a tab hidden
  for just under one is not asked anew when shown (`problems-store.ts:58`), and the
  interval may have just fired unheard. `StampIsTrue` says that the age written
  beside the data is at most one turn of the ticker behind the data's, unless the
  ticker has missed its turn: a tab shown again goes on showing the age of when it was
  hidden until the ticker fires, and is then off by a period at most. Both bounds are
  tight.
- `MuteShowsUnlessOvertaken` names the one case in which a mute that was saved
  does not show: a load was under way when the page heard of it.
- `NoCircularWait`: someone can always go on. It fails at once if a statement of the
  transaction asks the pool for a second connection. It does not say that nobody is
  refused: slow statements can hold all the connections past a limit, as
  `routes/health.rs:44-46` says. `ProbeNeverHangs` needs the budget to cover the
  statement too.
- `StoppedIsNotLag`: lag means the uplink, if producer and service have one clock.
- `DriftIsNamed`, `SteadyIsQuiet`: the two sides of churn, over any order of arrival.
  The second says what an alarm can come from: a label rewritten twice, or a check that
  the window has and the newest report has not. The latter is an alarm with no label
  rewritten, and the property has it as a case because the code does; without either
  case it fails.
- `NothingSweptEarly` relates the two clocks of retention: payloads by receipt, rows
  by collection.
- `RunsMatchLatest` holds with stamps of any precision, since whatever `Rebuild` moves
  is excepted; with whole milliseconds, as in `store_races`, it moves nothing but a
  pointer that was deleted.

Every property has a mutant in `PROJECT.json`: an operator, defined beside the
one it alters, with a plausible mistake (the two columns of the upsert assigned
in the other order, an upsert ordered by ULID, a read without its lock, a stamp
moved by a failed sweep, ...) under which TLC finds the property violated.

## Bounds, and why they are enough

- **Reports**: three, of one producer or two, is the least that has a pointer,
  something older and something newer than it, and a run that was interrupted
  between two failures. **Handlers**: two; locks relate pairs. **Stamps**: two
  milliseconds, so that ties occur among three reports; in `store_delivery` one of
  them is a microsecond past, which its column cuts off.
- `MaxFaults` = 1 fault per behaviour, at every statement; `Doomed` limits which
  reports may be deleted by hand (one, that wins ties, so that a reconcile matters).
  In the theorems both are arbitrary.
- **Clock**: `Board` counts to 4 with an interval of 2, 3 days of retention and
  mutes that live 4 or 8, so that a report turns overdue and its rows are swept,
  and a mute passes its last quarter and runs out. `board_reads` uses an
  interval of 1, so that a report also turns silent.
- **Upkeep**: a sweep every 4, 5 allowed, a report every 2, sweeps of up to 1,
  up to 14: three nights, with a restart.
- **Poller**: five answers: nothing, a failure, the failure with a silent
  producer, a return with an unconfirmed failure, and a warning. Two deaths.
- **SignIn**: two tabs on two pages, two logins in all (one each, or one after the
  other), a session for each, and a nonce for every place one can be at once.
  `logins` is the only counter; retries are the code's to bound.
- **Dashboard**: a tick is a turn of the ticker (10 s) and the period two of them (nine
  in the code), so that something happens between two firings and the ticker's lag
  differs from the period; ages count to one past the largest a property mentions,
  the age of `nowMs` to the one at which a turn has been missed; one live mute of the
  check. In the theorems period and mutes are arbitrary.
- **Pool**: two connections and two ingests of one producer, the least that can
  hold everything while waiting for each other's row; a view of two statements,
  so that one comes back to the queue; a probe with a budget of one tick, where
  waiting for a connection is limited to two (3 s and 30 s in the code).
- **Arrivals**: six days (so that what waited across a change can come in after it
  and still be in the window), a window of two, check rows for three days, payloads for
  two; up to two checks in the section, which changes at most twice (a drift takes two
  rewrites, and a section that shrinks is named after one change with rewritten labels
  before it). `CHECK_DEADLOCK FALSE`, as the calendar ends.
- Handlers, mutes and the checks of a section are interchangeable, so they are
  symmetry sets; runs with liveness use none.

## Fairness

- `ReportStore` (`EventuallyStored`): weak fairness of each handler's step (an
  `async fn` whose statement has returned goes on; MariaDB grants a lock once
  its holder has ended), strong fairness of delivering each id, because a
  producer's flush uploads every spooled file on every run. Faults are bounded,
  so they end. `Collect`, `Rebuild`, `DeleteReport` and faults have none.
- `BoardReader` (`SilenceIsNoticed`): time passes and somebody keeps asking
  (the dashboard refreshes, the phone polls). Reports, mutes and retirements
  have none.
- `Poller` (`EventuallyTold`): WorkManager runs the periodic work, the phone is
  online again and again, and a preference edit is written in the end.
- `SignIn` (`EveryTabRests`, `SessionsEnd`): requests and answers go on (browsers
  and servers time out, which is a failing answer), a session reaches its
  expiry, and the hourly sweep runs. Nobody need sign in, log out or come back.
- `Dashboard` (`Converges`): time passes, the two intervals fire (weak fairness) and a
  load ends in an answer, a copy or an error. The property itself assumes that the
  tab stays visible, the server is in reach and its state stops changing, and speaks
  of an answer on the page: if the server answers with errors for ever, the error
  page stays.
- `Pool` (`ProbeNeverHangs`): time passes (strongly fair: it stands still while a
  connection is handed out and timers fire), the pool grants and timers fire (tokio's).
  Nothing makes a statement return or the database come back.
- `Upkeep` has no liveness property: its promises have deadlines, and are
  invariants of a clock that waits for what is due.

## Proofs

All theorems hold for every value of the constants that satisfies the modules'
named assumptions; liveness, and what is listed at the end, is TLC's alone.

**ReportStore.** Each layer of the invariant is inductive relative to those
below it.

1. `TypeInv` = `TypeOK` and `Serving` (what a handler holds at each statement).
   Gives `TypeCorrect`.
2. `IdInv` adds that ids are minted once (`MintedOnce`), that a stored row is
   the row of a minted upload (`StoredIsSent`), `StoredOnce` and
   `NothingIsLost`. None is inductive alone: a duplicate may be acknowledged
   because the stored row under its id can only be its own. Gives `NothingLost`
   and `AtMostOnce`.
3. `PtrInv` adds `NoStaleRead`, `PointerHasReport` and `PointerTimeIsNewest`:
   the pointer a commit publishes was computed from the pointer it replaces.
   Gives `ReadsStayTrue` and `PointerTimeNewest`, for stamps of any precision.
4. `NewestInv` adds `PointerIsNewest`, assuming `ColumnPrecise` (producers stamp
   whole milliseconds, which the code does not enforce). Without it the statement is
   false, see below. Gives `PointerNewest`.
5. `RunsInv` is `PtrInv` with `RunsMatchLatest`, which needs that an upsert that did
   not win left the pointer alone. Gives `RunsMatch`, for stamps of any precision: a
   reconcile that moves a pointer (which needs a deletion, or two reports within one
   millisecond) leaves the runs of the other report and is an exception the property
   names, until the producer's next report becomes the latest.
6. `SeenInv` is `PtrInv` with `HistoryStays` (where a deletion left the pointer in
   doubt, history is in doubt for good) and `BeganWithReport`. Gives `ConfirmedSeen`,
   for stamps of any precision: the report a run began with is still there, and the
   pointer is no older than any report.
7. `PreciseInv` is 4 and 5 together, under `ColumnPrecise`: a reconcile only moves a
   pointer that a deletion took, so runs are in doubt only where history is
   (`SinceStays`). `RunsStartInv` adds `FirstSeenInOrder`: a report that became the
   latest ranks before all others, so it interrupts every run it does not continue.
   Gives `RunsStartRight`.
8. `RefInv` adds to `PreciseInv` that nobody deletes reports (`NormalService`). Gives
   `Refinement`: every `Publish` is one `Store`, everything else, a reconcile
   included, a stutter. The mapping is `ledger <- report`, `newest <-` the id
   of `latest`, `open <- since`.

**Board.** `BoardInv`: the tables hold rows (`TablesInv`), `newest` names a
report of its own producer (`NewestInv`), and only reports past the retention
are swept (`SweptInv`). With `RetentionAssumption` a swept newest report is
stale, and everything else is in the rows: `NothingIsHidden`. `ReturnsStand`
needs that the newest report never gets older. `MuteInv` keeps every mute's life
within the TTL range: `BoardTypes`, and `LapsesAreAnnounced`, for a clock that ticks
at least four times in the shortest mute's life (`FineClock`: seconds against an
hour in the code; on a coarser one the last quarter may fall between two ticks).
`TilesAreTrue`: without overlaps the join of checks and live mutes maps one to one
onto the muted checks (`JoinIsInjective`), so the subtraction leaves the unmuted
ones; reports have finitely many checks (`ListsAssumption`).

Two refinements put the modules together: `BoardIsOnALedger` (the reports of `Board`
are a `NewestLedger`, which `ReportStore` implements) and `ReadsOnly` (`BoardReader`
implements `Board`, so the theorems about the views hold between the queries of a
read as well).

`CalmInv` is what a reader that no report and no retirement disturbed still knows
after each query. While those stand still rows only go (`StillRows`), and who is
stale or returned stays so (`StillTrouble`). Only rows and mutes can come apart, and
they cannot: when the mutes are read, a producer in trouble either has a row the
mutes of that instant leave uncovered, and the reader has that row, or is in a list
that no mute touches. Gives `CalmReadsShowTrouble`; it fails as soon as reports may
arrive, see `board_torn`.

**Upkeep.** `ClockInv` (when each timer is due, how old a running sweep is),
`SweepInv` (a pod without a failed sweep has a recent stamp), `VerdictInv`
(what the stored verdict knew), `ReportInv` (the newest report of a pod is no
older than a period). They give `GreenIsTrue`, `JitterIsQuiet` and
`StoppedGetsNamed` under `GraceAssumption`: a sweep fits in the hour between 24
and 25.

**Poller.** `TellingInv`: while no process has died, the remembered mark is what
was told, or is about to be. It gives `QuietMeansTold` and `NeverTwice`;
`MarksWereTold` holds with deaths; `PollerTypes` is the type invariant.

**Pool.** `PoolInv`: the pool counts its holders, a locked row belongs to a running
transaction that is past the statement that locked it, and a view has a statement
left. The argument against circles is an order: connection, then report row, then
pointer row. Whoever has a pointer row waits for nothing but the database, so when all
the connections are out one of their holders is not blocked (`SomeoneCanGoOn`,
`NoCircle`), however long statements take. It gives `PoolTypes`, `PoolLeaksNothing`
and `PoolNeverDeadlocks`, assuming that rows of `report` and of
`latest_report` are different rows (`RowsAssumption`).

**Dashboard.** `AgeInv`: the data is no older than `fetchedAt` (`StampInv`), the age
shown is the stamp's or one turn of the ticker behind it until a turn is missed
(`AgoInv`), a tab that has missed one shows a stamp of at most a period when it is looked
at (`LateInv`), and a visible answer's age plus the ticks left until the interval fires
is at most two periods (`FreshInv`). `MuteInv`: a mute that stands is on
the server and in every reply read for a load that was asked after it. They give
`StampsAreTrue`, `VisibleIsFresh` and `MutesShow`; `DashboardTypes` is the type
invariant.

**Arrivals.** `WaitedForUplink`: what is in the spool overnight, or came in late, saw the
uplink down on or after its day. `KeptInv`: one report a day (payloads are cleared by
the day's report, so two of one day would take each other's). They give
`LagMeansUplink` and `KeptLongEnough`. `LabelInv`: reports are finitely many, with one
label for each of some checks; with `KeptInv` the three reports of a drift are still in
the window, and are counted: `DriftGetsNamed`. `SteadyInv`: reports collected since the
last change have the labels of the day, and what came in late had waited since the last
day without the uplink. If no label was rewritten twice and the newest report has every
check of the window, the window has at most two labels for each of its checks
(`TwoEach`); and if the section has not changed for the window, and nothing waited, all
reports in the window have the labels of the day. In neither case is there an alarm:
`SteadyStaysQuiet`. It took the proof to find that the second half needs its hypothesis
on the uplink: a report from before a change that waits over the day of the change comes
in the day after, and its labels are in the window for that much longer.

**SignIn.** `Types` says what each request and answer carries. `Alone`: while a
sign-in that crosses no other is under way, no other tab has one, so the pending-login
cookie is that sign-in's own (leaving for `/login` is what crosses; logging out and
`/dev-login` do not touch the cookie). `Undisturbed` follows it step by step:
`Heading`, where it leads, unless it was crossed; `Smooth`, that its nonce is the
cookie's and that it is sent round only once, by when Nextcloud knows the browser,
unless anything befell it. They give `SoloSignInsFinish` and `SignInsReturn`, assuming
that fresh nonces do not run out (`NoncesAssumption`: a tab holds two at the most).

Only model-checked: the liveness properties (`EventuallyStored`,
`SilenceIsNoticed`, `EventuallyTold`, `EveryTabRests`, `SessionsEnd`, `Converges`,
`ProbeNeverHangs`): they rest on fairness, which the provers used here cannot
reason about. Every other property that a passing run checks is a theorem. Type invariants that a theorem states for every instance
(`PollerTypes`, `PoolTypes`, `DashboardTypes`) are not run again.

## Disagreements between code and text

Shown by a run (the entry in `PROJECT.json` quotes both sides):

- `board_double_mute`: two live mutes of one check count it twice in
  `overview`'s join, so the tile also loses an unmuted failure.
- `board_torn`: an overdue producer's failing report that lands between the
  first and the last query of `problems()` leaves the producer in no list.

Noticed while modelling, and plain enough to say without one:

- `repo.rs:87` admits sections of up to 255 bytes, the column is a `VARCHAR(128)`
  (migration 0001:41), and `repo.rs:76` says "the DB columns are VARCHAR(255) ...
  Reject both here": 129 to 255 bytes end in a 500, which a spool retries for ever
  (`FitsColumns` against `Validate`).
- With no sweep completed since the pod began the retention verdict is Skip, at any
  age of the pod (`selfcheck.rs:165`), so a sweeper that fails from the first night on
  is never a problem, against "named within one cycle rather than at disk-full"
  (`selfcheck.rs:176-177`).
- The worker's copy resolves the resource like an answer, so its age is shown as
  "checked 0s ago" and an all-clear may be one of days ago, against "the honesty
  marker" (`problems-store.ts:32`); `StampIsTrue` is about answers of the server.
- The age is computed from `nowMs` (`problems-store.ts:35-40`), which a ticker sets
  every 10 s and which a browser may hold up in a hidden tab: a tab shown again within
  a period reads "checked 3s ago" beside data of a minute ago until the ticker fires.
  `onVisible` (line 58) goes by the real age and does not set `nowMs`.
- A load under way when a mute is heard swallows the reload (`problems.ts:130`): the
  page goes on showing the check unmuted, against "the client must re-ask, not
  guess" (`problems.spec.ts:97`), and invites a second mute of it, hence
  `board_double_mute`.
- While a producer's uplink is down its lag stays what it was, since no report comes
  in: "has a growing lag" (`selfcheck.rs:27-28`, `design.md:243`) is true only once
  the spool drains, oldest first, and over as soon as it has.
- A producer that dies right after a late delivery is named by lag for ever.
- One drifting label among two or more of a section never makes the 2.5 times of
  `churn_check`. A section that loses most of its checks does, with no label rewritten:
  `selfcheck.rs:292-300` compares the labels of the window with the number of the
  newest report's (the second case of `SteadyIsQuiet`).
- Only the readiness probe has a time limit. A transaction on a database that
  hangs waits, with its connection, until the client gives up.
- `repo.rs:176` compares a stamp bound with microseconds with a column of
  milliseconds. Of two reports in one millisecond the later arrival then wins
  whatever its id, against "EXACTLY the window's" in migration 0005
  (`ColumnPrecise` is in the theorems for this). The next boot's reconcile moves the
  pointer to the other report, and the failing runs stay those of the first until the
  producer reports again (the exception in `RunsMatchLatest`).
- `main.rs:30` says that the reconcile "closes the one window this deployment shape
  leaves open", reports an old pod stores without a pointer. It does so for those
  stored before it; the old pod goes on until the new one is ready. No model has the
  old pod.
- A late report never touches `problem_since` (`repo.rs:211`), so an earlier
  failure of the run that arrives late does not move `first_seen` back to "the
  FIRST report of the current run" (migration 0006:27); `FirstSeenInOrder` is
  for producers without a late report.
- Two tabs that sign in at once share one pending-login cookie: one of them can
  end on the other's page, and the other on "This sign-in did not start here",
  where `auth-redirect.interceptor.ts:7` says that the flow returns here
  (`ReturnsHere` without its second disjunct fails).
- `staleness.rs:20` speaks of flooring a zero interval at the default; line 21
  floors it at one second (`Every`).
- `docs/design.md:217` clamps a mute's TTL at 90 days, `repo.rs:38` at a year.
- `Watch.kt:109` applies the fingerprint in memory and writes it later: a
  process that dies right after an all-clear can take the same failure, back
  again, for told (`QuietOnlyIfTold` fails once `deaths` may be positive).

## Modelling choices

- Sections, texts, metrics and the raw payload are left out: no property
  depends on them. A report's checks are a set of (label, verdict), and a label
  stands for the identity (producer, section, label).
- ULIDs are numbers, not tied to time: a producer's clock may go anywhere, and
  the order of ids is independent of that of stamps.
- One MariaDB, whose commits are atomic. The locks that matter are written as
  guards; a deadlock that the engine breaks is an `Abort`. `Rebuild` waits for
  all uncommitted reports, as `INSERT ... SELECT` reads with shared locks.
- Reads of `Board` see committed tables; each query is one instant.
- In `Upkeep` the two pods of a rolling update follow one another; they overlap
  for seconds against periods of minutes to days.
- In `SignIn` a signature is a cookie that nobody else can have made, and a fresh
  nonce or session id is one that nobody has.
- In `Dashboard` there is one check, and one request of the page under way. The form's
  opening and closing, retiring, the overview fetched under an all-clear and the 401
  redirect are left out; ages are counted in turns of the ticker. Of Angular and of
  the service worker it takes that `reload()` does nothing while loading, that a
  `freshness` group answers from its copy after 3 s or offline, replaces the copy
  by what arrives later, and passes error responses on.
- In `Pool` a statement takes any time. Connections are granted in order of asking, at
  once when one is free, and come back at once when a future is dropped (sqlx). A wait
  for a row that the engine ends (its own limit, or a deadlock it breaks) is an error,
  `StatementFails`.
- In `Arrivals` a day has one run, the section changes between runs, and a spool that
  can drain does so within the day, in any order. Producer and service have one clock:
  a lag or a window that is off by a skewed clock is not covered.
- WorkManager runs one worker of a unique periodic work at a time, so `Poller`
  has one. A fetch that fails is a fetch that has not happened yet.

## Not modelled

The old pod of a rolling update, whose ingest knows nothing of the pointer: its code is
not in this tree. Bearer tokens, telemetry, static files and the parsing of the environment: no state
that outlives a request or a boot. The self-report's pool bands and boot costs:
pure functions of one reading. Pages other than the problems page, the chart, the
retirement form: they draw one answer, or repeat the shape of a mute. Rendering,
styles, the build, CI and generated types: not behaviour of the running system.
The producers, MariaDB,
Nextcloud, Android and the network are external and appear as far as the code
relies on them.

## Plan

Order: what loses or falsifies data first, then what misinforms, then what
annoys.

1. Write path and its contract (`ReportStore`, `NewestLedger`), proofs: done.
2. Read side (`Board`, `BoardReader`), proofs of the instant view: done.
3. Background tasks and phone (`Upkeep`, `Poller`), proofs: done.
4. Login and sessions (`SignIn`), proofs: done.
5. `Dashboard`, `Pool`, `Arrivals`, proofs: done.
6. Pure operators with reference definitions: the pool check's bands, the chart's
   bucketing.
