-------------------------------- MODULE Pool --------------------------------
(***************************************************************************)
(* The connection pool the whole pod shares, and the three ways it is      *)
(* used: an ingest keeps one connection for its transaction, and in it may *)
(* wait for rows another transaction has locked; a view takes one for each *)
(* of its statements in turn; the readiness probe asks for one like        *)
(* anybody else, within a budget.                                          *)
(*                                                                         *)
(* A statement takes any time at all, on a database that answers too; on   *)
(* one that hangs ("hung") it is not answered before that is over.         *)
(***************************************************************************)
EXTENDS Integers, FiniteSets

CONSTANTS
  Ingests, Views, Pings,   \* the requests of each kind
  Rows,                    \* rows of report and of latest_report
  ReportRow,               \* the row of report with an ingest's id
  PointerRow,              \* the pointer row of an ingest's producer
  MaxConnections,
  Statements,              \* statements of a view, its session lookup included
  Budget,                  \* READY_BUDGET in ticks
  AcquireLimit,            \* the pool's own limit on waiting for a connection
  None

Requests == Ingests \cup Views \cup Pings

ASSUME RequestsAssumption ==
  /\ Ingests \cap Views = {} /\ Ingests \cap Pings = {} /\ Views \cap Pings = {}
  /\ IsFiniteSet(Requests)
ASSUME RowsAssumption ==
  /\ ReportRow \in [Ingests -> Rows] /\ PointerRow \in [Ingests -> Rows]
  /\ \A r, q \in Ingests : ReportRow[r] # PointerRow[q]
ASSUME LimitsAssumption ==
  /\ MaxConnections \in Nat \ {0} /\ Statements \in Nat \ {0}
  /\ Budget \in Nat \ {0} /\ AcquireLimit \in Nat /\ Budget <= AcquireLimit
ASSUME NoneAssumption == None \notin Requests

VARIABLES
  db,       \* "up", "hung" (nothing is answered), "down" (everything fails)
  ahead,    \* per request: those that wait for a connection in front of it
  busy,     \* connections handed out
  stage,    \* per request: "idle", "queued", "testing", "running"
  left,     \* per request: statements it has left
  waited,   \* per request: ticks it has waited
  holder,   \* per row: the transaction that has it locked
  stored    \* rows of report that are committed

vars == <<db, ahead, busy, stage, left, waited, holder, stored>>

Live(r)  == stage[r] # "idle"
Holds(r) == stage[r] \in {"testing", "running"}

Work(r) == IF r \in Views THEN Statements ELSE IF r \in Ingests THEN 2 ELSE 1

Init ==
  /\ db = "up" /\ busy = 0
  /\ ahead  = [r \in Requests |-> {}]
  /\ stage  = [r \in Requests |-> "idle"]
  /\ left   = [r \in Requests |-> Work(r)]
  /\ waited = [r \in Requests |-> 0]
  /\ holder = [x \in Rows |-> None]
  /\ stored = {}

-----------------------------------------------------------------------------
(* The pool.                                                               *)

Queued == {r \in Requests : stage[r] = "queued"}

\* A request comes in and asks for its first connection.
Arrive(r) ==
  /\ stage[r] = "idle"
  /\ stage'  = [stage EXCEPT ![r] = "queued"]
  /\ ahead'  = [ahead EXCEPT ![r] = Queued]
  /\ UNCHANGED <<db, busy, left, waited, holder, stored>>

\* Whoever has waited longest is handed a connection, which the pool then tests
\* or opens.
Grant(r) ==
  /\ stage[r] = "queued" /\ ahead[r] = {} /\ busy < MaxConnections
  /\ stage' = [stage EXCEPT ![r] = "testing"]
  /\ ahead' = [q \in Requests |-> ahead[q] \ {r}]
  /\ busy'  = busy + 1
  /\ UNCHANGED <<db, left, waited, holder, stored>>

Connect(r) ==
  /\ stage[r] = "testing" /\ db = "up"
  /\ stage' = [stage EXCEPT ![r] = "running"]
  /\ UNCHANGED <<db, ahead, busy, left, waited, holder, stored>>

NeedsRow(r) == IF left[r] = 2 THEN ReportRow[r] ELSE PointerRow[r]

RowFree(r) == holder[NeedsRow(r)] = None

\* r is only waiting for another transaction's row.
Blocked(r) ==
  r \in Ingests /\ stage[r] = "running" /\ left[r] > 0 /\ ~RowFree(r)

RowsWithout(r) == [x \in Rows |-> IF holder[x] = r THEN None ELSE holder[x]]

\* A request ends, one way or another: it leaves the queue, or its connection
\* goes back, its transaction with it. The client may then ask again.
Ended(r) ==
  /\ stage'  = [stage EXCEPT ![r] = "idle"]
  /\ left'   = [left EXCEPT ![r] = Work(r)]
  /\ waited' = [waited EXCEPT ![r] = 0]
  /\ ahead'  = [q \in Requests |-> IF q = r THEN {} ELSE ahead[q] \ {r}]
  /\ busy'   = IF Holds(r) THEN busy - 1 ELSE busy
  /\ holder' = RowsWithout(r)
  /\ UNCHANGED db

End(r) == Ended(r) /\ UNCHANGED stored

LimitReached(r) == stage[r] \in {"queued", "testing"} /\ waited[r] >= AcquireLimit

\* No connection in time.
AcquireTimesOut(r) == LimitReached(r) /\ End(r)

\* The database refuses the connection or the statement, or has the statement
\* wait for a row no longer.
StatementFails(r) == Holds(r) /\ (db = "down" \/ Blocked(r)) /\ End(r)

\* Mutant: the connection of a dropped request is not returned.
HangUpKeeping(r) ==
  /\ Live(r)
  /\ stage'  = [stage EXCEPT ![r] = "idle"]
  /\ left'   = [left EXCEPT ![r] = Work(r)]
  /\ waited' = [waited EXCEPT ![r] = 0]
  /\ ahead'  = [q \in Requests |-> IF q = r THEN {} ELSE ahead[q] \ {r}]
  /\ holder' = RowsWithout(r)
  /\ UNCHANGED <<db, busy, stored>>

\* The client hangs up and the handler is dropped where it stands.
HangUp(r) == Live(r) /\ End(r)

-----------------------------------------------------------------------------
(* The requests.                                                           *)

\* A view returns its connection after every statement and asks again.
RunStatement(r) ==
  /\ r \in Views /\ stage[r] = "running" /\ db = "up"
  /\ IF left[r] = 1
     THEN End(r)
     ELSE /\ stage'  = [stage EXCEPT ![r] = "queued"]
          /\ ahead'  = [ahead EXCEPT ![r] = Queued]
          /\ busy'   = busy - 1
          /\ left'   = [left EXCEPT ![r] = @ - 1]
          /\ waited' = [waited EXCEPT ![r] = 0]
          /\ UNCHANGED <<db, holder, stored>>

\* Mutant: a statement of the transaction asks the pool for a connection of its
\* own, while the transaction keeps the first.
InsertFromPool(r) ==
  /\ r \in Ingests /\ stage[r] = "running" /\ db = "up" /\ left[r] = 2
  /\ left'  = [left EXCEPT ![r] = 1]
  /\ stage' = [stage EXCEPT ![r] = "queued"]
  /\ ahead' = [ahead EXCEPT ![r] = Queued]
  /\ UNCHANGED <<db, busy, waited, holder, stored>>

\* ingest's INSERT IGNORE and its check rows, on the transaction's connection. A
\* report that is there already ends it; one that another transaction is writing
\* is waited for.
Insert(r) ==
  /\ r \in Ingests /\ stage[r] = "running" /\ db = "up" /\ left[r] = 2
  /\ RowFree(r)
  /\ IF ReportRow[r] \in stored
     THEN End(r)
     ELSE /\ left'   = [left EXCEPT ![r] = 1]
          /\ holder' = [holder EXCEPT ![ReportRow[r]] = r]
          /\ UNCHANGED <<db, ahead, busy, stage, waited, stored>>

\* The pointer's upsert.
LockPointer(r) ==
  /\ r \in Ingests /\ stage[r] = "running" /\ db = "up" /\ left[r] = 1
  /\ RowFree(r)
  /\ left'   = [left EXCEPT ![r] = 0]
  /\ holder' = [holder EXCEPT ![PointerRow[r]] = r]
  /\ UNCHANGED <<db, ahead, busy, stage, waited, stored>>

Commit(r) ==
  /\ r \in Ingests /\ stage[r] = "running" /\ db = "up" /\ left[r] = 0
  /\ stored' = stored \cup {ReportRow[r]}
  /\ Ended(r)

\* SELECT 1.
Ping(r) ==
  /\ r \in Pings /\ stage[r] = "running" /\ db = "up"
  /\ End(r)

\* Mutant: the budget covers the wait for a connection, not the statement.
SpentInQueue(r) ==
  r \in Pings /\ stage[r] \in {"queued", "testing"} /\ waited[r] >= Budget

BudgetSpent(r) == r \in Pings /\ Live(r) /\ waited[r] >= Budget

\* The probe's timeout drops the whole attempt, wherever it stands.
BudgetEnds(r) == BudgetSpent(r) /\ End(r)

-----------------------------------------------------------------------------
DbChanges ==
  /\ db' \in {"up", "hung", "down"} \ {db}
  /\ UNCHANGED <<ahead, busy, stage, left, waited, holder, stored>>

\* A connection can be handed out.
Grantable == Queued # {} /\ busy < MaxConnections

\* A limit has passed and its timer is about to fire.
Overdue == \E r \in Requests : LimitReached(r) \/ BudgetSpent(r)

\* A probe counts from its arrival, the others their wait for a connection.
Counts(r) == IF r \in Pings THEN Live(r) ELSE stage[r] \in {"queued", "testing"}

\* Time passes whatever statement runs: only a free connection is handed out, and
\* a timer fires, without delay.
Tick ==
  /\ ~Grantable /\ ~Overdue
  /\ \E r \in Requests : Live(r)
  /\ waited' = [r \in Requests |-> IF Counts(r) /\ waited[r] < AcquireLimit
                                 THEN waited[r] + 1 ELSE waited[r]]
  /\ UNCHANGED <<db, ahead, busy, stage, left, holder, stored>>

Step(r) ==
  Connect(r) \/ RunStatement(r) \/ Insert(r) \/ LockPointer(r) \/ Commit(r) \/ Ping(r)

Timeout(r) == AcquireTimesOut(r) \/ BudgetEnds(r)

Next ==
  \/ DbChanges \/ Tick
  \/ \E r \in Requests :
       Arrive(r) \/ Grant(r) \/ Step(r) \/ Timeout(r) \/ StatementFails(r) \/ HangUp(r)

Spec == Init /\ [][Next]_vars

\* Time goes on, the pool grants and timers fire; no answer of the database is
\* taken for granted.
FairSpec ==
  /\ Spec
  /\ SF_vars(Tick) /\ WF_vars(\E r \in Requests : Grant(r))
  /\ \A r \in Requests : WF_vars(Timeout(r))

-----------------------------------------------------------------------------
(* Properties.                                                             *)

TypeOK ==
  /\ db \in {"up", "hung", "down"}
  /\ ahead \in [Requests -> SUBSET Requests] /\ busy \in 0..MaxConnections
  /\ stage \in [Requests -> {"idle", "queued", "testing", "running"}]
  /\ left \in [Requests -> Nat] /\ waited \in [Requests -> Nat]
  /\ holder \in [Rows -> Ingests \cup {None}]
  /\ stored \subseteq Rows

Holders == {r \in Requests : Holds(r)}

\* The pool counts exactly the requests that have a connection, and a locked row
\* belongs to a transaction that still has one: whichever way a request ends
\* (answered, refused, timed out, hung up on), what it held comes back.
NothingLeaks ==
  /\ busy = Cardinality(Holders)
  /\ \A x \in Rows : holder[x] # None => stage[holder[x]] = "running"

\* Waiting for connections and for rows never goes round in a circle: while anyone
\* is under way, a connection can be handed out, or someone who has one waits for
\* nothing but the database's answer. (It is not that nobody is refused: statements
\* that are merely slow can hold every connection past a limit, "so an exhausted
\* pool reads as unready even while MariaDB itself is perfectly healthy",
\* routes/health.rs.)
NoCircularWait ==
  (\E r \in Requests : Live(r)) =>
    Grantable \/ \E r \in Requests : Holds(r) /\ ~Blocked(r)

\* The probe is answered whatever the database does, one that hangs for good in
\* the middle of SELECT 1 included ("so a failure arrives as a 503 we logged
\* rather than as a probe timeout", routes/health.rs).
ProbeNeverHangs == \A r \in Pings : Live(r) ~> ~Live(r)
============================================================================
