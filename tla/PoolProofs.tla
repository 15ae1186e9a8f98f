----------------------------- MODULE PoolProofs -----------------------------
(***************************************************************************)
(* The shared pool, for any number of requests, connections and rows: no   *)
(* connection and no row is lost, and waiting never goes round in a        *)
(* circle.  A transaction has its connection before it asks for a row, and *)
(* its report's row before the pointer's, so among the transactions that   *)
(* have a connection there is always one that waits for nothing.           *)
(***************************************************************************)
EXTENDS Pool, FiniteSetTheorems, TLAPS

\* Which rows a transaction has locked follows from how far it has come.
Locked(x) ==
  /\ stage[holder[x]] = "running"
  /\ left[holder[x]] = 0 \/ (left[holder[x]] = 1 /\ x = ReportRow[holder[x]])

LockInv == \A x \in Rows : holder[x] # None => Locked(x)

CountInv == busy = Cardinality(Holders)

\* A view has a statement left.
LeftInv == \A r \in Views : left[r] > 0

PoolInv == TypeOK /\ LeftInv /\ CountInv /\ LockInv

\* Each request, its connection back or not, ends in the same way.
Freed(r) == Ended(r) /\ Live(r)

USE RequestsAssumption, RowsAssumption, LimitsAssumption, NoneAssumption

LEMMA HoldersFinite == IsFiniteSet(Holders)
  BY FS_Subset DEF Holders

LEMMA WorkType == \A r \in Requests : Work(r) \in Nat
  BY DEF Work

\* What each action of a request amounts to.
LEMMA Shapes ==
  ASSUME NEW r \in Requests, TypeOK,
         Step(r) \/ Timeout(r) \/ StatementFails(r) \/ HangUp(r)
  PROVE  \/ Freed(r) /\ stored' \subseteq Rows
         \/ Connect(r)
         \/ RunStatement(r) /\ left[r] # 1
         \/ Insert(r) /\ ReportRow[r] \notin stored
         \/ LockPointer(r)
<1>1. CASE Connect(r)
  BY <1>1
<1>2. CASE RunStatement(r)
  BY <1>2 DEF RunStatement, End, Freed, Live, TypeOK
<1>3. CASE Insert(r)
  BY <1>3 DEF Insert, End, Freed, Live, TypeOK
<1>4. CASE LockPointer(r)
  BY <1>4
<1>5. CASE Commit(r)
  BY <1>5 DEF Commit, Freed, Live, TypeOK
<1>6. CASE Ping(r)
  BY <1>6 DEF Ping, End, Freed, Live, TypeOK
<1>7. CASE AcquireTimesOut(r)
  BY <1>7 DEF AcquireTimesOut, LimitReached, End, Freed, Live, TypeOK
<1>8. CASE BudgetEnds(r)
  BY <1>8 DEF BudgetEnds, BudgetSpent, End, Freed, Live, TypeOK
<1>9. CASE StatementFails(r)
  BY <1>9 DEF StatementFails, Holds, End, Freed, Live, TypeOK
<1>10. CASE HangUp(r)
  BY <1>10 DEF HangUp, End, Freed, TypeOK
<1> QED
  BY <1>1, <1>2, <1>3, <1>4, <1>5, <1>6, <1>7, <1>8, <1>9, <1>10
  DEF Step, Timeout

\* The cases of a step, for the four parts of the invariant.
LEMMA Cases ==
  ASSUME TypeOK, [Next]_vars
  PROVE  \/ DbChanges \/ Tick \/ UNCHANGED vars
         \/ \E r \in Requests :
              \/ Arrive(r) \/ Grant(r) \/ Connect(r) \/ LockPointer(r)
              \/ Freed(r) /\ stored' \subseteq Rows
              \/ RunStatement(r) /\ left[r] # 1
              \/ Insert(r) /\ ReportRow[r] \notin stored
<1>1. CASE UNCHANGED vars
  BY <1>1
<1>2. CASE Next
  BY <1>2, Shapes DEF Next
<1> QED
  BY <1>1, <1>2

LEMMA CountGrows ==
  ASSUME NEW r \in Requests, CountInv, ~Holds(r),
         Holders' = Holders \cup {r}, busy' = busy + 1
  PROVE  CountInv'
<1>1. Cardinality(Holders \cup {r}) = Cardinality(Holders) + 1
  BY HoldersFinite, FS_AddElement DEF Holders
<1> QED BY <1>1 DEF CountInv

LEMMA CountShrinks ==
  ASSUME NEW r \in Requests, CountInv, Holds(r),
         Holders' = Holders \ {r}, busy' = busy - 1
  PROVE  CountInv'
<1>1. Cardinality(Holders \ {r}) = Cardinality(Holders) - 1
  BY HoldersFinite, FS_RemoveElement DEF Holders
<1> QED BY <1>1 DEF CountInv

LEMMA CountNext == TypeOK /\ CountInv /\ [Next]_vars => CountInv'
<1> SUFFICES ASSUME TypeOK, CountInv, [Next]_vars PROVE CountInv'
  OBVIOUS
<1> USE DEF Holders, Holds
<1>1. CASE DbChanges
  BY <1>1 DEF DbChanges, CountInv
<1>2. CASE Tick
  BY <1>2 DEF Tick, CountInv
<1>3. CASE UNCHANGED vars
  BY <1>3 DEF vars, CountInv
<1>4. ASSUME NEW r \in Requests, Arrive(r) PROVE CountInv'
  <2>1. Holders' = Holders
    BY <1>4 DEF Arrive, TypeOK
  <2> QED
    BY <1>4, <2>1 DEF Arrive, CountInv
<1>5. ASSUME NEW r \in Requests, Grant(r) PROVE CountInv'
  <2>1. Holders' = Holders \cup {r} /\ ~Holds(r)
    BY <1>5 DEF Grant, TypeOK
  <2> QED
    BY <1>5, <2>1, CountGrows DEF Grant
<1>6. ASSUME NEW r \in Requests, Connect(r) PROVE CountInv'
  <2>1. Holders' = Holders
    BY <1>6 DEF Connect, TypeOK
  <2> QED
    BY <1>6, <2>1 DEF Connect, CountInv
<1>7. ASSUME NEW r \in Requests, LockPointer(r) PROVE CountInv'
  BY <1>7 DEF LockPointer, CountInv
<1>8. ASSUME NEW r \in Requests, Freed(r) PROVE CountInv'
  <2>1. CASE Holds(r)
    <3>1. Holders' = Holders \ {r}
      BY <1>8, <2>1 DEF Freed, Ended, TypeOK
    <3> QED
      BY <1>8, <2>1, <3>1, CountShrinks DEF Freed, Ended
  <2>2. CASE ~Holds(r)
    <3>1. Holders' = Holders
      BY <1>8, <2>2 DEF Freed, Ended, TypeOK
    <3> QED
      BY <1>8, <2>2, <3>1 DEF Freed, Ended, CountInv
  <2> QED
    BY <2>1, <2>2
<1>9. ASSUME NEW r \in Requests, RunStatement(r), left[r] # 1 PROVE CountInv'
  <2>1. Holders' = Holders \ {r} /\ Holds(r)
    BY <1>9 DEF RunStatement, TypeOK
  <2> QED
    BY <1>9, <2>1, CountShrinks DEF RunStatement
<1>10. ASSUME NEW r \in Requests, Insert(r), ReportRow[r] \notin stored PROVE CountInv'
  BY <1>10 DEF Insert, CountInv
<1> QED
  BY <1>1, <1>2, <1>3, <1>4, <1>5, <1>6, <1>7, <1>8, <1>9, <1>10, Cases

LEMMA TypeNext == TypeOK /\ LeftInv /\ CountInv /\ [Next]_vars => TypeOK'
<1> SUFFICES ASSUME TypeOK, LeftInv, CountInv, [Next]_vars PROVE TypeOK'
  OBVIOUS
<1> USE DEF TypeOK
<1>1. CASE DbChanges
  BY <1>1 DEF DbChanges
<1>2. CASE Tick
  BY <1>2 DEF Tick
<1>3. CASE UNCHANGED vars
  BY <1>3 DEF vars
<1>4. ASSUME NEW r \in Requests, Arrive(r) PROVE TypeOK'
  BY <1>4 DEF Arrive, Queued
<1>5. ASSUME NEW r \in Requests, Grant(r) PROVE TypeOK'
  BY <1>5 DEF Grant
<1>6. ASSUME NEW r \in Requests, Connect(r) PROVE TypeOK'
  BY <1>6 DEF Connect
<1>7. ASSUME NEW r \in Requests, LockPointer(r) PROVE TypeOK'
  BY <1>7 DEF LockPointer
<1>8. ASSUME NEW r \in Requests, Freed(r), stored' \subseteq Rows PROVE TypeOK'
  <2>1. Holds(r) => busy # 0
    BY HoldersFinite, FS_EmptySet DEF CountInv, Holders
  <2>2. busy' \in 0..MaxConnections
    BY <1>8, <2>1 DEF Freed, Ended
  <2>3. left' \in [Requests -> Nat]
    BY <1>8, WorkType DEF Freed, Ended
  <2>4. holder' \in [Rows -> Ingests \cup {None}]
    BY <1>8 DEF Freed, Ended, RowsWithout
  <2> QED
    BY <1>8, <2>2, <2>3, <2>4 DEF Freed, Ended
<1>9. ASSUME NEW r \in Requests, RunStatement(r), left[r] # 1 PROVE TypeOK'
  <2>1. r \in Holders
    BY <1>9 DEF Holders, Holds, RunStatement
  <2>2. busy # 0
    BY <2>1, HoldersFinite, FS_EmptySet DEF CountInv
  <2>3. left' \in [Requests -> Nat]
    BY <1>9 DEF RunStatement, LeftInv
  <2> QED
    BY <1>9, <2>2, <2>3 DEF RunStatement, Queued
<1>10. ASSUME NEW r \in Requests, Insert(r), ReportRow[r] \notin stored PROVE TypeOK'
  BY <1>10 DEF Insert
<1> QED
  BY <1>1, <1>2, <1>3, <1>4, <1>5, <1>6, <1>7, <1>8, <1>9, <1>10, Cases

LEMMA LeftNext == TypeOK /\ LeftInv /\ [Next]_vars => LeftInv'
<1> SUFFICES ASSUME TypeOK, LeftInv, [Next]_vars PROVE LeftInv'
  OBVIOUS
<1> USE DEF LeftInv, TypeOK, Requests
<1>1. CASE DbChanges
  BY <1>1 DEF DbChanges
<1>2. CASE Tick
  BY <1>2 DEF Tick
<1>3. CASE UNCHANGED vars
  BY <1>3 DEF vars
<1>4. ASSUME NEW r \in Requests, Arrive(r) \/ Grant(r) \/ Connect(r) PROVE LeftInv'
  BY <1>4 DEF Arrive, Grant, Connect
<1>5. ASSUME NEW r \in Requests, LockPointer(r) PROVE LeftInv'
  BY <1>5 DEF LockPointer
<1>6. ASSUME NEW r \in Requests, Freed(r) PROVE LeftInv'
  BY <1>6 DEF Freed, Ended, Work
<1>7. ASSUME NEW r \in Requests, RunStatement(r), left[r] # 1 PROVE LeftInv'
  BY <1>7 DEF RunStatement
<1>8. ASSUME NEW r \in Requests, Insert(r), ReportRow[r] \notin stored PROVE LeftInv'
  BY <1>8 DEF Insert
<1> QED
  BY <1>1, <1>2, <1>3, <1>4, <1>5, <1>6, <1>7, <1>8, Cases

LEMMA LockNext == TypeOK /\ LockInv /\ [Next]_vars => LockInv'
<1> SUFFICES ASSUME TypeOK, LockInv, [Next]_vars PROVE LockInv'
  OBVIOUS
<1> USE DEF LockInv, Locked, TypeOK
<1>1. CASE DbChanges
  BY <1>1 DEF DbChanges
<1>2. CASE Tick
  BY <1>2 DEF Tick
<1>3. CASE UNCHANGED vars
  BY <1>3 DEF vars
<1>4. ASSUME NEW r \in Requests, Arrive(r) PROVE LockInv'
  BY <1>4 DEF Arrive
<1>5. ASSUME NEW r \in Requests, Grant(r) PROVE LockInv'
  BY <1>5 DEF Grant
<1>6. ASSUME NEW r \in Requests, Connect(r) PROVE LockInv'
  BY <1>6 DEF Connect
<1>7. ASSUME NEW r \in Requests, LockPointer(r) PROVE LockInv'
  BY <1>7 DEF LockPointer
<1>8. ASSUME NEW r \in Requests, Freed(r) PROVE LockInv'
  BY <1>8 DEF Freed, Ended, RowsWithout
<1>9. ASSUME NEW r \in Requests, RunStatement(r), left[r] # 1 PROVE LockInv'
  <2> SUFFICES ASSUME NEW x \in Rows, holder'[x] # None
               PROVE  Locked(x)'
    BY DEF LockInv
  <2>1. holder' = holder /\ holder[x] \in Ingests /\ holder[x] # r
    BY <1>9 DEF RunStatement
  <2> QED
    BY <1>9, <2>1 DEF RunStatement, Requests
<1>10. ASSUME NEW r \in Requests, Insert(r), ReportRow[r] \notin stored PROVE LockInv'
  <2> SUFFICES ASSUME NEW x \in Rows, holder'[x] # None
               PROVE  Locked(x)'
    BY DEF LockInv
  <2>1. left[r] = 2 /\ holder[x] # r
    BY <1>10 DEF Insert
  <2>2. CASE x = ReportRow[r]
    BY <1>10, <2>2 DEF Insert
  <2>3. CASE x # ReportRow[r]
    <3>1. holder'[x] = holder[x] /\ holder[x] \in Requests
      BY <1>10, <2>3 DEF Insert, Requests
    <3> QED
      BY <1>10, <2>1, <3>1 DEF Insert
  <2> QED
    BY <2>2, <2>3
<1> QED
  BY <1>1, <1>2, <1>3, <1>4, <1>5, <1>6, <1>7, <1>8, <1>9, <1>10, Cases

\* Of the requests that have a connection, one can go on as soon as the
\* database answers: the row a transaction waits for is a pointer row, whose
\* holder waits for nothing, or a report's row, whose holder waits at most for
\* a pointer row.
LEMMA SomeoneCanGoOn ==
  ASSUME TypeOK, LockInv, NEW r \in Requests, Holds(r)
  PROVE  \E q \in Requests : Holds(q) /\ ~Blocked(q)
<1> USE DEF TypeOK, LockInv, Locked, Holds
<1>1. CASE ~Blocked(r)
  BY <1>1
<1>2. CASE Blocked(r)
  <2> DEFINE h == holder[NeedsRow(r)]
  <2>1. /\ h \in Ingests /\ Holds(h) /\ h \in Requests
        /\ left[h] = 0 \/ (left[h] = 1 /\ NeedsRow(r) = ReportRow[h])
    BY <1>2 DEF Blocked, RowFree, NeedsRow, Requests
  <2>2. CASE ~Blocked(h)
    BY <2>1, <2>2
  <2>3. CASE Blocked(h)
    <3> DEFINE g == holder[NeedsRow(h)]
    <3>1. left[h] = 1 /\ NeedsRow(h) = PointerRow[h] /\ g # None
      BY <2>1, <2>3 DEF Blocked, RowFree, NeedsRow
    <3>2. g \in Ingests /\ Holds(g) /\ g \in Requests /\ left[g] = 0
      BY <2>1, <3>1 DEF Requests
    <3> QED
      BY <3>2 DEF Blocked
  <2> QED
    BY <2>2, <2>3
<1> QED
  BY <1>1, <1>2

\* Whoever is under way, somebody can go on.
LEMMA NoCircle == TypeOK /\ CountInv /\ LockInv => NoCircularWait
<1> SUFFICES ASSUME TypeOK, CountInv, LockInv, NEW r \in Requests, Live(r), ~Grantable
             PROVE  \E q \in Requests : Holds(q) /\ ~Blocked(q)
  BY DEF NoCircularWait
<1>1. CASE Holds(r)
  BY <1>1, SomeoneCanGoOn
<1>2. CASE ~Holds(r)
  <2>1. r \in Queued
    BY <1>2 DEF Queued, Holds, Live, TypeOK
  <2>2. busy >= MaxConnections
    BY <2>1 DEF Grantable, TypeOK
  <2>3. Holders # {}
    BY <2>2, HoldersFinite, FS_EmptySet DEF CountInv, TypeOK
  <2> QED
    BY <2>3, SomeoneCanGoOn DEF Holders
<1> QED
  BY <1>1, <1>2

LEMMA PoolInit == Init => PoolInv
<1> SUFFICES ASSUME Init PROVE PoolInv
  OBVIOUS
<1>1. TypeOK
  BY WorkType DEF Init, TypeOK
<1>2. Holders = {}
  BY DEF Init, Holders, Holds
<1> QED
  BY <1>1, <1>2, FS_EmptySet DEF Init, PoolInv, LeftInv, Work, Requests,
       CountInv, LockInv

\* The invariant of the pool.
THEOREM PoolInvariant == Spec => []PoolInv
<1>1. PoolInv /\ [Next]_vars => PoolInv'
  BY CountNext, TypeNext, LeftNext, LockNext DEF PoolInv
<1> QED
  BY PoolInit, <1>1, PTL DEF Spec

\* Every variable keeps its range; in particular no more connections are handed
\* out than the pool may open (db.rs).
THEOREM PoolTypes == Spec => []TypeOK
  BY PoolInvariant, PTL DEF PoolInv

\* Whichever way a request ends, its connection and its rows come back.
THEOREM PoolLeaksNothing == Spec => []NothingLeaks
<1>1. PoolInv => NothingLeaks
  BY DEF PoolInv, CountInv, LockInv, Locked, NothingLeaks
<1> QED
  BY <1>1, PoolInvariant, PTL

\* However many requests there are, however few connections and however slow the
\* statements: while anyone is under way somebody can go on.
THEOREM PoolNeverDeadlocks == Spec => []NoCircularWait
<1>1. PoolInv => NoCircularWait
  BY NoCircle DEF PoolInv
<1> QED
  BY <1>1, PoolInvariant, PTL
=============================================================================
