------------------------- MODULE ReportStoreProofs -------------------------
(***************************************************************************)
(* Safety of ReportStore, for any number of producers, reports, labels,    *)
(* concurrent handlers, faults and hand-deletions, in layers: types, the   *)
(* identity of reports (nothing lost, stored once), the pointer, the       *)
(* failing runs and where they began; and that ReportStore implements      *)
(* NewestLedger.                                                           *)
(***************************************************************************)
EXTENDS ReportStore, TLAPS

-----------------------------------------------------------------------------
(* Type correctness.  TypeOK alone is not inductive: what a handler holds  *)
(* at each pc has to be known too.                                         *)

\* A busy handler serves an upload its producer really spooled, and has the
\* pointer and the runs from the moment it wrote them.
Serving ==
  \A h \in Handlers :
    /\ pc[h] # "idle" => up[h] \in minted
    /\ HoldsPointer(h) => ptr[h] \in Pointer
    /\ pc[h] = "ready" => runs[h] \in Runs

TypeInv == TypeOK /\ Serving

\* A stamp cut to its column is still a time.
LEMMA ColNat == ASSUME NEW t \in Nat PROVE Col(t) \in Nat /\ Col(t) <= t
  BY SMT DEF Col

\* The fields of an upload.
LEMMA UploadFields ==
  ASSUME NEW u \in Upload
  PROVE  /\ u.id \in Ids /\ u.id \in Nat
         /\ u.prod \in Producers
         /\ u.at \in Nat /\ u.at \in Stamps
         /\ u.checks \in CheckLists
         /\ Col(u.at) \in Nat
  BY IdsAssumption, StampsAssumption, ColNat DEF Upload

\* The upsert yields a pointer row.
LEMMA UpsertType ==
  ASSUME NEW u \in Upload, NEW r \in Pointer \cup {None}
  PROVE  Upsert(r, u) \in Pointer
  BY UploadFields, IdsAssumption, NoneAssumption DEF Upsert, Pointer

\* The maintained runs are runs.
LEMMA OpenRunsType ==
  ASSUME NEW u \in Upload, NEW old \in Runs
  PROVE  OpenRuns(old, u) \in Runs
  BY UploadFields DEF OpenRuns, Runs

\* The stored row of an upload is a row.
LEMMA RowType == ASSUME NEW u \in Upload PROVE RowOf(u) \in Row
  BY UploadFields DEF RowOf, Row

LEMMA TypeInit == Init => TypeInv
  BY BoundsAssumption DEF Init, TypeInv, TypeOK, Serving, Runs, HoldsPointer

\* Closing a request keeps the handler-side types.
LEMMA CloseType ==
  ASSUME TypeInv, NEW h \in Handlers, Close(h), minted' = minted
  PROVE  /\ pc' \in [Handlers -> {"idle", "begun", "stored", "pointed", "ready"}]
         /\ up' \in [Handlers -> Upload \cup {None}]
         /\ ptr' \in [Handlers -> Pointer \cup {None}]
         /\ runs' \in [Handlers -> Runs \cup {None}]
         /\ Serving'
  BY DEF TypeInv, TypeOK, Serving, Close, HoldsPointer

LEMMA TypeStep == TypeInv /\ [Next]_vars => TypeInv'
<1> SUFFICES ASSUME TypeInv, [Next]_vars PROVE TypeInv'
  OBVIOUS
<1> USE DEF TypeInv
<1>1. ASSUME NEW u \in Upload, Collect(u) PROVE TypeInv'
  BY <1>1 DEF Collect, TypeOK, Serving, tables, txs, HoldsPointer
<1>2. ASSUME NEW h \in Handlers, NEW u \in spool, Deliver(h, u) PROVE TypeInv'
  BY <1>2 DEF Deliver, TypeOK, Serving, tables, HoldsPointer
<1>3. ASSUME NEW h \in Handlers, NEW u \in spool, Refuse(h, u) PROVE TypeInv'
  <2>1. u \in Upload
    BY DEF TypeOK
  <2> QED BY <1>3, <2>1 DEF Refuse, TypeOK, Serving, vars, HoldsPointer
<1>4. ASSUME NEW h \in Handlers, InsertReport(h) PROVE TypeInv'
  BY <1>4 DEF InsertReport, TypeOK, Serving, tables, HoldsPointer
<1>5. ASSUME NEW h \in Handlers, AckDuplicate(h) PROVE TypeInv'
  <2>1. minted' = minted
    BY <1>5 DEF AckDuplicate
  <2> QED BY <1>5, <2>1, CloseType DEF AckDuplicate, TypeOK, tables
<1>6. ASSUME NEW h \in Handlers, InsertCheckFails(h) PROVE TypeInv'
  <2>1. minted' = minted
    BY <1>6 DEF InsertCheckFails
  <2> QED BY <1>6, <2>1, CloseType DEF InsertCheckFails, TypeOK, tables
<1>7. ASSUME NEW h \in Handlers, UpsertPointer(h) PROVE TypeInv'
  <2>1. up[h] \in Upload /\ up[h].prod \in Producers
    BY <1>7, UploadFields DEF UpsertPointer, TypeOK, Serving
  <2>2. Upsert(latest[up[h].prod], up[h]) \in Pointer
    BY <2>1, UpsertType DEF TypeOK
  <2> QED BY <1>7, <2>2 DEF UpsertPointer, TypeOK, Serving, tables, HoldsPointer
<1>8. ASSUME NEW h \in Handlers, MaintainSince(h) PROVE TypeInv'
  <2>1. up[h] \in Upload /\ up[h].prod \in Producers
    BY <1>8, UploadFields DEF MaintainSince, TypeOK, Serving
  <2>2. since[up[h].prod] \in Runs /\ OpenRuns(since[up[h].prod], up[h]) \in Runs
    BY <2>1, OpenRunsType DEF TypeOK
  <2> QED BY <1>8, <2>2 DEF MaintainSince, TypeOK, Serving, tables, HoldsPointer
<1>9. ASSUME NEW h \in Handlers, pc[h] = "ready", Publish(h)
      PROVE  /\ report' \in [Ids -> Row \cup {None}]
             /\ latest' \in [Producers -> Pointer \cup {None}]
             /\ since' \in [Producers -> Runs]
             /\ damage' \in [Producers -> SUBSET Harms]
  <2>1. up[h] \in Upload
    BY <1>9 DEF TypeOK, Serving
  <2>2. up[h].id \in Ids /\ up[h].prod \in Producers /\ RowOf(up[h]) \in Row
    BY <2>1, UploadFields, RowType
  <2>3. runs[h] \in Runs /\ ptr[h] \in Pointer \cup {None}
    BY <1>9 DEF TypeOK, Serving
  <2> QED BY <1>9, <2>2, <2>3 DEF Publish, TypeOK, Harms
<1>10. ASSUME NEW h \in Handlers, Commit(h) PROVE TypeInv'
  <2>1. minted' = minted
    BY <1>10 DEF Commit
  <2> QED BY <1>9, <1>10, <2>1, CloseType DEF Commit, TypeOK
<1>11. ASSUME NEW h \in Handlers, CommitUnheard(h) PROVE TypeInv'
  <2>1. minted' = minted /\ faults' \in 0..MaxFaults
    BY <1>11, BoundsAssumption DEF CommitUnheard, TypeOK
  <2> QED BY <1>9, <1>11, <2>1, CloseType DEF CommitUnheard, TypeOK
<1>12. ASSUME NEW h \in Handlers, Abort(h) PROVE TypeInv'
  <2>1. minted' = minted /\ faults' \in 0..MaxFaults
    BY <1>12, BoundsAssumption DEF Abort, TypeOK
  <2> QED BY <1>12, <2>1, CloseType DEF Abort, TypeOK, tables
<1>13. ASSUME Rebuild PROVE TypeInv'
  <2>1. PointersInto(report) \subseteq Pointer
    BY DEF PointersInto, Pointer, TypeOK, Row
  <2>2. latest' \in [Producers -> Pointer \cup {None}]
    BY <1>13, <2>1 DEF Rebuild, TypeOK
  <2>3. damage' \in [Producers -> SUBSET Harms]
    BY <1>13 DEF Rebuild, TypeOK, Harms
  <2> QED BY <1>13, <2>2, <2>3 DEF Rebuild, TypeOK, Serving, txs, HoldsPointer
<1>14. ASSUME NEW i \in Ids, DeleteReport(i) PROVE TypeInv'
  <2>1. report[i].prod \in Producers
    BY <1>14 DEF DeleteReport, TypeOK, Row
  <2> QED BY <1>14, <2>1 DEF DeleteReport, TypeOK, Serving, txs, HoldsPointer, Harms
<1>15. CASE UNCHANGED vars
  BY <1>15 DEF vars, TypeOK, Serving, HoldsPointer
<1> QED
  BY <1>1, <1>2, <1>3, <1>4, <1>5, <1>6, <1>7, <1>8, <1>10, <1>11, <1>12,
     <1>13, <1>14, <1>15 DEF Next, HandlerStep

\* The variables keep their types through every interleaving of requests,
\* faults, reconciles and deletions.
THEOREM TypeCorrect == Spec => []TypeOK
<1>1. TypeInv => TypeOK
  BY DEF TypeInv
<1> QED BY <1>1, TypeInit, TypeStep, PTL DEF Spec

-----------------------------------------------------------------------------
(* Layer 1: ids.                                                           *)

\* Producers mint an id once.
MintedOnce == \A u, v \in minted : u.id = v.id => u = v

\* What is stored under an id is what its producer sent.
StoredIsSent ==
  \A i \in Ids : report[i] # None => \E u \in minted : u.id = i /\ report[i] = RowOf(u)

IdInv == TypeInv /\ MintedOnce /\ StoredIsSent /\ StoredOnce /\ NothingIsLost

LEMMA IdInit == Init => IdInv
<1> SUFFICES ASSUME Init PROVE IdInv
  OBVIOUS
<1>1. TypeInv
  BY TypeInit
<1>2. MintedOnce /\ StoredIsSent /\ NothingIsLost
  BY DEF Init, MintedOnce, StoredIsSent, NothingIsLost
<1>3. StoredOnce
  BY DEF Init, StoredOnce, HoldsReport
<1> QED BY <1>1, <1>2, <1>3 DEF IdInv

\* Publishing h's row under a free id keeps every id stored at most once.
LEMMA PublishIds ==
  ASSUME IdInv, NEW h \in Handlers, pc[h] = "ready", Publish(h), Close(h),
         minted' = minted, surgery' = surgery,
         spool' \in {spool, {u \in spool : u.id # up[h].id}}
  PROVE  MintedOnce' /\ StoredIsSent' /\ StoredOnce' /\ NothingIsLost'
<1>1. up[h] \in minted /\ up[h] \in Upload /\ up[h].id \in Ids
  BY UploadFields DEF IdInv, TypeInv, TypeOK, Serving
<1>2. RowOf(up[h]) # None
  BY <1>1, RowType, NoneAssumption
<1>3. report' = [report EXCEPT ![up[h].id] = RowOf(up[h])]
  BY DEF Publish
<1>4. report \in [Ids -> Row \cup {None}]
  BY DEF IdInv, TypeInv, TypeOK
<1>5. MintedOnce'
  BY DEF IdInv, MintedOnce
<1>6. StoredIsSent'
  BY <1>1, <1>3, <1>4 DEF IdInv, StoredIsSent
<1>7. report[up[h].id] = None /\ IdIsFree(h)
  BY DEF IdInv, StoredOnce, HoldsReport
<1>8. StoredOnce'
  <2> SUFFICES ASSUME NEW g \in Handlers, HoldsReport(g)'
               PROVE  report'[up'[g].id] = None /\ IdIsFree(g)'
    BY DEF StoredOnce
  <2>1. g # h /\ HoldsReport(g) /\ up'[g] = up[g]
    BY DEF Close, HoldsReport, IdInv, TypeInv, TypeOK
  <2>2. up[g].id \in Ids /\ up[g].id # up[h].id /\ report[up[g].id] = None
    BY <1>7, <2>1, UploadFields
       DEF IdIsFree, IdInv, TypeInv, TypeOK, Serving, StoredOnce, HoldsReport
  <2>3. IdIsFree(g)
    BY <2>1 DEF IdInv, StoredOnce
  <2>4. IdIsFree(g)'
    BY <2>1, <2>3 DEF IdIsFree, Close, HoldsReport, IdInv, TypeInv, TypeOK
  <2> QED BY <1>3, <1>4, <2>1, <2>2, <2>4
<1>9. NothingIsLost'
  <2> SUFFICES ASSUME NEW u \in minted
               PROVE  u \in spool' \/ report'[u.id] = RowOf(u) \/ u.id \in surgery
    BY DEF NothingIsLost, RowOf
  <2>1. CASE u.id = up[h].id
    <3>1. u = up[h]
      BY <1>1, <2>1 DEF IdInv, MintedOnce
    <3> QED BY <1>1, <1>3, <1>4, <3>1
  <2>2. CASE u.id # up[h].id
    <3>1. u.id \in Ids
      BY UploadFields DEF IdInv, TypeInv, TypeOK
    <3> QED BY <1>3, <1>4, <2>2, <3>1 DEF IdInv, NothingIsLost
  <2> QED BY <2>1, <2>2
<1> QED BY <1>5, <1>6, <1>8, <1>9

\* A request that ends without publishing anything keeps the ids.
LEMMA CloseIds ==
  ASSUME IdInv, NEW h \in Handlers, Close(h), UNCHANGED <<report, minted, surgery>>,
         \/ spool' = spool
         \/ /\ report[up[h].id] # None /\ up[h] \in minted
            /\ spool' = {u \in spool : u.id # up[h].id}
  PROVE  MintedOnce' /\ StoredIsSent' /\ StoredOnce' /\ NothingIsLost'
<1>1. MintedOnce' /\ StoredIsSent'
  BY DEF IdInv, MintedOnce, StoredIsSent, RowOf
<1>2. StoredOnce'
  BY DEF IdInv, TypeInv, TypeOK, StoredOnce, IdIsFree, HoldsReport, Close
<1>3. NothingIsLost'
  <2>1. CASE spool' = spool
    BY <2>1 DEF IdInv, NothingIsLost, RowOf
  <2>2. CASE /\ report[up[h].id] # None /\ up[h] \in minted
             /\ spool' = {u \in spool : u.id # up[h].id}
    <3>1. up[h].id \in Ids
      BY <2>2, UploadFields DEF IdInv, TypeInv, TypeOK
    <3>2. report[up[h].id] = RowOf(up[h])
      BY <2>2, <3>1 DEF IdInv, StoredIsSent, MintedOnce
    <3>3. \A u \in minted : u.id = up[h].id => u = up[h]
      BY <2>2 DEF IdInv, MintedOnce
    <3> QED BY <2>2, <3>2, <3>3 DEF IdInv, NothingIsLost, RowOf
  <2> QED BY <2>1, <2>2
<1> QED BY <1>1, <1>2, <1>3

LEMMA IdStep == IdInv /\ [Next]_vars => IdInv'
<1> SUFFICES ASSUME IdInv, [Next]_vars
             PROVE  MintedOnce' /\ StoredIsSent' /\ StoredOnce' /\ NothingIsLost'
  BY TypeStep DEF IdInv
<1> USE DEF IdInv
<1>1. ASSUME NEW u \in Upload, Collect(u)
      PROVE  MintedOnce' /\ StoredIsSent' /\ StoredOnce' /\ NothingIsLost'
  BY <1>1 DEF Collect, tables, txs, MintedOnce, StoredIsSent, StoredOnce,
              NothingIsLost, HoldsReport, IdIsFree, RowOf
<1>2. ASSUME NEW h \in Handlers, NEW u \in spool, Deliver(h, u)
      PROVE  MintedOnce' /\ StoredIsSent' /\ StoredOnce' /\ NothingIsLost'
  BY <1>2 DEF Deliver, tables, MintedOnce, StoredIsSent, StoredOnce, TypeInv, TypeOK,
              NothingIsLost, HoldsReport, IdIsFree, RowOf
<1>3. ASSUME NEW h \in Handlers, NEW u \in spool, Refuse(h, u)
      PROVE  MintedOnce' /\ StoredIsSent' /\ StoredOnce' /\ NothingIsLost'
  BY <1>3 DEF Refuse, vars, MintedOnce, StoredIsSent, StoredOnce,
              NothingIsLost, HoldsReport, IdIsFree, RowOf
<1>4. ASSUME NEW h \in Handlers, InsertReport(h)
      PROVE  MintedOnce' /\ StoredIsSent' /\ StoredOnce' /\ NothingIsLost'
  BY <1>4 DEF InsertReport, tables, MintedOnce, StoredIsSent, StoredOnce, TypeInv, TypeOK,
              NothingIsLost, HoldsReport, IdIsFree, RowOf
<1>5. ASSUME NEW h \in Handlers, AckDuplicate(h)
      PROVE  MintedOnce' /\ StoredIsSent' /\ StoredOnce' /\ NothingIsLost'
  <2>1. up[h] \in minted
    BY <1>5 DEF AckDuplicate, TypeInv, Serving
  <2>2. /\ Close(h) /\ UNCHANGED <<report, minted, surgery>>
        /\ report[up[h].id] # None
        /\ spool' = {u \in spool : u.id # up[h].id}
    BY <1>5 DEF AckDuplicate, tables
  <2> QED BY <2>1, <2>2, CloseIds
<1>6. ASSUME NEW h \in Handlers, InsertCheckFails(h)
      PROVE  MintedOnce' /\ StoredIsSent' /\ StoredOnce' /\ NothingIsLost'
  BY <1>6, CloseIds DEF InsertCheckFails, tables
<1>7. ASSUME NEW h \in Handlers, UpsertPointer(h) \/ MaintainSince(h)
      PROVE  MintedOnce' /\ StoredIsSent' /\ StoredOnce' /\ NothingIsLost'
  <2>1. UNCHANGED <<report, up, minted, spool, surgery>>
    BY <1>7 DEF UpsertPointer, MaintainSince, tables
  <2>2. \A g \in Handlers : HoldsReport(g)' <=> HoldsReport(g)
    BY <1>7 DEF UpsertPointer, MaintainSince, HoldsReport, TypeInv, TypeOK
  <2>3. StoredOnce'
    BY <2>1, <2>2 DEF StoredOnce, IdIsFree
  <2> QED BY <2>1, <2>3 DEF MintedOnce, StoredIsSent, NothingIsLost, RowOf
<1>8. ASSUME NEW h \in Handlers, Commit(h)
      PROVE  MintedOnce' /\ StoredIsSent' /\ StoredOnce' /\ NothingIsLost'
  <2>1. /\ pc[h] = "ready" /\ Publish(h) /\ Close(h)
        /\ minted' = minted /\ surgery' = surgery
        /\ spool' = {u \in spool : u.id # up[h].id}
    BY <1>8 DEF Commit
  <2> QED BY <2>1, PublishIds
<1>9. ASSUME NEW h \in Handlers, CommitUnheard(h)
      PROVE  MintedOnce' /\ StoredIsSent' /\ StoredOnce' /\ NothingIsLost'
  <2>1. /\ pc[h] = "ready" /\ Publish(h) /\ Close(h)
        /\ minted' = minted /\ surgery' = surgery /\ spool' = spool
    BY <1>9 DEF CommitUnheard
  <2> QED BY <2>1, PublishIds
<1>10. ASSUME NEW h \in Handlers, Abort(h)
       PROVE  MintedOnce' /\ StoredIsSent' /\ StoredOnce' /\ NothingIsLost'
  BY <1>10, CloseIds DEF Abort, tables
<1>11. ASSUME Rebuild
       PROVE  MintedOnce' /\ StoredIsSent' /\ StoredOnce' /\ NothingIsLost'
  BY <1>11 DEF Rebuild, txs, MintedOnce, StoredIsSent, StoredOnce,
               NothingIsLost, HoldsReport, IdIsFree, RowOf
<1>12. ASSUME NEW i \in Ids, DeleteReport(i)
       PROVE  MintedOnce' /\ StoredIsSent' /\ StoredOnce' /\ NothingIsLost'
  <2>1. /\ report' = [report EXCEPT ![i] = None] /\ surgery' = surgery \cup {i}
        /\ UNCHANGED <<spool, minted, txs>>
    BY <1>12 DEF DeleteReport
  <2>2. MintedOnce' /\ StoredIsSent'
    <3>1. \A j \in Ids : report'[j] = IF j = i THEN None ELSE report[j]
      BY <2>1 DEF TypeInv, TypeOK
    <3> QED BY <2>1, <3>1 DEF MintedOnce, StoredIsSent, RowOf
  <2>3. StoredOnce'
    <3> SUFFICES ASSUME NEW h \in Handlers, HoldsReport(h)
                 PROVE  report'[up[h].id] = None /\ IdIsFree(h)'
      BY <2>1 DEF StoredOnce, txs, HoldsReport
    <3>1. up[h].id \in Ids
      BY UploadFields DEF TypeInv, TypeOK, Serving, HoldsReport
    <3>2. report[up[h].id] = None /\ IdIsFree(h)
      BY DEF StoredOnce
    <3> QED BY <2>1, <3>1, <3>2 DEF IdIsFree, txs, HoldsReport, TypeInv, TypeOK
  <2>4. NothingIsLost'
    <3> SUFFICES ASSUME NEW u \in minted
                 PROVE  u \in spool \/ report'[u.id] = RowOf(u) \/ u.id \in surgery'
      BY <2>1 DEF NothingIsLost, RowOf
    <3>1. u.id \in Ids
      BY UploadFields DEF TypeInv, TypeOK
    <3> QED BY <2>1, <3>1 DEF NothingIsLost, TypeInv, TypeOK
  <2> QED BY <2>2, <2>3, <2>4
<1>13. CASE UNCHANGED vars
  BY <1>13 DEF vars, MintedOnce, StoredIsSent, StoredOnce, NothingIsLost,
               HoldsReport, IdIsFree, RowOf
<1> QED
  BY <1>1, <1>2, <1>3, <1>4, <1>5, <1>6, <1>7, <1>8, <1>9, <1>10, <1>11, <1>12, <1>13
     DEF Next, HandlerStep

\* Whatever the faults, retries and races, an upload a producer no longer
\* holds is stored as sent (or was deleted by hand).
THEOREM NothingLost == Spec => []NothingIsLost
<1>1. IdInv => NothingIsLost
  BY DEF IdInv
<1> QED BY <1>1, IdInit, IdStep, PTL DEF Spec

\* Two transactions never carry the same report to the tables.
THEOREM AtMostOnce == Spec => []StoredOnce
<1>1. IdInv => StoredOnce
  BY DEF IdInv
<1> QED BY <1>1, IdInit, IdStep, PTL DEF Spec

-----------------------------------------------------------------------------
(* Layer 2: what a transaction read stays true until it commits, and the   *)
(* pointer keeps up with the reports.                                      *)

LEMMA ColFacts ==
  ASSUME NEW s \in Nat, NEW t \in Nat
  PROVE  /\ Col(Col(t)) = Col(t)
         /\ s <= t => Col(s) <= Col(t)
  BY SMT DEF Col

\* A stored time is a column value.
LEMMA StoredAt ==
  ASSUME IdInv, NEW i \in Ids, report[i] # None
  PROVE  report[i].at \in Nat /\ Col(report[i].at) = report[i].at
<1>1. PICK u \in minted : report[i] = RowOf(u)
  BY DEF IdInv, StoredIsSent
<1>2. u \in Upload
  BY DEF IdInv, TypeInv, TypeOK
<1> QED BY <1>1, <1>2, UploadFields, ColFacts DEF RowOf

\* One upsert: the row either takes the new report or stays as it is, and its
\* time is the later of the two.
LEMMA UpsertFacts ==
  ASSUME NEW u \in Upload, NEW r \in Pointer, r.id # u.id, Col(r.at) = r.at
  PROVE  /\ \/ Upsert(r, u).id = u.id /\ Upsert(r, u).at = Col(u.at)
            \/ Upsert(r, u).id = r.id /\ Upsert(r, u).at = r.at
         /\ r.at <= Upsert(r, u).at /\ Col(u.at) <= Upsert(r, u).at
         /\ Col(u.at) = u.at =>
              IF Upsert(r, u).id = u.id
              THEN Before(u.at, u.id, r.at, r.id)
              ELSE Before(r.at, r.id, u.at, u.id)
<1>1. /\ u.at \in Nat /\ u.id \in Nat /\ r.at \in Nat /\ r.id \in Nat
      /\ Col(u.at) \in Nat /\ Col(u.at) <= u.at
  BY UploadFields, ColNat, IdsAssumption DEF Pointer
<1>2. r # None
  BY NoneAssumption
<1>3. r.at <= u.at => r.at <= Col(u.at)
  BY <1>1, ColFacts
<1> QED BY <1>1, <1>2, <1>3 DEF Upsert, Before

PtrInv == IdInv /\ NoStaleRead /\ PointerHasReport /\ PointerTimeIsNewest

LEMMA PtrInit == Init => PtrInv
<1>1. Init => NoStaleRead
  BY DEF Init, NoStaleRead, HoldsPointer
<1>2. Init => PointerHasReport /\ PointerTimeIsNewest
  BY DEF Init, PointerHasReport, PointerTimeIsNewest, ReportsOf
<1> QED BY <1>1, <1>2, IdInit DEF PtrInv

\* A handler whose own state, and whose producer's committed rows, did not
\* move still holds what it read.
LEMMA StillFresh ==
  ASSUME NoStaleRead, NEW g \in Handlers, HoldsPointer(g)',
         UNCHANGED <<pc[g], up[g], ptr[g], runs[g]>>,
         latest'[up[g].prod] = latest[up[g].prod],
         since'[up[g].prod] = since[up[g].prod],
         PointerIsFree(g)'
  PROVE  /\ PointerIsFree(g)'
         /\ ptr'[g] = Upsert(latest'[up'[g].prod], up'[g])
         /\ pc'[g] = "ready" =>
              runs'[g] = IF IsLatest(g)'
                         THEN OpenRuns(since'[up'[g].prod], up'[g])
                         ELSE since'[up'[g].prod]
<1>1. HoldsPointer(g)
  BY DEF HoldsPointer
<1>2. IsLatest(g)' <=> IsLatest(g)
  BY DEF IsLatest
<1> QED BY <1>1, <1>2 DEF NoStaleRead

\* Requests that end, with or without publishing, leave the others' reads good.
LEMMA CloseFresh ==
  ASSUME IdInv, NoStaleRead, NEW h \in Handlers, Close(h),
         \/ UNCHANGED <<latest, since>>
         \/ pc[h] = "ready" /\ Publish(h)
  PROVE  NoStaleRead'
<1> SUFFICES ASSUME NEW g \in Handlers, HoldsPointer(g)'
             PROVE  /\ PointerIsFree(g)'
                    /\ ptr'[g] = Upsert(latest'[up'[g].prod], up'[g])
                    /\ pc'[g] = "ready" =>
                         runs'[g] = IF IsLatest(g)'
                                    THEN OpenRuns(since'[up'[g].prod], up'[g])
                                    ELSE since'[up'[g].prod]
  BY DEF NoStaleRead
<1>1. g # h /\ HoldsPointer(g) /\ UNCHANGED <<pc[g], up[g], ptr[g], runs[g]>>
  BY DEF Close, HoldsPointer, IdInv, TypeInv, TypeOK
<1>2. PointerIsFree(g)'
  BY <1>1 DEF NoStaleRead, PointerIsFree, Close, HoldsPointer, IdInv, TypeInv, TypeOK
<1>3. /\ latest'[up[g].prod] = latest[up[g].prod]
      /\ since'[up[g].prod] = since[up[g].prod]
  <2>1. CASE UNCHANGED <<latest, since>>
    BY <2>1
  <2>2. CASE pc[h] = "ready" /\ Publish(h)
    <3>1. up[h].prod # up[g].prod
      BY <1>1, <2>2 DEF NoStaleRead, PointerIsFree, HoldsPointer
    <3>2. up[g] \in Upload
      BY <1>1 DEF IdInv, TypeInv, TypeOK, Serving, HoldsPointer
    <3>3. up[g].prod \in Producers
      BY <3>2, UploadFields
    <3> QED BY <2>2, <3>1, <3>3 DEF Publish, IdInv, TypeInv, TypeOK
  <2> QED BY <2>1, <2>2
<1> QED BY <1>1, <1>2, <1>3, StillFresh

LEMMA FreshStep == IdInv /\ NoStaleRead /\ [Next]_vars => NoStaleRead'
<1> SUFFICES ASSUME IdInv, NoStaleRead, [Next]_vars PROVE NoStaleRead'
  OBVIOUS
<1> USE DEF IdInv, TypeInv
<1>1. ASSUME NEW h \in Handlers, NEW u \in spool, Deliver(h, u) PROVE NoStaleRead'
  BY <1>1 DEF Deliver, tables, TypeOK, NoStaleRead, HoldsPointer, PointerIsFree, IsLatest
<1>2. ASSUME NEW h \in Handlers, InsertReport(h) PROVE NoStaleRead'
  BY <1>2 DEF InsertReport, tables, TypeOK, NoStaleRead, HoldsPointer, PointerIsFree, IsLatest
<1>3. ASSUME NEW h \in Handlers, UpsertPointer(h) PROVE NoStaleRead'
  <2> SUFFICES ASSUME NEW g \in Handlers, HoldsPointer(g)'
               PROVE  /\ PointerIsFree(g)'
                      /\ ptr'[g] = Upsert(latest'[up'[g].prod], up'[g])
                      /\ pc'[g] = "ready" =>
                           runs'[g] = IF IsLatest(g)'
                                      THEN OpenRuns(since'[up'[g].prod], up'[g])
                                      ELSE since'[up'[g].prod]
    BY DEF NoStaleRead
  <2>1. /\ UNCHANGED <<latest, since, up, runs>>
        /\ PointerIsFree(h) /\ pc' = [pc EXCEPT ![h] = "pointed"]
        /\ ptr' = [ptr EXCEPT ![h] = Upsert(latest[up[h].prod], up[h])]
    BY <1>3 DEF UpsertPointer, tables
  <2>2. CASE g = h
    <3>1. pc'[h] = "pointed" /\ ptr'[h] = Upsert(latest[up[h].prod], up[h])
      BY <2>1 DEF TypeOK
    <3>2. PointerIsFree(h)'
      BY <2>1 DEF PointerIsFree, HoldsPointer, TypeOK
    <3> QED BY <2>1, <2>2, <3>1, <3>2
  <2>3. CASE g # h
    <3>1. UNCHANGED <<pc[g], up[g], ptr[g], runs[g]>> /\ HoldsPointer(g)
      BY <2>1, <2>3 DEF HoldsPointer, TypeOK
    <3>2. up[h].prod # up[g].prod /\ PointerIsFree(g)
      BY <2>1, <2>3, <3>1 DEF PointerIsFree, NoStaleRead
    <3>3. PointerIsFree(g)'
      BY <2>1, <3>2 DEF PointerIsFree, HoldsPointer, TypeOK
    <3> QED BY <2>1, <3>1, <3>3, StillFresh
  <2> QED BY <2>2, <2>3
<1>4. ASSUME NEW h \in Handlers, MaintainSince(h) PROVE NoStaleRead'
  <2> SUFFICES ASSUME NEW g \in Handlers, HoldsPointer(g)'
               PROVE  /\ PointerIsFree(g)'
                      /\ ptr'[g] = Upsert(latest'[up'[g].prod], up'[g])
                      /\ pc'[g] = "ready" =>
                           runs'[g] = IF IsLatest(g)'
                                      THEN OpenRuns(since'[up'[g].prod], up'[g])
                                      ELSE since'[up'[g].prod]
    BY DEF NoStaleRead
  <2>1. /\ UNCHANGED <<latest, since, up, ptr>> /\ pc[h] = "pointed"
        /\ pc' = [pc EXCEPT ![h] = "ready"]
        /\ runs' = [runs EXCEPT ![h] = IF IsLatest(h)
                                       THEN OpenRuns(since[up[h].prod], up[h])
                                       ELSE since[up[h].prod]]
    BY <1>4 DEF MaintainSince, tables
  <2>2. HoldsPointer(g) /\ \A k \in Handlers : HoldsPointer(k)' <=> HoldsPointer(k)
    BY <2>1 DEF HoldsPointer, TypeOK
  <2>3. PointerIsFree(g)'
    BY <2>1, <2>2 DEF PointerIsFree, NoStaleRead
  <2>4. IsLatest(g)' <=> IsLatest(g)
    BY <2>1 DEF IsLatest
  <2>5. CASE g = h
    BY <2>1, <2>2, <2>3, <2>4, <2>5 DEF NoStaleRead, TypeOK
  <2>6. CASE g # h
    <3>1. UNCHANGED <<pc[g], runs[g]>>
      BY <2>1, <2>6 DEF TypeOK
    <3> QED BY <2>1, <2>3, <3>1, StillFresh
  <2> QED BY <2>5, <2>6
<1>5. ASSUME NEW h \in Handlers,
             \/ AckDuplicate(h) \/ InsertCheckFails(h) \/ Abort(h)
             \/ Commit(h) \/ CommitUnheard(h)
      PROVE  NoStaleRead'
  <2>1. Close(h) /\ (UNCHANGED <<latest, since>> \/ (pc[h] = "ready" /\ Publish(h)))
    BY <1>5 DEF AckDuplicate, InsertCheckFails, Abort, Commit, CommitUnheard, tables
  <2> QED BY <2>1, CloseFresh
<1>6. ASSUME Rebuild PROVE NoStaleRead'
  BY <1>6 DEF Rebuild, txs, NoStaleRead, HoldsPointer, HoldsReport
<1>7. ASSUME NEW i \in Ids, DeleteReport(i) PROVE NoStaleRead'
  <2> SUFFICES ASSUME NEW g \in Handlers, HoldsPointer(g)'
               PROVE  /\ PointerIsFree(g)'
                      /\ ptr'[g] = Upsert(latest'[up'[g].prod], up'[g])
                      /\ pc'[g] = "ready" =>
                           runs'[g] = IF IsLatest(g)'
                                      THEN OpenRuns(since'[up'[g].prod], up'[g])
                                      ELSE since'[up'[g].prod]
    BY DEF NoStaleRead
  <2>1. UNCHANGED <<since, pc, up, ptr, runs>> /\ HoldsPointer(g)
    BY <1>7 DEF DeleteReport, txs, HoldsPointer
  <2>2. up[g].prod \in Producers
    BY <2>1, UploadFields DEF TypeOK, Serving, HoldsPointer
  <2>3. latest'[up[g].prod] = latest[up[g].prod]
    BY <1>7, <2>1, <2>2 DEF DeleteReport, TypeOK
  <2>4. PointerIsFree(g)'
    BY <2>1 DEF PointerIsFree, HoldsPointer, NoStaleRead
  <2> QED BY <2>1, <2>3, <2>4, StillFresh
<1>8. ASSUME UNCHANGED <<latest, since, pc, up, ptr, runs>> PROVE NoStaleRead'
  BY <1>8 DEF NoStaleRead, HoldsPointer, PointerIsFree, IsLatest
<1>9. ASSUME NEW u \in Upload, Collect(u) PROVE NoStaleRead'
  BY <1>8, <1>9 DEF Collect, tables, txs
<1>10. ASSUME NEW h \in Handlers, NEW u \in spool, Refuse(h, u) PROVE NoStaleRead'
  BY <1>8, <1>10 DEF Refuse, vars
<1>11. CASE UNCHANGED vars
  BY <1>8, <1>11 DEF vars
<1> QED
  BY <1>1, <1>2, <1>3, <1>4, <1>5, <1>6, <1>7, <1>9, <1>10, <1>11 DEF Next, HandlerStep

-----------------------------------------------------------------------------
(* Layer 2, continued: the pointer, for stamps of any precision.           *)

\* The tables after a commit: one more report of one producer, whose pointer is
\* the upsert of the committed one.
LEMMA Published ==
  ASSUME IdInv, NoStaleRead, PointerHasReport,
         NEW h \in Handlers, pc[h] = "ready", Publish(h)
  PROVE  /\ up[h] \in Upload /\ up[h].prod \in Producers /\ up[h].id \in Ids
         /\ report[up[h].id] = None
         /\ \A i \in Ids : report'[i] = IF i = up[h].id THEN RowOf(up[h]) ELSE report[i]
         /\ \A p \in Producers :
              /\ ReportsOf(report', p) = IF p = up[h].prod
                                         THEN ReportsOf(report, p) \cup {up[h].id}
                                         ELSE ReportsOf(report, p)
              /\ latest'[p] = IF p = up[h].prod THEN Upsert(latest[p], up[h]) ELSE latest[p]
              /\ "pointer" \in damage'[p] <=> "pointer" \in damage[p]
<1>1. up[h] \in Upload /\ up[h].prod \in Producers /\ up[h].id \in Ids
  BY UploadFields DEF IdInv, TypeInv, TypeOK, Serving
<1>2. report[up[h].id] = None
  BY DEF IdInv, StoredOnce, HoldsReport
<1>3. \A i \in Ids : report'[i] = IF i = up[h].id THEN RowOf(up[h]) ELSE report[i]
  BY <1>1 DEF Publish, IdInv, TypeInv, TypeOK
<1>4. RowOf(up[h]) # None /\ RowOf(up[h]).prod = up[h].prod
  BY <1>1, RowType, NoneAssumption DEF RowOf
<1>5. ASSUME NEW p \in Producers
      PROVE  ReportsOf(report', p) = IF p = up[h].prod
                                     THEN ReportsOf(report, p) \cup {up[h].id}
                                     ELSE ReportsOf(report, p)
  BY <1>1, <1>2, <1>3, <1>4 DEF ReportsOf
<1>6. ptr[h] = Upsert(latest[up[h].prod], up[h])
  BY DEF NoStaleRead, HoldsPointer
<1>7. ASSUME NEW p \in Producers
      PROVE  /\ latest'[p] = IF p = up[h].prod THEN Upsert(latest[p], up[h]) ELSE latest[p]
             /\ "pointer" \in damage'[p] <=> "pointer" \in damage[p]
  BY <1>6 DEF Publish, IdInv, TypeInv, TypeOK
<1> QED BY <1>1, <1>2, <1>3, <1>5, <1>7

\* A committed pointer row is one the upsert facts apply to.
LEMMA CommittedPointer ==
  ASSUME IdInv, PointerHasReport, NEW p \in Producers, latest[p] # None
  PROVE  /\ latest[p] \in Pointer /\ latest[p].id \in Ids /\ latest[p].at \in Nat
         /\ report[latest[p].id] # None /\ Col(latest[p].at) = latest[p].at
<1>1. latest[p] \in Pointer
  BY DEF IdInv, TypeInv, TypeOK
<1>2. latest[p].id \in Ids /\ latest[p].at \in Nat
  BY <1>1 DEF Pointer
<1>3. report[latest[p].id] # None /\ report[latest[p].id].at = latest[p].at
  BY DEF PointerHasReport, ReportsOf
<1> QED BY <1>1, <1>2, <1>3, StoredAt

LEMMA PublishPointer ==
  ASSUME PtrInv, NEW h \in Handlers, pc[h] = "ready", Publish(h)
  PROVE  PointerHasReport' /\ PointerTimeIsNewest'
<1> DEFINE u == up[h]
           p == up[h].prod
<1>1. /\ u \in Upload /\ p \in Producers /\ u.id \in Ids /\ report[u.id] = None
      /\ \A i \in Ids : report'[i] = IF i = u.id THEN RowOf(u) ELSE report[i]
      /\ \A q \in Producers :
           /\ ReportsOf(report', q) = IF q = p THEN ReportsOf(report, q) \cup {u.id}
                                      ELSE ReportsOf(report, q)
           /\ latest'[q] = IF q = p THEN Upsert(latest[q], u) ELSE latest[q]
           /\ "pointer" \in damage'[q] <=> "pointer" \in damage[q]
  BY Published DEF PtrInv
<1>2. \A q \in Producers : ReportsOf(report, q) \subseteq Ids \ {u.id}
  BY <1>1 DEF ReportsOf
<1>3. ASSUME NEW q \in Producers, q # p
      PROVE  \A i \in ReportsOf(report, q) : report'[i] = report[i]
  BY <1>1, <1>2
<1>4. report'[u.id].at = Col(u.at) /\ Col(u.at) \in Nat
  BY <1>1, UploadFields DEF RowOf
<1>5. CASE latest[p] = None
  <2>1. latest'[p] = [id |-> u.id, at |-> Col(u.at)]
    BY <1>1, <1>5 DEF Upsert
  <2>2. PointerHasReport'
    <3> SUFFICES ASSUME NEW q \in Producers, latest'[q] # None
                 PROVE  /\ latest'[q].id \in ReportsOf(report', q)
                        /\ report'[latest'[q].id].at = latest'[q].at
      BY DEF PointerHasReport
    <3>1. CASE q = p
      BY <1>1, <1>4, <2>1, <3>1
    <3>2. CASE q # p
      BY <1>1, <1>3, <3>2 DEF PtrInv, PointerHasReport
    <3> QED BY <3>1, <3>2
  <2>3. PointerTimeIsNewest'
    <3> SUFFICES ASSUME NEW q \in Producers, "pointer" \notin damage'[q]
                 PROVE  IF latest'[q] = None
                        THEN ReportsOf(report', q) = {}
                        ELSE /\ latest'[q].id \in ReportsOf(report', q)
                             /\ report'[latest'[q].id].at = latest'[q].at
                             /\ \A i \in ReportsOf(report', q) : report'[i].at <= latest'[q].at
      BY DEF PointerTimeIsNewest
    <3>1. CASE q = p
      <4>1. ReportsOf(report', q) = {u.id}
        BY <1>1, <1>5, <3>1 DEF PtrInv, PointerTimeIsNewest
      <4>2. latest'[p] # None
        BY <1>1, <1>4, <2>1, NoneAssumption DEF Pointer
      <4> QED BY <1>4, <2>1, <3>1, <4>1, <4>2
    <3>2. CASE q # p
      BY <1>1, <1>3, <3>2 DEF PtrInv, PointerTimeIsNewest
    <3> QED BY <3>1, <3>2
  <2> QED BY <2>2, <2>3
<1>6. CASE latest[p] # None
  <2>1. /\ latest[p] \in Pointer /\ latest[p].id \in Ids /\ latest[p].at \in Nat
        /\ report[latest[p].id] # None /\ Col(latest[p].at) = latest[p].at
    BY <1>1, <1>6, CommittedPointer DEF PtrInv
  <2>2. latest[p].id # u.id
    BY <1>1, <2>1
  <2>3. /\ \/ latest'[p].id = u.id /\ latest'[p].at = Col(u.at)
           \/ latest'[p].id = latest[p].id /\ latest'[p].at = latest[p].at
        /\ latest[p].at <= latest'[p].at /\ Col(u.at) <= latest'[p].at
    BY <1>1, <2>1, <2>2, UpsertFacts
  <2>4. latest'[p] \in Pointer
    BY <1>1, <2>1, UpsertType
  <2>5. PointerHasReport'
    <3> SUFFICES ASSUME NEW q \in Producers, latest'[q] # None
                 PROVE  /\ latest'[q].id \in ReportsOf(report', q)
                        /\ report'[latest'[q].id].at = latest'[q].at
      BY DEF PointerHasReport
    <3>1. CASE q = p
      <4>1. latest[p].id \in ReportsOf(report, p) /\ report[latest[p].id].at = latest[p].at
        BY <1>1, <1>6 DEF PtrInv, PointerHasReport
      <4> QED BY <1>1, <1>4, <2>1, <2>2, <2>3, <3>1, <4>1
    <3>2. CASE q # p
      BY <1>1, <1>3, <3>2 DEF PtrInv, PointerHasReport
    <3> QED BY <3>1, <3>2
  <2>6. PointerTimeIsNewest'
    <3> SUFFICES ASSUME NEW q \in Producers, "pointer" \notin damage'[q]
                 PROVE  IF latest'[q] = None
                        THEN ReportsOf(report', q) = {}
                        ELSE /\ latest'[q].id \in ReportsOf(report', q)
                             /\ report'[latest'[q].id].at = latest'[q].at
                             /\ \A i \in ReportsOf(report', q) : report'[i].at <= latest'[q].at
      BY DEF PointerTimeIsNewest
    <3>1. CASE q = p
      <4>1. latest'[p] # None
        BY <2>4, NoneAssumption
      <4>2. \A i \in ReportsOf(report, p) : report[i].at <= latest[p].at
        BY <1>1, <1>6, <3>1 DEF PtrInv, PointerTimeIsNewest
      <4>3. \A i \in ReportsOf(report, p) : report[i].at \in Nat /\ report'[i] = report[i]
        BY <1>1, <1>2, StoredAt DEF ReportsOf, PtrInv
      <4>4. latest'[p].at \in Nat
        BY <2>4 DEF Pointer
      <4>5. \A i \in ReportsOf(report', p) : report'[i].at <= latest'[p].at
        <5>1. \A i \in ReportsOf(report, p) : report'[i].at <= latest'[p].at
          BY <2>1, <2>3, <4>2, <4>3, <4>4
        <5> QED BY <1>1, <1>4, <2>3, <5>1
      <4> QED BY <1>1, <2>5, <3>1, <4>1, <4>5 DEF PointerHasReport
    <3>2. CASE q # p
      BY <1>1, <1>3, <3>2 DEF PtrInv, PointerTimeIsNewest
    <3> QED BY <3>1, <3>2
  <2> QED BY <2>5, <2>6
<1> QED BY <1>5, <1>6

\* The rank-one row of a producer is its newest report.
LEMMA RanksFirstFacts ==
  ASSUME IdInv, NEW p \in Producers, NEW r, RanksFirst(report, p, r)
  PROVE  IF r = None
         THEN ReportsOf(report, p) = {}
         ELSE /\ r \in Pointer /\ r.id \in ReportsOf(report, p)
              /\ report[r.id].at = r.at
              /\ \A i \in ReportsOf(report, p) : report[i].at <= r.at
<1>1. CASE ReportsOf(report, p) = {}
  BY <1>1 DEF RanksFirst
<1>2. CASE ReportsOf(report, p) # {}
  <2>1. PICK j \in Ids : report[j] # None /\ r = [id |-> j, at |-> report[j].at]
    <3>1. r \in PointersInto(report)
      BY <1>2 DEF RanksFirst
    <3> QED BY <3>1, Zenon DEF PointersInto
  <2>2. r \in Pointer /\ r # None /\ r.at = report[r.id].at
    BY <2>1, StoredAt, NoneAssumption DEF Pointer
  <2>3. r.id \in ReportsOf(report, p)
    BY <1>2 DEF RanksFirst
  <2>4. ASSUME NEW i \in ReportsOf(report, p) PROVE report[i].at <= r.at
    <3>1. i \in Ids /\ report[i].at \in Nat /\ r.at \in Nat
      BY <2>1, StoredAt DEF ReportsOf
    <3>2. i = r.id \/ Before(r.at, r.id, report[i].at, i)
      BY <1>2 DEF RanksFirst
    <3> QED BY <2>2, <3>1, <3>2 DEF Before
  <2> QED BY <2>2, <2>3, <2>4
<1> QED BY <1>1, <1>2

LEMMA RebuildPointer == PtrInv /\ Rebuild => PointerHasReport' /\ PointerTimeIsNewest'
<1> SUFFICES ASSUME PtrInv, Rebuild PROVE PointerHasReport' /\ PointerTimeIsNewest'
  OBVIOUS
<1>1. PICK w \in [Producers -> PointersInto(report) \cup {None}] :
        /\ \A p \in Producers : RanksFirst(report, p, w[p])
        /\ latest' = [p \in Producers |-> IF w[p] = None THEN latest[p] ELSE w[p]]
  BY DEF Rebuild
<1>2. report' = report
  BY DEF Rebuild
<1>3. ASSUME NEW p \in Producers
      PROVE  IF latest'[p] = None
             THEN ReportsOf(report, p) = {}
             ELSE /\ latest'[p].id \in ReportsOf(report, p)
                  /\ report[latest'[p].id].at = latest'[p].at
                  /\ \A i \in ReportsOf(report, p) : report[i].at <= latest'[p].at
  <2>1. CASE w[p] = None
    <3>1. ReportsOf(report, p) = {}
      BY <1>1, <2>1, RanksFirstFacts DEF PtrInv
    <3>2. latest[p] = None
      BY <3>1 DEF PtrInv, PointerHasReport
    <3> QED BY <1>1, <2>1, <3>1, <3>2
  <2>2. CASE w[p] # None
    BY <1>1, <2>2, RanksFirstFacts DEF PtrInv
  <2> QED BY <2>1, <2>2
<1>4. PointerHasReport'
  BY <1>2, <1>3 DEF PointerHasReport, ReportsOf
<1>5. PointerTimeIsNewest'
  BY <1>2, <1>3 DEF PointerTimeIsNewest, ReportsOf
<1> QED BY <1>4, <1>5

LEMMA DeletePointer ==
  ASSUME PtrInv, NEW i \in Ids, DeleteReport(i)
  PROVE  PointerHasReport' /\ PointerTimeIsNewest'
<1> DEFINE p == report[i].prod
<1>1. /\ p \in Producers /\ i \in ReportsOf(report, p)
      /\ \A j \in Ids : report'[j] = IF j = i THEN None ELSE report[j]
  BY DEF DeleteReport, PtrInv, IdInv, TypeInv, TypeOK, Row, ReportsOf
<1>2. \A q \in Producers : ReportsOf(report', q) = ReportsOf(report, q) \ {i}
  BY <1>1 DEF ReportsOf
<1>3. \A q \in Producers : q # p => latest'[q] = latest[q] /\ damage'[q] = damage[q]
  BY <1>1 DEF DeleteReport, PtrInv, IdInv, TypeInv, TypeOK
<1>4. \/ latest'[p] = None /\ "pointer" \in damage'[p]
      \/ /\ latest'[p] = latest[p] /\ (latest[p] = None \/ latest[p].id # i)
         /\ "pointer" \in damage'[p] <=> "pointer" \in damage[p]
  <2>1. damage[p] \in SUBSET Harms /\ damage \in [Producers -> SUBSET Harms]
    BY <1>1 DEF PtrInv, IdInv, TypeInv, TypeOK
  <2>2. latest \in [Producers -> Pointer \cup {None}]
    BY DEF PtrInv, IdInv, TypeInv, TypeOK
  <2>3. CASE latest[p] # None /\ latest[p].id = i
    BY <1>1, <2>1, <2>2, <2>3 DEF DeleteReport
  <2>4. CASE ~(latest[p] # None /\ latest[p].id = i)
    <3>1. latest' = latest /\ damage' = [damage EXCEPT ![p] = @ \cup {"history"}]
      BY <2>4 DEF DeleteReport
    <3>2. damage'[p] = damage[p] \cup {"history"}
      BY <1>1, <2>1, <3>1
    <3> QED BY <2>4, <3>1, <3>2
  <2> QED BY <2>3, <2>4
<1>5. \A q \in Producers : q # p => i \notin ReportsOf(report, q)
  BY <1>1 DEF ReportsOf
<1>6. \A q \in Producers : ReportsOf(report, q) \subseteq Ids
  BY DEF ReportsOf
<1>7. PointerHasReport'
  <2> SUFFICES ASSUME NEW q \in Producers, latest'[q] # None
               PROVE  /\ latest'[q].id \in ReportsOf(report', q)
                      /\ report'[latest'[q].id].at = latest'[q].at
    BY DEF PointerHasReport
  <2>1. latest'[q] = latest[q] /\ latest[q].id # i
    BY <1>3, <1>4, <1>5 DEF PtrInv, PointerHasReport
  <2> QED BY <1>1, <1>2, <1>6, <2>1 DEF PtrInv, PointerHasReport
<1>8. PointerTimeIsNewest'
  <2> SUFFICES ASSUME NEW q \in Producers, "pointer" \notin damage'[q]
               PROVE  IF latest'[q] = None
                      THEN ReportsOf(report', q) = {}
                      ELSE /\ latest'[q].id \in ReportsOf(report', q)
                           /\ report'[latest'[q].id].at = latest'[q].at
                           /\ \A j \in ReportsOf(report', q) : report'[j].at <= latest'[q].at
    BY DEF PointerTimeIsNewest
  <2>1. latest'[q] = latest[q] /\ "pointer" \notin damage[q]
    BY <1>3, <1>4
  <2>2. \A j \in ReportsOf(report', q) : j \in ReportsOf(report, q) /\ report'[j] = report[j]
    BY <1>1, <1>2, <1>6
  <2>3. CASE latest[q] = None
    BY <1>2, <2>1, <2>3 DEF PtrInv, PointerTimeIsNewest
  <2>4. CASE latest[q] # None
    BY <1>7, <2>1, <2>2, <2>4 DEF PtrInv, PointerTimeIsNewest, PointerHasReport
  <2> QED BY <2>3, <2>4
<1> QED BY <1>7, <1>8

LEMMA PtrStep == PtrInv /\ [Next]_vars => PtrInv'
<1> SUFFICES ASSUME PtrInv, [Next]_vars
             PROVE  PointerHasReport' /\ PointerTimeIsNewest'
  BY IdStep, FreshStep DEF PtrInv
<1>1. ASSUME UNCHANGED <<report, latest, damage>>
      PROVE  PointerHasReport' /\ PointerTimeIsNewest'
  BY <1>1 DEF PtrInv, PointerHasReport, PointerTimeIsNewest, ReportsOf
<1>2. ASSUME NEW u \in Upload, Collect(u)
      PROVE  PointerHasReport' /\ PointerTimeIsNewest'
  BY <1>1, <1>2 DEF Collect, tables
<1>3. ASSUME NEW h \in Handlers, NEW u \in spool, Deliver(h, u) \/ Refuse(h, u)
      PROVE  PointerHasReport' /\ PointerTimeIsNewest'
  BY <1>1, <1>3 DEF Deliver, Refuse, tables, vars
<1>4. ASSUME NEW h \in Handlers,
             \/ InsertReport(h) \/ AckDuplicate(h) \/ InsertCheckFails(h)
             \/ UpsertPointer(h) \/ MaintainSince(h) \/ Abort(h)
      PROVE  PointerHasReport' /\ PointerTimeIsNewest'
  BY <1>1, <1>4 DEF InsertReport, AckDuplicate, InsertCheckFails, UpsertPointer,
                    MaintainSince, Abort, tables
<1>5. ASSUME NEW h \in Handlers, Commit(h) \/ CommitUnheard(h)
      PROVE  PointerHasReport' /\ PointerTimeIsNewest'
  <2>1. pc[h] = "ready" /\ Publish(h)
    BY <1>5 DEF Commit, CommitUnheard
  <2> QED BY <2>1, PublishPointer
<1>6. ASSUME Rebuild PROVE PointerHasReport' /\ PointerTimeIsNewest'
  BY <1>6, RebuildPointer
<1>7. ASSUME NEW i \in Ids, DeleteReport(i)
      PROVE  PointerHasReport' /\ PointerTimeIsNewest'
  BY <1>7, DeletePointer
<1>8. CASE UNCHANGED vars
  BY <1>1, <1>8 DEF vars
<1> QED
  BY <1>2, <1>3, <1>4, <1>5, <1>6, <1>7, <1>8 DEF Next, HandlerStep

\* Nothing commits between the statements of one ingest that could change what
\* they computed.
THEOREM ReadsStayTrue == Spec => []NoStaleRead
<1>1. PtrInv => NoStaleRead
  BY DEF PtrInv
<1> QED BY <1>1, PtrInit, PtrStep, PTL DEF Spec

\* No producer has a report collected after the one its pointer names.
THEOREM PointerTimeNewest == Spec => []PointerTimeIsNewest
<1>1. PtrInv => PointerTimeIsNewest
  BY DEF PtrInv
<1> QED BY <1>1, PtrInit, PtrStep, PTL DEF Spec

-----------------------------------------------------------------------------
(* The pointer as the window's exact choice, for producers whose clocks    *)
(* tick in the column's milliseconds.  Without that hypothesis the pointer *)
(* can prefer the wrong report of one millisecond.                         *)

\* Every stamp on the wire is a whole millisecond.
ColumnPrecise == \A t \in Stamps : Col(t) = t

\* The window has one first row.
LEMMA RankUnique ==
  ASSUME IdInv, NEW p \in Producers, NEW r, NEW s,
         RanksFirst(report, p, r), RanksFirst(report, p, s)
  PROVE  r = s
<1>1. CASE ReportsOf(report, p) = {}
  BY <1>1 DEF RanksFirst
<1>2. CASE ReportsOf(report, p) # {}
  <2>1. r \in PointersInto(report) /\ s \in PointersInto(report)
    BY <1>2 DEF RanksFirst
  <2>2. /\ r = [id |-> r.id, at |-> report[r.id].at] /\ r.id \in Ids /\ report[r.id] # None
        /\ s = [id |-> s.id, at |-> report[s.id].at] /\ s.id \in Ids /\ report[s.id] # None
    BY <2>1 DEF PointersInto
  <2>3. /\ r.at = report[r.id].at /\ r.at \in Nat /\ r.id \in Nat
        /\ s.at = report[s.id].at /\ s.at \in Nat /\ s.id \in Nat
    BY <2>2, StoredAt, IdsAssumption
  <2>4. ASSUME r.id # s.id PROVE FALSE
    <3>1. Before(r.at, r.id, s.at, s.id) /\ Before(s.at, s.id, r.at, r.id)
      BY <1>2, <2>3, <2>4 DEF RanksFirst
    <3> QED BY <2>3, <3>1 DEF Before
  <2> QED BY <2>2, <2>4
<1> QED BY <1>1, <1>2

\* Committing a report leaves the pointer on the window's first row.
LEMMA PublishNewest ==
  ASSUME PtrInv, PointerIsNewest, ColumnPrecise,
         NEW h \in Handlers, pc[h] = "ready", Publish(h)
  PROVE  PointerIsNewest'
<1> DEFINE u == up[h]
           p == up[h].prod
<1>1. /\ u \in Upload /\ p \in Producers /\ u.id \in Ids /\ report[u.id] = None
      /\ \A i \in Ids : report'[i] = IF i = u.id THEN RowOf(u) ELSE report[i]
      /\ \A q \in Producers :
           /\ ReportsOf(report', q) = IF q = p THEN ReportsOf(report, q) \cup {u.id}
                                      ELSE ReportsOf(report, q)
           /\ latest'[q] = IF q = p THEN Upsert(latest[q], u) ELSE latest[q]
           /\ "pointer" \in damage'[q] <=> "pointer" \in damage[q]
  BY Published DEF PtrInv
<1>2. \A q \in Producers : ReportsOf(report, q) \subseteq Ids \ {u.id}
  BY <1>1 DEF ReportsOf
<1>3. /\ report'[u.id].at = u.at /\ u.at \in Nat /\ u.id \in Nat /\ Col(u.at) = u.at
      /\ report'[u.id] # None
  <2>1. Col(u.at) = u.at /\ u.at \in Nat /\ u.id \in Nat
    BY <1>1, UploadFields DEF ColumnPrecise
  <2>2. report'[u.id] = RowOf(u) /\ RowOf(u) # None
    BY <1>1, RowType, NoneAssumption
  <2> QED BY <2>1, <2>2 DEF RowOf
<1>4. [id |-> u.id, at |-> u.at] \in PointersInto(report')
  BY <1>1, <1>3 DEF PointersInto
<1>5. PointersInto(report) \subseteq PointersInto(report')
  BY <1>1 DEF PointersInto
<1> SUFFICES ASSUME NEW q \in Producers, "pointer" \notin damage[q]
             PROVE  RanksFirst(report', q, latest'[q])
  BY <1>1 DEF PointerIsNewest
<1>6. RanksFirst(report, q, latest[q])
  BY DEF PointerIsNewest
<1>7. CASE q # p
  <2>1. ReportsOf(report', q) = ReportsOf(report, q) /\ latest'[q] = latest[q]
    BY <1>1, <1>7
  <2>2. \A i \in ReportsOf(report, q) : report'[i] = report[i]
    BY <1>1, <1>2
  <2> QED BY <1>5, <1>6, <2>1, <2>2 DEF RanksFirst
<1>8. CASE q = p /\ latest[p] = None
  <2>1. ReportsOf(report', p) = {u.id}
    BY <1>1, <1>8 DEF PtrInv, PointerTimeIsNewest
  <2>2. latest'[p] = [id |-> u.id, at |-> u.at]
    BY <1>1, <1>3, <1>8 DEF Upsert
  <2> QED BY <1>4, <1>8, <2>1, <2>2 DEF RanksFirst
<1>9. CASE q = p /\ latest[p] # None
  <2>1. /\ latest[p] \in Pointer /\ latest[p].id \in Ids /\ latest[p].at \in Nat
        /\ report[latest[p].id] # None /\ Col(latest[p].at) = latest[p].at
    BY <1>1, <1>9, CommittedPointer DEF PtrInv
  <2>2. latest[p].id # u.id /\ latest[p].id \in Nat
    BY <1>1, <2>1, IdsAssumption
  <2>3. /\ \/ latest'[p].id = u.id /\ latest'[p].at = u.at
           \/ latest'[p].id = latest[p].id /\ latest'[p].at = latest[p].at
        /\ IF latest'[p].id = u.id
           THEN Before(u.at, u.id, latest[p].at, latest[p].id)
           ELSE Before(latest[p].at, latest[p].id, u.at, u.id)
    BY <1>1, <1>3, <2>1, <2>2, UpsertFacts
  <2>4. latest'[p] \in Pointer
    BY <1>1, <2>1, UpsertType
  <2>5. /\ latest[p].id \in ReportsOf(report, p) /\ report[latest[p].id].at = latest[p].at
        /\ \A i \in ReportsOf(report, p) \ {latest[p].id} :
             Before(latest[p].at, latest[p].id, report[i].at, i)
    <3>1. latest[p].id \in ReportsOf(report, p) /\ report[latest[p].id].at = latest[p].at
      BY <1>1, <1>9 DEF PtrInv, PointerHasReport
    <3> QED BY <1>6, <1>9, <3>1 DEF RanksFirst
  <2>6. \A i \in ReportsOf(report, p) :
          report'[i] = report[i] /\ report[i].at \in Nat /\ i \in Nat
    BY <1>1, <1>2, StoredAt, IdsAssumption DEF ReportsOf, PtrInv
  <2>7. CASE latest'[p].id = u.id
    <3>1. latest'[p] = [id |-> u.id, at |-> u.at]
      BY <2>2, <2>3, <2>4, <2>7 DEF Pointer
    <3>2. \A i \in ReportsOf(report, p) : Before(u.at, u.id, report[i].at, i)
      <4> SUFFICES ASSUME NEW i \in ReportsOf(report, p)
                   PROVE  Before(u.at, u.id, report[i].at, i)
        OBVIOUS
      <4>1. Before(u.at, u.id, latest[p].at, latest[p].id)
        BY <2>3, <2>7
      <4>2. report[i].at \in Nat /\ i \in Nat
        BY <2>6
      <4>3. CASE i = latest[p].id
        BY <2>5, <4>1, <4>3
      <4>4. CASE i # latest[p].id
        <5>1. Before(latest[p].at, latest[p].id, report[i].at, i)
          BY <2>5, <4>4
        <5> QED BY <1>3, <2>1, <2>2, <4>1, <4>2, <5>1 DEF Before
      <4> QED BY <4>3, <4>4
    <3>3. \A i \in ReportsOf(report', p) \ {u.id} : Before(u.at, u.id, report'[i].at, i)
      BY <1>1, <2>6, <3>2
    <3> QED BY <1>1, <1>4, <1>9, <3>1, <3>3 DEF RanksFirst
  <2>8. CASE latest'[p].id # u.id
    <3>1. latest'[p] = latest[p]
      BY <2>1, <2>3, <2>4, <2>8 DEF Pointer
    <3>2. latest[p] \in PointersInto(report')
      BY <1>5, <1>6, <1>9, <2>5 DEF RanksFirst
    <3>3. Before(latest[p].at, latest[p].id, report'[u.id].at, u.id)
      BY <1>3, <2>3, <2>8
    <3>4. \A i \in ReportsOf(report', p) \ {latest[p].id} :
            Before(latest[p].at, latest[p].id, report'[i].at, i)
      BY <1>1, <2>5, <2>6, <3>3
    <3>5. latest[p].id \in ReportsOf(report', p)
      BY <1>1, <2>5
    <3> QED BY <1>9, <3>1, <3>2, <3>4, <3>5 DEF RanksFirst
  <2> QED BY <2>7, <2>8
<1> QED BY <1>7, <1>8, <1>9

\* A reconcile writes the window's first rows, so an undamaged pointer does not
\* move.
LEMMA RebuildNewest ==
  ASSUME PtrInv, PointerIsNewest, Rebuild
  PROVE  /\ PointerIsNewest'
         /\ \A p \in Producers : "pointer" \notin damage[p] => latest'[p] = latest[p]
<1>1. PICK w \in [Producers -> PointersInto(report) \cup {None}] :
        /\ \A p \in Producers : RanksFirst(report, p, w[p])
        /\ latest' = [p \in Producers |-> IF w[p] = None THEN latest[p] ELSE w[p]]
  BY DEF Rebuild
<1>2. report' = report
  BY DEF Rebuild
<1>3. ASSUME NEW p \in Producers PROVE latest'[p] = w[p]
  <2>1. CASE w[p] = None
    <3>1. ReportsOf(report, p) = {}
      BY <1>1, <2>1, RanksFirstFacts DEF PtrInv
    <3>2. latest[p] = None
      BY <3>1 DEF PtrInv, PointerHasReport
    <3> QED BY <1>1, <2>1, <3>2
  <2>2. CASE w[p] # None
    BY <1>1, <2>2
  <2> QED BY <2>1, <2>2
<1>4. PointerIsNewest'
  BY <1>1, <1>2, <1>3 DEF PointerIsNewest
<1>5. ASSUME NEW p \in Producers, "pointer" \notin damage[p] PROVE latest'[p] = latest[p]
  <2>1. RanksFirst(report, p, latest[p])
    BY <1>5 DEF PointerIsNewest
  <2> QED BY <1>1, <1>3, <2>1, RankUnique DEF PtrInv
<1> QED BY <1>4, <1>5

LEMMA DeleteNewest ==
  ASSUME PtrInv, PointerIsNewest, NEW i \in Ids, DeleteReport(i)
  PROVE  PointerIsNewest'
<1> DEFINE p == report[i].prod
<1>1. /\ p \in Producers /\ i \in ReportsOf(report, p)
      /\ \A j \in Ids : report'[j] = IF j = i THEN None ELSE report[j]
  BY DEF DeleteReport, PtrInv, IdInv, TypeInv, TypeOK, Row, ReportsOf
<1>2. \A q \in Producers : ReportsOf(report', q) = ReportsOf(report, q) \ {i}
  BY <1>1 DEF ReportsOf
<1>3. PtrInv'
  BY PtrStep DEF Next
<1> SUFFICES ASSUME NEW q \in Producers, "pointer" \notin damage'[q]
             PROVE  RanksFirst(report', q, latest'[q])
  BY DEF PointerIsNewest
<1>4. latest'[q] = latest[q] /\ "pointer" \notin damage[q]
  <2>1. latest \in [Producers -> Pointer \cup {None}]
        /\ damage \in [Producers -> SUBSET Harms]
    BY DEF PtrInv, IdInv, TypeInv, TypeOK
  <2>2. CASE latest[p] # None /\ latest[p].id = i
    BY <1>1, <2>1, <2>2 DEF DeleteReport
  <2>3. CASE ~(latest[p] # None /\ latest[p].id = i)
    <3>1. latest' = latest /\ damage' = [damage EXCEPT ![p] = @ \cup {"history"}]
      BY <2>3 DEF DeleteReport
    <3> QED BY <1>1, <2>1, <3>1
  <2> QED BY <2>2, <2>3
<1>5. RanksFirst(report, q, latest[q])
  BY <1>4 DEF PointerIsNewest
<1>6. CASE latest[q] = None
  BY <1>2, <1>4, <1>6 DEF RanksFirst, PtrInv, PointerTimeIsNewest
<1>7. CASE latest[q] # None
  <2>1. latest[q].id \in ReportsOf(report', q) /\ report'[latest[q].id].at = latest[q].at
    BY <1>3, <1>4, <1>7 DEF PtrInv, PointerHasReport
  <2>2. latest[q] = [id |-> latest[q].id, at |-> latest[q].at] /\ latest[q].id \in Ids
    BY <1>7 DEF PtrInv, IdInv, TypeInv, TypeOK, Pointer
  <2>3. report'[latest[q].id] # None
    BY <2>1 DEF ReportsOf
  <2>4. latest[q] \in PointersInto(report')
    BY <2>1, <2>2, <2>3, Zenon DEF PointersInto
  <2>5. \A j \in ReportsOf(report', q) : j \in ReportsOf(report, q) /\ report'[j] = report[j]
    BY <1>1, <1>2 DEF ReportsOf
  <2>6. \A j \in ReportsOf(report', q) \ {latest[q].id} :
          Before(latest[q].at, latest[q].id, report'[j].at, j)
    BY <1>5, <2>5 DEF RanksFirst
  <2> QED BY <1>4, <2>1, <2>4, <2>6 DEF RanksFirst
<1> QED BY <1>6, <1>7

NewestInv == PtrInv /\ PointerIsNewest

LEMMA NewestInit == Init => NewestInv
<1>1. Init => PointerIsNewest
  BY DEF Init, PointerIsNewest, RanksFirst, ReportsOf
<1> QED BY <1>1, PtrInit DEF NewestInv

\* The steps that touch none of the three tables nor the damage record.
LEMMA QuietStep ==
  ASSUME [Next]_vars
  PROVE  \/ UNCHANGED <<report, latest, since, damage>>
         \/ \E h \in Handlers : pc[h] = "ready" /\ Publish(h) /\ Close(h)
         \/ Rebuild
         \/ \E i \in Ids : DeleteReport(i)
<1>1. CASE UNCHANGED vars
  BY <1>1 DEF vars
<1>2. CASE \E u \in Upload : Collect(u)
  BY <1>2 DEF Collect, tables
<1>3. CASE \E h \in Handlers, u \in spool : Deliver(h, u) \/ Refuse(h, u)
  BY <1>3 DEF Deliver, Refuse, tables, vars
<1>4. ASSUME NEW h \in Handlers,
             \/ InsertReport(h) \/ AckDuplicate(h) \/ InsertCheckFails(h)
             \/ UpsertPointer(h) \/ MaintainSince(h) \/ Abort(h)
      PROVE  UNCHANGED <<report, latest, since, damage>>
  BY <1>4 DEF InsertReport, AckDuplicate, InsertCheckFails, UpsertPointer,
              MaintainSince, Abort, tables
<1>5. ASSUME NEW h \in Handlers, Commit(h) \/ CommitUnheard(h)
      PROVE  pc[h] = "ready" /\ Publish(h) /\ Close(h)
  BY <1>5 DEF Commit, CommitUnheard
<1> QED BY <1>1, <1>2, <1>3, <1>4, <1>5 DEF Next, HandlerStep

LEMMA NewestStep == ColumnPrecise /\ NewestInv /\ [Next]_vars => NewestInv'
<1> SUFFICES ASSUME ColumnPrecise, NewestInv, [Next]_vars PROVE PointerIsNewest'
  BY PtrStep DEF NewestInv
<1>1. CASE UNCHANGED <<report, latest, since, damage>>
  BY <1>1 DEF NewestInv, PointerIsNewest
<1>2. CASE \E h \in Handlers : pc[h] = "ready" /\ Publish(h) /\ Close(h)
  BY <1>2, PublishNewest DEF NewestInv
<1>3. CASE Rebuild
  BY <1>3, RebuildNewest DEF NewestInv
<1>4. CASE \E i \in Ids : DeleteReport(i)
  BY <1>4, DeleteNewest DEF NewestInv
<1> QED BY <1>1, <1>2, <1>3, <1>4, QuietStep

\* latest_report is the window's answer for every producer, at every instant,
\* under any number of concurrent uploads, retries, faults and reconciles.
THEOREM PointerNewest == ColumnPrecise => (Spec => []PointerIsNewest)
<1>1. NewestInv => PointerIsNewest
  BY DEF NewestInv
<1> SUFFICES ASSUME ColumnPrecise PROVE Spec => []PointerIsNewest
  OBVIOUS
<1>2. NewestInv /\ [Next]_vars => NewestInv'
  BY NewestStep
<1> QED BY <1>1, <1>2, NewestInit, PTL DEF Spec

-----------------------------------------------------------------------------
(* The failing runs.                                                       *)

\* The runs of a producer are those its latest report leaves open.
RunsOf(table, p, r) ==
  IF r = None THEN {} ELSE Failing(table[r.id].checks)

\* What MaintainSince computed from the committed rows, for the upload h commits.
LEMMA CommittedRuns ==
  ASSUME NoStaleRead, NEW h \in Handlers, pc[h] = "ready", Publish(h), IdInv
  PROVE  /\ \A p \in Producers :
              since'[p] = IF p = up[h].prod
                          THEN IF latest'[p].id = up[h].id
                               THEN OpenRuns(since[p], up[h]) ELSE since[p]
                          ELSE since[p]
         /\ \A p \in Producers : p # up[h].prod => damage'[p] = damage[p]
         /\ damage'[up[h].prod] = IF latest'[up[h].prod].id = up[h].id
                                  THEN damage[up[h].prod] \ {"since"}
                                  ELSE damage[up[h].prod] \cup {"late"}
<1>1. up[h] \in Upload /\ up[h].prod \in Producers
  BY UploadFields DEF IdInv, TypeInv, TypeOK, Serving
<1>2. latest'[up[h].prod] = ptr[h] /\ since'[up[h].prod] = runs[h]
  BY <1>1 DEF Publish, IdInv, TypeInv, TypeOK
<1>3. runs[h] = IF IsLatest(h) THEN OpenRuns(since[up[h].prod], up[h])
                               ELSE since[up[h].prod]
  BY DEF NoStaleRead, HoldsPointer
<1>4. \A p \in Producers : p # up[h].prod => since'[p] = since[p] /\ damage'[p] = damage[p]
  BY <1>1 DEF Publish, IdInv, TypeInv, TypeOK
<1>5. damage'[up[h].prod] = IF IsLatest(h) THEN damage[up[h].prod] \ {"since"}
                                           ELSE damage[up[h].prod] \cup {"late"}
  BY <1>1 DEF Publish, IdInv, TypeInv, TypeOK
<1> QED BY <1>1, <1>2, <1>3, <1>4, <1>5 DEF IsLatest

\* The labels OpenRuns leaves open are the failing ones.
LEMMA OpenRunsLabels ==
  ASSUME NEW u \in Upload, NEW old \in Runs
  PROVE  /\ {l \in Labels : OpenRuns(old, u)[l] # None} = Failing(u.checks)
         /\ \A l \in Labels : OpenRuns(old, u)[l] # None =>
              OpenRuns(old, u)[l] = IF old[l] = None THEN Col(u.at) ELSE old[l]
<1>1. Col(u.at) \in Nat /\ Col(u.at) # None
  BY UploadFields, NoneAssumption
<1>2. Failing(u.checks) \subseteq Labels
  <2>1. u.checks \subseteq Check
    BY UploadFields, ChecksAssumption
  <2> QED BY <2>1 DEF Failing, Check
<1>3. \A l \in Labels : OpenRuns(old, u)[l] # None <=> l \in Failing(u.checks)
  BY <1>1 DEF OpenRuns
<1> QED BY <1>2, <1>3 DEF OpenRuns

\* An upsert that does not take the report leaves the row alone.
LEMMA UpsertKeeps ==
  ASSUME NEW u \in Upload, NEW r \in Pointer \cup {None}, Upsert(r, u).id # u.id
  PROVE  Upsert(r, u) = r
<1>1. r # None /\ r \in Pointer
  BY DEF Upsert
<1>2. ~(u.at > r.at)
  BY <1>1 DEF Upsert
<1> QED BY <1>1, <1>2 DEF Upsert, Pointer

LEMMA PublishRuns ==
  ASSUME PtrInv, RunsMatchLatest, NEW h \in Handlers, pc[h] = "ready", Publish(h)
  PROVE  RunsMatchLatest'
<1> DEFINE u == up[h]
           p == up[h].prod
<1>1. /\ u \in Upload /\ p \in Producers /\ u.id \in Ids /\ report[u.id] = None
      /\ \A i \in Ids : report'[i] = IF i = u.id THEN RowOf(u) ELSE report[i]
      /\ \A q \in Producers :
           latest'[q] = IF q = p THEN Upsert(latest[q], u) ELSE latest[q]
  BY Published DEF PtrInv
<1>2. /\ \A q \in Producers :
           since'[q] = IF q = p
                       THEN IF latest'[q].id = u.id THEN OpenRuns(since[q], u) ELSE since[q]
                       ELSE since[q]
      /\ \A q \in Producers : q # p => damage'[q] = damage[q]
      /\ damage'[p] = IF latest'[p].id = u.id THEN damage[p] \ {"since"}
                                             ELSE damage[p] \cup {"late"}
  BY CommittedRuns DEF PtrInv
<1>3. \A q \in Producers : latest[q] # None =>
        latest[q].id \in Ids /\ latest[q].id # u.id
  BY <1>1, CommittedPointer DEF PtrInv
<1>4. since[p] \in Runs /\ latest[p] \in Pointer \cup {None}
  BY <1>1 DEF PtrInv, IdInv, TypeInv, TypeOK
<1> SUFFICES ASSUME NEW q \in Producers, "since" \notin damage'[q]
             PROVE  {l \in Labels : since'[q][l] # None} = RunsOf(report', q, latest'[q])
  BY DEF RunsMatchLatest, RunsOf
<1>5. CASE q = p /\ latest'[p].id = u.id
  <2>1. report'[u.id].checks = u.checks
    BY <1>1 DEF RowOf
  <2>2. latest'[p] # None
    <3>1. latest'[p] \in Pointer
      BY <1>1, <1>4, UpsertType
    <3> QED BY <3>1, NoneAssumption
  <2>3. RunsOf(report', q, latest'[q]) = Failing(u.checks)
    BY <1>5, <2>1, <2>2 DEF RunsOf
  <2>4. since'[q] = OpenRuns(since[p], u)
    BY <1>2, <1>5
  <2> QED BY <1>1, <1>4, <2>3, <2>4, OpenRunsLabels
<1>6. CASE q # p \/ latest'[p].id # u.id
  <2>1. since'[q] = since[q] /\ "since" \notin damage[q]
    BY <1>1, <1>2, <1>6
  <2>2. latest'[q] = latest[q]
    BY <1>1, <1>4, <1>6, UpsertKeeps
  <2>3. latest[q] # None => report'[latest[q].id] = report[latest[q].id]
    BY <1>1, <1>3
  <2> QED BY <2>1, <2>2, <2>3 DEF RunsMatchLatest, RunsOf
<1> QED BY <1>5, <1>6

LEMMA RebuildRuns ==
  ASSUME PtrInv, RunsMatchLatest, Rebuild
  PROVE  RunsMatchLatest'
<1> SUFFICES ASSUME NEW p \in Producers, "since" \notin damage'[p]
             PROVE  {l \in Labels : since'[p][l] # None} =
                      IF latest'[p] = None THEN {} ELSE Failing(report'[latest'[p].id].checks)
  BY DEF RunsMatchLatest
<1>1. latest'[p] = latest[p] /\ "since" \notin damage[p]
  <2>1. damage'[p] = (damage[p] \ {"pointer"}) \cup
                     IF latest'[p] = latest[p] THEN {} ELSE {"since"}
    BY DEF Rebuild
  <2> QED BY <2>1
<1>2. report' = report /\ since' = since
  BY DEF Rebuild
<1> QED BY <1>1, <1>2 DEF RunsMatchLatest

LEMMA DeleteRuns ==
  ASSUME PtrInv, RunsMatchLatest, NEW i \in Ids, DeleteReport(i)
  PROVE  RunsMatchLatest'
<1> DEFINE p == report[i].prod
<1>1. /\ p \in Producers
      /\ \A j \in Ids : report'[j] = IF j = i THEN None ELSE report[j]
      /\ since' = since
  BY DEF DeleteReport, PtrInv, IdInv, TypeInv, TypeOK, Row
<1> SUFFICES ASSUME NEW q \in Producers, "since" \notin damage'[q]
             PROVE  {l \in Labels : since'[q][l] # None} =
                      IF latest'[q] = None THEN {} ELSE Failing(report'[latest'[q].id].checks)
  BY DEF RunsMatchLatest
<1>2. /\ latest'[q] = latest[q] /\ "since" \notin damage[q]
      /\ q = p => latest[p] = None \/ latest[p].id # i
  <2>1. latest \in [Producers -> Pointer \cup {None}]
        /\ damage \in [Producers -> SUBSET Harms]
    BY DEF PtrInv, IdInv, TypeInv, TypeOK
  <2>2. CASE latest[p] # None /\ latest[p].id = i
    BY <1>1, <2>1, <2>2 DEF DeleteReport
  <2>3. CASE ~(latest[p] # None /\ latest[p].id = i)
    <3>1. latest' = latest /\ damage' = [damage EXCEPT ![p] = @ \cup {"history"}]
      BY <2>3 DEF DeleteReport
    <3> QED BY <1>1, <2>1, <2>3, <3>1
  <2> QED BY <2>2, <2>3
<1>3. latest[q] # None => latest[q].id \in Ids /\ latest[q].id # i
  BY <1>2 DEF PtrInv, PointerHasReport, ReportsOf
<1> QED BY <1>1, <1>2, <1>3 DEF RunsMatchLatest

RunsInv == PtrInv /\ RunsMatchLatest

LEMMA RunsInit == Init => RunsInv
<1>1. Init => RunsMatchLatest
  BY DEF Init, RunsMatchLatest
<1> QED BY <1>1, PtrInit DEF RunsInv

LEMMA RunsStep == RunsInv /\ [Next]_vars => RunsInv'
<1> SUFFICES ASSUME RunsInv, [Next]_vars PROVE RunsMatchLatest'
  BY PtrStep DEF RunsInv
<1>1. CASE UNCHANGED <<report, latest, since, damage>>
  BY <1>1 DEF RunsInv, RunsMatchLatest
<1>2. CASE \E h \in Handlers : pc[h] = "ready" /\ Publish(h) /\ Close(h)
  BY <1>2, PublishRuns DEF RunsInv
<1>3. CASE Rebuild
  BY <1>3, RebuildRuns DEF RunsInv
<1>4. CASE \E i \in Ids : DeleteReport(i)
  BY <1>4, DeleteRuns DEF RunsInv
<1> QED BY <1>1, <1>2, <1>3, <1>4, QuietStep

\* The open runs of a producer are exactly what its latest report shows failing,
\* for stamps of any precision, unless its pointer lost its report by hand or
\* was moved by a reconcile and no report has become the latest since.
THEOREM RunsMatch == Spec => []RunsMatchLatest
<1>1. RunsInv => RunsMatchLatest
  BY DEF RunsInv
<1> QED BY <1>1, RunsInit, RunsStep, PTL DEF Spec

-----------------------------------------------------------------------------
(* Where the failing runs began.                                           *)

\* A pointer is only in doubt where history is.
HistoryStays ==
  \A p \in Producers : "pointer" \in damage[p] => "history" \in damage[p]

\* An open run began with a stored report that shows its failure.
BeganWithReport ==
  \A p \in Producers, l \in Labels :
    "history" \notin damage[p] /\ since[p][l] # None =>
      \E i \in ReportsOf(report, p) :
        report[i].at = since[p][l] /\ l \in Failing(report[i].checks)

SeenInv == PtrInv /\ HistoryStays /\ BeganWithReport

LEMMA SeenInit == Init => SeenInv
<1>1. Init => HistoryStays
  BY DEF Init, HistoryStays
<1>2. Init => BeganWithReport
  BY DEF Init, BeganWithReport
<1> QED BY <1>1, <1>2, PtrInit DEF SeenInv

LEMMA HistoryStep == PtrInv /\ HistoryStays /\ [Next]_vars => HistoryStays'
<1> SUFFICES ASSUME PtrInv, HistoryStays, [Next]_vars PROVE HistoryStays'
  OBVIOUS
<1>1. damage \in [Producers -> SUBSET Harms]
  BY DEF PtrInv, IdInv, TypeInv, TypeOK
<1>2. CASE UNCHANGED <<report, latest, since, damage>>
  BY <1>2 DEF HistoryStays
<1>3. CASE \E h \in Handlers : pc[h] = "ready" /\ Publish(h) /\ Close(h)
  BY <1>1, <1>3 DEF HistoryStays, Publish
<1>4. CASE Rebuild
  BY <1>1, <1>4 DEF HistoryStays, Rebuild
<1>5. CASE \E i \in Ids : DeleteReport(i)
  <2>1. PICK i \in Ids : DeleteReport(i)
    BY <1>5
  <2>2. \/ damage' = [damage EXCEPT ![report[i].prod] = {"pointer", "since", "history"}]
        \/ damage' = [damage EXCEPT ![report[i].prod] = @ \cup {"history"}]
    BY <2>1 DEF DeleteReport
  <2> QED BY <1>1, <2>2 DEF HistoryStays
<1> QED BY <1>2, <1>3, <1>4, <1>5, QuietStep

LEMMA PublishSeen ==
  ASSUME SeenInv, NEW h \in Handlers, pc[h] = "ready", Publish(h)
  PROVE  BeganWithReport'
<1> DEFINE u == up[h]
<1>1. /\ u \in Upload /\ u.prod \in Producers /\ u.id \in Ids /\ report[u.id] = None
      /\ \A i \in Ids : report'[i] = IF i = u.id THEN RowOf(u) ELSE report[i]
      /\ \A q \in Producers :
           ReportsOf(report', q) = IF q = u.prod THEN ReportsOf(report, q) \cup {u.id}
                                                 ELSE ReportsOf(report, q)
  BY Published DEF SeenInv, PtrInv
<1>2. /\ \A q \in Producers :
           since'[q] = IF q = u.prod
                       THEN IF latest'[q].id = u.id THEN OpenRuns(since[q], u) ELSE since[q]
                       ELSE since[q]
      /\ \A q \in Producers : q # u.prod => damage'[q] = damage[q]
      /\ damage'[u.prod] = IF latest'[u.prod].id = u.id THEN damage[u.prod] \ {"since"}
                                                       ELSE damage[u.prod] \cup {"late"}
  BY CommittedRuns DEF SeenInv, PtrInv
<1> SUFFICES ASSUME NEW q \in Producers, NEW l \in Labels,
                    "history" \notin damage'[q], since'[q][l] # None
             PROVE  \E i \in ReportsOf(report', q) :
                      report'[i].at = since'[q][l] /\ l \in Failing(report'[i].checks)
  BY DEF BeganWithReport
<1>3. "history" \notin damage[q]
  BY <1>1, <1>2
<1>4. ASSUME since[q][l] # None, since'[q][l] = since[q][l]
      PROVE  \E i \in ReportsOf(report', q) :
               report'[i].at = since'[q][l] /\ l \in Failing(report'[i].checks)
  <2>1. PICK i \in ReportsOf(report, q) :
          report[i].at = since[q][l] /\ l \in Failing(report[i].checks)
    BY <1>3, <1>4 DEF SeenInv, BeganWithReport
  <2>2. i \in Ids /\ report[i] # None
    BY DEF ReportsOf
  <2>3. i # u.id
    BY <1>1, <2>2
  <2>4. i \in ReportsOf(report', q) /\ report'[i] = report[i]
    BY <1>1, <2>2, <2>3
  <2> QED BY <1>4, <2>1, <2>4
<1>5. CASE q = u.prod /\ latest'[q].id = u.id
  <2>1. since[q] \in Runs /\ since'[q] = OpenRuns(since[q], u)
    BY <1>2, <1>5 DEF SeenInv, PtrInv, IdInv, TypeInv, TypeOK
  <2>2. since'[q][l] = (IF since[q][l] = None THEN Col(u.at) ELSE since[q][l])
        /\ l \in Failing(u.checks)
    <3>1. /\ {k \in Labels : OpenRuns(since[q], u)[k] # None} = Failing(u.checks)
          /\ OpenRuns(since[q], u)[l] = IF since[q][l] = None THEN Col(u.at) ELSE since[q][l]
      BY <1>1, <2>1, OpenRunsLabels
    <3> QED BY <2>1, <3>1
  <2>3. CASE since[q][l] # None
    BY <1>4, <2>2, <2>3
  <2>4. CASE since[q][l] = None
    <3>1. report'[u.id].at = Col(u.at) /\ report'[u.id].checks = u.checks
      BY <1>1 DEF RowOf
    <3>2. u.id \in ReportsOf(report', q)
      BY <1>1, <1>5
    <3> QED BY <2>2, <2>4, <3>1, <3>2
  <2> QED BY <2>3, <2>4
<1>6. CASE ~(q = u.prod /\ latest'[q].id = u.id)
  BY <1>2, <1>4, <1>6
<1> QED BY <1>5, <1>6

LEMMA SeenStep == SeenInv /\ [Next]_vars => SeenInv'
<1> SUFFICES ASSUME SeenInv, [Next]_vars PROVE BeganWithReport'
  BY PtrStep, HistoryStep DEF SeenInv
<1>1. CASE UNCHANGED <<report, latest, since, damage>>
  BY <1>1 DEF SeenInv, BeganWithReport, ReportsOf
<1>2. CASE \E h \in Handlers : pc[h] = "ready" /\ Publish(h) /\ Close(h)
  BY <1>2, PublishSeen
<1>3. CASE Rebuild
  <2>1. report' = report /\ since' = since
    BY <1>3 DEF Rebuild
  <2>2. \A p \in Producers : "history" \in damage[p] => "history" \in damage'[p]
    BY <1>3 DEF Rebuild
  <2> QED BY <2>1, <2>2 DEF SeenInv, BeganWithReport, ReportsOf
<1>4. CASE \E i \in Ids : DeleteReport(i)
  <2>1. PICK i \in Ids : DeleteReport(i)
    BY <1>4
  <2>2. /\ since' = since
        /\ \A j \in Ids : report'[j] = IF j = i THEN None ELSE report[j]
        /\ \/ damage' = [damage EXCEPT ![report[i].prod] = {"pointer", "since", "history"}]
           \/ damage' = [damage EXCEPT ![report[i].prod] = @ \cup {"history"}]
    BY <2>1 DEF DeleteReport, SeenInv, PtrInv, IdInv, TypeInv, TypeOK
  <2>3. damage \in [Producers -> SUBSET Harms]
    BY DEF SeenInv, PtrInv, IdInv, TypeInv, TypeOK
  <2>4. ASSUME NEW p \in Producers, "history" \notin damage'[p]
        PROVE  /\ damage[p] = damage'[p]
               /\ \A j \in ReportsOf(report, p) :
                    j \in ReportsOf(report', p) /\ report'[j] = report[j]
    <3>1. p # report[i].prod /\ damage[p] = damage'[p]
      BY <2>2, <2>3, <2>4
    <3> QED BY <2>2, <3>1 DEF ReportsOf
  <2> SUFFICES ASSUME NEW p \in Producers, NEW l \in Labels,
                      "history" \notin damage'[p], since'[p][l] # None
               PROVE  \E j \in ReportsOf(report', p) :
                        report'[j].at = since'[p][l] /\ l \in Failing(report'[j].checks)
    BY DEF BeganWithReport
  <2>5. PICK j \in ReportsOf(report, p) :
          report[j].at = since[p][l] /\ l \in Failing(report[j].checks)
    BY <2>2, <2>4 DEF SeenInv, BeganWithReport
  <2> QED BY <2>2, <2>4, <2>5
<1> QED BY <1>1, <1>2, <1>3, <1>4, QuietStep

\* What counts as confirmed was seen before, with stamps of any precision and
\* other producers' reports deleted or not.
THEOREM ConfirmedSeen == Spec => []ConfirmedWasSeenBefore
<1>1. SeenInv => ConfirmedWasSeenBefore
  <2> SUFFICES ASSUME SeenInv, NEW p \in Producers, NEW l \in Labels,
                      "history" \notin damage[p], since[p][l] # None
               PROVE  /\ since[p][l] <= latest[p].at
                      /\ \E i \in ReportsOf(report, p) :
                           report[i].at = since[p][l] /\ l \in Failing(report[i].checks)
    BY DEF ConfirmedWasSeenBefore
  <2>1. PICK i \in ReportsOf(report, p) :
          report[i].at = since[p][l] /\ l \in Failing(report[i].checks)
    BY DEF SeenInv, BeganWithReport
  <2>2. report[i].at <= latest[p].at
    BY DEF SeenInv, HistoryStays, PtrInv, PointerTimeIsNewest
  <2> QED BY <2>1, <2>2
<1>2. SeenInv /\ [Next]_vars => SeenInv'
  BY SeenStep
<1> QED BY <1>1, <1>2, SeenInit, PTL DEF Spec

\* With whole milliseconds a reconcile only moves a pointer that was deleted.
PreciseInv == NewestInv /\ RunsMatchLatest

LEMMA PreciseInit == Init => PreciseInv
  BY NewestInit, RunsInit DEF PreciseInv, RunsInv

LEMMA PreciseStep == ColumnPrecise /\ PreciseInv /\ [Next]_vars => PreciseInv'
  BY NewestStep, RunsStep DEF PreciseInv, RunsInv, NewestInv

\* Runs are only in doubt where history is.
SinceStays ==
  \A p \in Producers : "since" \in damage[p] => "history" \in damage[p]

LEMMA SinceStep ==
  PreciseInv /\ HistoryStays /\ SinceStays /\ [Next]_vars => SinceStays'
<1> SUFFICES ASSUME PreciseInv, HistoryStays, SinceStays, [Next]_vars PROVE SinceStays'
  OBVIOUS
<1>1. damage \in [Producers -> SUBSET Harms]
  BY DEF PreciseInv, NewestInv, PtrInv, IdInv, TypeInv, TypeOK
<1>2. CASE UNCHANGED <<report, latest, since, damage>>
  BY <1>2 DEF SinceStays
<1>3. CASE \E h \in Handlers : pc[h] = "ready" /\ Publish(h) /\ Close(h)
  BY <1>1, <1>3 DEF SinceStays, Publish
<1>4. CASE Rebuild
  <2> SUFFICES ASSUME NEW p \in Producers, "since" \in damage'[p], "since" \notin damage[p]
               PROVE  "history" \in damage'[p]
    BY <1>4 DEF SinceStays, Rebuild
  <2>1. damage'[p] = (damage[p] \ {"pointer"}) \cup
                     IF latest'[p] = latest[p] THEN {} ELSE {"since"}
    BY <1>4 DEF Rebuild
  <2>2. "pointer" \in damage[p]
    BY <1>4, <2>1, RebuildNewest DEF PreciseInv, NewestInv
  <2> QED BY <2>1, <2>2 DEF HistoryStays
<1>5. CASE \E i \in Ids : DeleteReport(i)
  <2>1. PICK i \in Ids : DeleteReport(i)
    BY <1>5
  <2>2. \/ damage' = [damage EXCEPT ![report[i].prod] = {"pointer", "since", "history"}]
        \/ damage' = [damage EXCEPT ![report[i].prod] = @ \cup {"history"}]
    BY <2>1 DEF DeleteReport
  <2> QED BY <1>1, <2>2 DEF SinceStays
<1> QED BY <1>2, <1>3, <1>4, <1>5, QuietStep

\* For a producer without late reports, the open runs began when they say.
RunsStartInv == PreciseInv /\ HistoryStays /\ SinceStays /\ FirstSeenInOrder

\* A report that became the latest of its producer ranks before all others, so
\* it interrupts every run it does not continue, and extends the others.
LEMMA PublishStart ==
  ASSUME RunsStartInv, PointerIsNewest', ColumnPrecise,
         NEW h \in Handlers, pc[h] = "ready", Publish(h)
  PROVE  FirstSeenInOrder'
<1> USE DEF RunsStartInv, PreciseInv, NewestInv
<1> DEFINE u == up[h]
<1>1. /\ u \in Upload /\ u.prod \in Producers /\ u.id \in Ids /\ report[u.id] = None
      /\ \A i \in Ids : report'[i] = IF i = u.id THEN RowOf(u) ELSE report[i]
      /\ \A q \in Producers :
           /\ ReportsOf(report', q) = IF q = u.prod THEN ReportsOf(report, q) \cup {u.id}
                                                    ELSE ReportsOf(report, q)
           /\ latest'[q] = IF q = u.prod THEN Upsert(latest[q], u) ELSE latest[q]
           /\ "pointer" \in damage'[q] <=> "pointer" \in damage[q]
  BY Published DEF PtrInv
<1>2. /\ \A q \in Producers :
           since'[q] = IF q = u.prod
                       THEN IF latest'[q].id = u.id THEN OpenRuns(since[q], u) ELSE since[q]
                       ELSE since[q]
      /\ \A q \in Producers : q # u.prod => damage'[q] = damage[q]
      /\ damage'[u.prod] = IF latest'[u.prod].id = u.id THEN damage[u.prod] \ {"since"}
                                                       ELSE damage[u.prod] \cup {"late"}
  BY CommittedRuns DEF PtrInv
<1>3. \A q \in Producers : \A i \in ReportsOf(report, q) :
        /\ i \in Ids /\ i # u.id /\ i \in Nat
        /\ report'[i] = report[i] /\ report[i].at \in Nat
  BY <1>1, StoredAt, IdsAssumption DEF ReportsOf, PtrInv
<1>4. /\ report'[u.id].at = u.at /\ report'[u.id].checks = u.checks
      /\ u.at \in Nat /\ u.id \in Nat /\ Col(u.at) = u.at
  BY <1>1, UploadFields DEF RowOf, ColumnPrecise
<1> SUFFICES ASSUME NEW q \in Producers, NEW l \in Labels,
                    damage'[q] = {}, since'[q][l] # None
             PROVE  IsRunStart(q, l)'
  BY DEF FirstSeenInOrder
<1>5. damage[q] = {}
  BY <1>1, <1>2 DEF SinceStays
<1>6. CASE q # u.prod
  <2>1. /\ ReportsOf(report', q) = ReportsOf(report, q)
        /\ since'[q] = since[q]
        /\ \A i \in ReportsOf(report, q) : report'[i] = report[i]
    BY <1>1, <1>2, <1>3, <1>6
  <2>2. IsRunStart(q, l)
    BY <1>5, <2>1 DEF FirstSeenInOrder
  <2>3. RunReports(q, l)' = RunReports(q, l)
    BY <2>1 DEF RunReports, Interrupted
  <2>4. RunReports(q, l) \subseteq ReportsOf(report, q)
    BY DEF RunReports
  <2> QED BY <2>1, <2>2, <2>3, <2>4 DEF IsRunStart
<1>7. CASE q = u.prod
  <2>1. latest'[q].id = u.id /\ since'[q] = OpenRuns(since[q], u) /\ since[q] \in Runs
    BY <1>2, <1>5, <1>7 DEF PtrInv, IdInv, TypeInv, TypeOK
  <2>2. /\ l \in Failing(u.checks)
        /\ since'[q][l] = IF since[q][l] = None THEN u.at ELSE since[q][l]
    <3>1. /\ {k \in Labels : OpenRuns(since[q], u)[k] # None} = Failing(u.checks)
          /\ OpenRuns(since[q], u)[l] = IF since[q][l] = None THEN Col(u.at) ELSE since[q][l]
      BY <1>1, <2>1, OpenRunsLabels
    <3> QED BY <1>4, <2>1, <3>1
  <2>3. \A i \in ReportsOf(report, q) : Before(u.at, u.id, report[i].at, i)
    <3>1. RanksFirst(report', q, latest'[q])
      BY <1>5, <1>1 DEF PointerIsNewest
    <3>2. u.id \in ReportsOf(report', q)
      BY <1>1, <1>7
    <3>3. latest'[q].at = u.at
      BY <1>4, <2>1, <3>1, <3>2 DEF RanksFirst, PointersInto
    <3> QED BY <1>1, <1>3, <1>7, <2>1, <3>1, <3>2, <3>3 DEF RanksFirst
  <2>4. PICK k : k = up[h].id
    OBVIOUS
  <2>5. k \in RunReports(q, l)'
    <3>1. ~Interrupted(q, l, k)'
      <4> SUFFICES ASSUME NEW j \in ReportsOf(report', q),
                          l \notin Failing(report'[j].checks)
                   PROVE  ~Before(report'[j].at, j, report'[k].at, k)
        BY DEF Interrupted
      <4>1. j \in ReportsOf(report, q)
        BY <1>1, <1>4, <1>7, <2>2
      <4> QED BY <1>3, <1>4, <2>3, <2>4, <4>1 DEF Before
    <3> QED BY <1>1, <1>4, <1>7, <2>2, <2>4, <3>1 DEF RunReports
  <2>6. \A i \in RunReports(q, l)' : i = k \/ i \in RunReports(q, l)
    BY <1>1, <1>3, <1>7, <2>4 DEF RunReports, Interrupted
  <2>7. CASE since[q][l] = None
    <3>1. RunReports(q, l) = {}
      <4> SUFFICES ASSUME NEW i \in RunReports(q, l) PROVE FALSE
        OBVIOUS
      <4>1. i \in ReportsOf(report, q) /\ l \in Failing(report[i].checks)
            /\ ~Interrupted(q, l, i)
        BY DEF RunReports
      <4>2. RanksFirst(report, q, latest[q])
        BY <1>5 DEF PointerIsNewest
      <4>3. latest[q] # None
        BY <1>5, <4>1 DEF PtrInv, PointerTimeIsNewest
      <4>4. /\ latest[q].id \in ReportsOf(report, q)
            /\ latest[q].at = report[latest[q].id].at
        BY <4>3 DEF PtrInv, PointerHasReport
      <4>5. l \notin Failing(report[latest[q].id].checks)
        BY <1>5, <2>7, <4>3 DEF RunsMatchLatest
      <4>6. i # latest[q].id
        BY <4>1, <4>5
      <4>7. Before(latest[q].at, latest[q].id, report[i].at, i)
        BY <4>1, <4>2, <4>6 DEF RanksFirst
      <4> QED BY <4>1, <4>4, <4>5, <4>7 DEF Interrupted
    <3> QED BY <1>4, <2>2, <2>4, <2>6, <2>7, <2>5, <3>1 DEF IsRunStart
  <2>8. CASE since[q][l] # None
    <3>1. IsRunStart(q, l)
      BY <1>5, <2>8 DEF FirstSeenInOrder
    <3>2. PICK i \in RunReports(q, l) : report[i].at = since[q][l]
      BY <3>1 DEF IsRunStart
    <3>3. i \in ReportsOf(report, q) /\ l \in Failing(report[i].checks)
          /\ ~Interrupted(q, l, i)
      BY DEF RunReports
    <3>4. ~Interrupted(q, l, i)'
      <4> SUFFICES ASSUME NEW j \in ReportsOf(report', q),
                          l \notin Failing(report'[j].checks)
                   PROVE  ~Before(report'[j].at, j, report'[i].at, i)
        BY DEF Interrupted
      <4>1. j \in ReportsOf(report, q)
        BY <1>1, <1>4, <1>7, <2>2
      <4> QED BY <1>3, <3>3, <4>1 DEF Interrupted
    <3>5. i \in RunReports(q, l)'
      BY <1>1, <1>3, <1>7, <3>3, <3>4 DEF RunReports
    <3>6. report'[i].at = since'[q][l]
      BY <1>3, <2>2, <2>8, <3>2, <3>3
    <3>7. \A j \in RunReports(q, l) : since[q][l] <= report[j].at /\ report'[j] = report[j]
      BY <1>3, <3>1 DEF IsRunStart, RunReports
    <3>8. since[q][l] <= u.at
      BY <1>3, <1>4, <2>3, <3>2, <3>3 DEF Before
    <3> QED BY <1>4, <2>2, <2>4, <2>6, <2>8, <3>5, <3>6, <3>7, <3>8 DEF IsRunStart
  <2> QED BY <2>7, <2>8
<1> QED BY <1>6, <1>7

LEMMA StartStep == ColumnPrecise /\ RunsStartInv /\ [Next]_vars => RunsStartInv'
<1> SUFFICES ASSUME ColumnPrecise, RunsStartInv, [Next]_vars PROVE FirstSeenInOrder'
  BY PreciseStep, HistoryStep, SinceStep DEF RunsStartInv, PreciseInv, NewestInv
<1>1. CASE UNCHANGED <<report, latest, since, damage>>
  BY <1>1 DEF RunsStartInv, FirstSeenInOrder, IsRunStart, RunReports, Interrupted, ReportsOf
<1>2. CASE \E h \in Handlers : pc[h] = "ready" /\ Publish(h) /\ Close(h)
  <2>1. PointerIsNewest'
    BY PreciseStep DEF RunsStartInv, PreciseInv, NewestInv
  <2> QED BY <1>2, <2>1, PublishStart
<1>3. CASE Rebuild
  <2>1. report' = report /\ since' = since
    BY <1>3 DEF Rebuild
  <2>2. \A p \in Producers : damage'[p] = {} => damage[p] = {}
    BY <1>3 DEF Rebuild, RunsStartInv, HistoryStays
  <2> QED BY <2>1, <2>2 DEF RunsStartInv, FirstSeenInOrder, IsRunStart, RunReports,
                            Interrupted, ReportsOf
<1>4. CASE \E i \in Ids : DeleteReport(i)
  <2>1. PICK i \in Ids : DeleteReport(i)
    BY <1>4
  <2>2. /\ since' = since
        /\ \A j \in Ids : report'[j] = IF j = i THEN None ELSE report[j]
        /\ \/ damage' = [damage EXCEPT ![report[i].prod] = {"pointer", "since", "history"}]
           \/ damage' = [damage EXCEPT ![report[i].prod] = @ \cup {"history"}]
        /\ damage \in [Producers -> SUBSET Harms]
    BY <2>1 DEF DeleteReport, RunsStartInv, PreciseInv, NewestInv, PtrInv, IdInv, TypeInv, TypeOK
  <2> SUFFICES ASSUME NEW p \in Producers, NEW l \in Labels,
                      damage'[p] = {}, since'[p][l] # None
               PROVE  IsRunStart(p, l)'
    BY DEF FirstSeenInOrder
  <2>3. p # report[i].prod /\ damage[p] = {}
    BY <2>2
  <2>4. IsRunStart(p, l)
    BY <2>2, <2>3 DEF RunsStartInv, FirstSeenInOrder
  <2>5. /\ ReportsOf(report', p) = ReportsOf(report, p)
        /\ \A j \in ReportsOf(report, p) : report'[j] = report[j]
    BY <2>2, <2>3 DEF ReportsOf
  <2>6. RunReports(p, l)' = RunReports(p, l)
    BY <2>5 DEF RunReports, Interrupted
  <2>7. RunReports(p, l) \subseteq ReportsOf(report, p)
    BY DEF RunReports
  <2> QED BY <2>2, <2>4, <2>5, <2>6, <2>7 DEF IsRunStart
<1> QED BY <1>1, <1>2, <1>3, <1>4, QuietStep

\* first_seen is the time of the first report of the current run, for every
\* producer whose reports arrived in order.
THEOREM RunsStartRight == ColumnPrecise => (Spec => []FirstSeenInOrder)
<1> SUFFICES ASSUME ColumnPrecise PROVE Spec => []FirstSeenInOrder
  OBVIOUS
<1>1. Init => RunsStartInv
  <2>1. Init => HistoryStays /\ SinceStays /\ FirstSeenInOrder
    BY DEF Init, HistoryStays, SinceStays, FirstSeenInOrder
  <2> QED BY <2>1, PreciseInit DEF RunsStartInv
<1>2. RunsStartInv /\ [Next]_vars => RunsStartInv'
  BY StartStep
<1>3. RunsStartInv => FirstSeenInOrder
  BY DEF RunsStartInv
<1> QED BY <1>1, <1>2, <1>3, PTL DEF Spec

-----------------------------------------------------------------------------
(* The refinement.                                                         *)

\* What normal service is: millisecond clocks, and nobody deletes reports.
NormalService == ColumnPrecise /\ Doomed = {}

\* Without hand-deletions nothing but late arrivals happens to a producer.
Undamaged == \A p \in Producers : damage[p] \subseteq {"late"}

RefInv == PreciseInv /\ Undamaged

LEMMA RefInit == Init => RefInv
<1>1. Init => Undamaged
  BY DEF Init, Undamaged
<1> QED BY <1>1, PreciseInit DEF RefInv

LEMMA RefStep == NormalService /\ RefInv /\ [Next]_vars => RefInv'
<1> SUFFICES ASSUME NormalService, RefInv, [Next]_vars PROVE Undamaged'
  BY PreciseStep DEF RefInv, NormalService
<1>1. damage \in [Producers -> SUBSET Harms]
  BY DEF RefInv, PreciseInv, NewestInv, PtrInv, IdInv, TypeInv, TypeOK
<1>2. CASE UNCHANGED <<report, latest, since, damage>>
  BY <1>2 DEF RefInv, Undamaged
<1>3. CASE \E h \in Handlers : pc[h] = "ready" /\ Publish(h) /\ Close(h)
  BY <1>1, <1>3 DEF RefInv, Undamaged, Publish
<1>4. CASE Rebuild
  <2> SUFFICES ASSUME NEW p \in Producers PROVE damage'[p] \subseteq {"late"}
    BY DEF Undamaged
  <2>1. "pointer" \notin damage[p] /\ damage[p] \subseteq {"late"}
    BY DEF RefInv, Undamaged
  <2>2. latest'[p] = latest[p]
    BY <1>4, <2>1, RebuildNewest DEF RefInv, PreciseInv, NewestInv
  <2> QED BY <1>4, <2>1, <2>2 DEF Rebuild
<1>5. CASE \E i \in Ids : DeleteReport(i)
  BY <1>5 DEF NormalService, DeleteReport
<1> QED BY <1>2, <1>3, <1>4, <1>5, QuietStep

\* The two specifications rank reports the same way.
NewestOf(l) == [p \in Producers |-> IF l[p] = None THEN None ELSE l[p].id]

LEMMA SameRank ==
  ASSUME NEW table, NEW p \in Producers, NEW r,
         \A i \in Ids : table[i] # None => table[i].at \in Nat,
         None \notin Ids, RanksFirst(table, p, r)
  PROVE  Ledger!IsNewest(table, p, IF r = None THEN None ELSE r.id)
<1>1. Ledger!Of(table, p) = ReportsOf(table, p)
  BY DEF Ledger!Of, ReportsOf
<1>2. CASE ReportsOf(table, p) = {}
  BY <1>1, <1>2 DEF RanksFirst, Ledger!IsNewest
<1>3. CASE ReportsOf(table, p) # {}
  <2>1. r \in PointersInto(table) /\ r.id \in ReportsOf(table, p)
    BY <1>3 DEF RanksFirst
  <2>2. PICK j \in Ids : table[j] # None /\ r = [id |-> j, at |-> table[j].at]
    BY <2>1, Zenon DEF PointersInto
  <2>3. r \in Pointer /\ r # None /\ r.at = table[r.id].at
    BY <2>2, NoneAssumption DEF Pointer
  <2>4. \A i \in ReportsOf(table, p) \ {r.id} : Ledger!Later(table, r.id, i)
    BY <1>3, <2>3 DEF RanksFirst, Before, Ledger!Later
  <2> QED BY <1>1, <1>3, <2>1, <2>3, <2>4 DEF Ledger!IsNewest
<1> QED BY <1>2, <1>3

\* The report a commit adds is the ledger's one step.
LEMMA PublishStores ==
  ASSUME NormalService, RefInv, RefInv', NEW h \in Handlers, pc[h] = "ready", Publish(h),
         NEW i, NEW row, i = up[h].id, row = RowOf(up[h])
  PROVE  Ledger!Store(i, row) /\ i \in Ids /\ row \in Ledger!Row
<1> DEFINE u == up[h]
           p == up[h].prod
<1> USE DEF RefInv, PreciseInv, NewestInv
<1>1. /\ u \in Upload /\ p \in Producers /\ u.id \in Ids /\ report[u.id] = None
      /\ \A q \in Producers :
           latest'[q] = IF q = p THEN Upsert(latest[q], u) ELSE latest[q]
  BY Published DEF PtrInv
<1>2. Col(u.at) = u.at /\ u.at \in Stamps /\ u.checks \in CheckLists
  BY <1>1, UploadFields DEF NormalService, ColumnPrecise
<1>3. RowOf(u) \in Ledger!Row
  BY <1>1, <1>2 DEF RowOf, Ledger!Row
<1>4. report' = [report EXCEPT ![u.id] = RowOf(u)]
  BY DEF Publish
<1>5. /\ latest' \in [Producers -> Pointer \cup {None}]
      /\ report' \in [Ids -> Row \cup {None}]
  BY DEF PtrInv, IdInv, TypeInv, TypeOK
<1>6. None \notin Ids
  BY IdsAssumption, NoneAssumption
<1>7. NewestOf(latest') \in [Producers -> Ids \cup {None}]
  BY <1>5 DEF NewestOf, Pointer
<1>8. ASSUME NEW q \in Producers PROVE Ledger!IsNewest(report', q, NewestOf(latest')[q])
  <2>1. RanksFirst(report', q, latest'[q])
    BY DEF PointerIsNewest, Undamaged
  <2>2. \A j \in Ids : report'[j] # None => report'[j].at \in Nat
    BY <1>5 DEF Row
  <2> QED BY <1>6, <2>1, <2>2, SameRank DEF NewestOf
<1>9. latest'[p] \in Pointer /\ latest'[p] # None
  <2>1. latest[p] \in Pointer \cup {None}
    BY <1>1 DEF PtrInv, IdInv, TypeInv, TypeOK
  <2> QED BY <1>1, <2>1, UpsertType, NoneAssumption
<1>10. NewestOf(latest')[p] = latest'[p].id
  BY <1>1, <1>9 DEF NewestOf
<1>11. since' = [since EXCEPT ![p] =
         IF NewestOf(latest')[p] # u.id
         THEN @
         ELSE [l \in Labels |-> IF l \notin Ledger!Failing(u.checks) THEN None
                                ELSE IF @[l] = None THEN u.at ELSE @[l]]]
  <2>1. since' = [since EXCEPT ![p] = runs[h]] /\ latest'[p] = ptr[h]
    BY <1>1 DEF Publish, PtrInv, IdInv, TypeInv, TypeOK
  <2>2. runs[h] = IF latest'[p].id = u.id THEN OpenRuns(since[p], u) ELSE since[p]
    BY <2>1 DEF PtrInv, NoStaleRead, HoldsPointer, IsLatest
  <2>3. OpenRuns(since[p], u) =
          [l \in Labels |-> IF l \notin Ledger!Failing(u.checks) THEN None
                            ELSE IF since[p][l] = None THEN u.at ELSE since[p][l]]
    BY <1>2 DEF OpenRuns, Failing, Ledger!Failing
  <2>4. since \in [Producers -> Runs]
    BY DEF PtrInv, IdInv, TypeInv, TypeOK
  <2> QED BY <1>1, <1>10, <2>1, <2>2, <2>3, <2>4
<1>12. RowOf(u).prod = p /\ RowOf(u).checks = u.checks /\ RowOf(u).at = u.at
  BY <1>2 DEF RowOf
<1>13. since' = [since EXCEPT ![row.prod] =
         IF NewestOf(latest')[row.prod] # i
         THEN @
         ELSE [l \in Labels |-> IF l \notin Ledger!Failing(row.checks) THEN None
                                ELSE IF @[l] = None THEN row.at ELSE @[l]]]
  BY <1>11, <1>12
<1>14. /\ report[i] = None
       /\ report' = [report EXCEPT ![i] = row]
       /\ NewestOf(latest') \in [Producers -> Ids \cup {None}]
       /\ \A q \in Producers : Ledger!IsNewest(report', q, NewestOf(latest')[q])
  BY <1>1, <1>4, <1>7, <1>8
<1>15. Ledger!Store(i, row)
  BY <1>13, <1>14, Zenon DEF Ledger!Store, NewestOf
<1> QED
  BY <1>1, <1>3, <1>15

LEMMA LedgerInit == Init => Ledger!Init
  BY DEF Init, Ledger!Init

LEMMA LedgerStep ==
  NormalService /\ RefInv /\ RefInv' /\ [Next]_vars => [Ledger!Next]_(Ledger!vars)
<1> SUFFICES ASSUME NormalService, RefInv, RefInv', [Next]_vars
             PROVE  [Ledger!Next]_(Ledger!vars)
  OBVIOUS
<1>1. CASE UNCHANGED <<report, latest, since, damage>>
  BY <1>1 DEF Ledger!vars
<1>2. ASSUME NEW h \in Handlers, pc[h] = "ready", Publish(h)
      PROVE  Ledger!Next
  <2>1. PICK i, row : i = up[h].id /\ row = RowOf(up[h])
    OBVIOUS
  <2>2. Ledger!Store(i, row) /\ i \in Ids /\ row \in Ledger!Row
    BY <1>2, <2>1, PublishStores
  <2> QED BY <2>2 DEF Ledger!Next
<1>3. CASE Rebuild
  <2>1. \A p \in Producers : latest'[p] = latest[p]
    BY <1>3, RebuildNewest DEF RefInv, PreciseInv, NewestInv, Undamaged
  <2>2. report' = report /\ since' = since
    BY <1>3 DEF Rebuild
  <2> QED BY <2>1, <2>2 DEF Ledger!vars
<1>4. CASE \E i \in Ids : DeleteReport(i)
  BY <1>4 DEF NormalService, DeleteReport
<1> QED BY <1>1, <1>2, <1>3, <1>4, QuietStep

\* Seen from its tables, the write path with all its concurrency and faults is
\* the ledger that takes one report at a time.
THEOREM Refinement == NormalService => (Spec => LedgerSpec)
<1> SUFFICES ASSUME NormalService PROVE Spec => Ledger!Spec
  BY DEF LedgerSpec
<1>1. RefInv /\ [Next]_vars => RefInv'
  BY RefStep
<1>2. RefInv /\ RefInv' /\ [Next]_vars => [Ledger!Next]_(Ledger!vars)
  BY LedgerStep
<1> QED BY <1>1, <1>2, RefInit, LedgerInit, PTL DEF Spec, Ledger!Spec
=============================================================================
