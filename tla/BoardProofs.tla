---------------------------- MODULE BoardProofs ----------------------------
(***************************************************************************)
(* The problems view, for any fleet, intervals, mutes and clocks.  The     *)
(* invariant ties the newest reports to the ledger, and the rows a sweep   *)
(* deleted to reports too old to be fresh.                                 *)
(***************************************************************************)
EXTENDS BoardReader, FiniteSetTheorems, FunctionTheorems, TLAPS

\* What the tables hold.
TablesInv ==
  /\ now \in 0..MaxTime
  /\ ledger \in [Ids -> L!Row \cup {None}]
  /\ newest \in [Producers -> Ids \cup {None}]
  /\ retired \in [Producers -> Times \cup {None}]
  /\ DOMAIN mutes = MuteIds

\* A newest report is one of its producer's.
NewestInv ==
  \A p \in Producers : newest[p] # None =>
    newest[p] \in Ids /\ ledger[newest[p]] \in L!Row /\ ledger[newest[p]].prod = p

\* Check rows are gone only from reports older than the retention.
SweptInv ==
  \A i \in swept : i \in Ids /\ ledger[i] \in L!Row /\ ledger[i].at < now - CheckDays

BoardInv == TablesInv /\ NewestInv /\ SweptInv

LEMMA TimesAreNat == Times \subseteq Nat
  BY BoundsAssumption DEF Times

LEMMA RowAt == ASSUME NEW row \in L!Row PROVE row.at \in Nat /\ row.prod \in Producers
  BY TimesAreNat DEF L!Row

-----------------------------------------------------------------------------
(* The invariant.                                                          *)

LEMMA BoardInit == Init => BoardInv
  BY BoundsAssumption DEF Init, L!Init, BoardInv, TablesInv, NewestInv, SweptInv

\* A report that arrives leaves the reports already stored as they are.
LEMMA ArriveInv ==
  ASSUME BoardInv, NEW i \in Ids, NEW row \in L!Row, Arrive(i, row)
  PROVE  BoardInv'
<1>1. /\ ledger[i] = None /\ ledger' = [ledger EXCEPT ![i] = row]
      /\ newest' \in [Producers -> Ids \cup {None}]
      /\ \A p \in Producers : L!IsNewest(ledger', p, newest'[p])
      /\ UNCHANGED <<now, swept, mutes, retired>>
  BY DEF Arrive, L!Store
<1>2. TablesInv'
  BY <1>1 DEF BoardInv, TablesInv
<1>3. NewestInv'
  <2> SUFFICES ASSUME NEW p \in Producers, newest'[p] # None
               PROVE  /\ newest'[p] \in Ids /\ ledger'[newest'[p]] \in L!Row
                      /\ ledger'[newest'[p]].prod = p
    BY DEF NewestInv
  <2>1. newest'[p] \in L!Of(ledger', p)
    BY <1>1 DEF L!IsNewest
  <2> QED BY <2>1, <1>2 DEF L!Of, TablesInv
<1>4. SweptInv'
  <2> SUFFICES ASSUME NEW k \in swept
               PROVE  k \in Ids /\ ledger'[k] \in L!Row /\ ledger'[k].at < now - CheckDays
    BY <1>1 DEF SweptInv
  <2>1. k \in Ids /\ ledger[k] \in L!Row /\ ledger[k].at < now - CheckDays
    BY DEF BoardInv, SweptInv
  <2>2. ledger'[k] = ledger[k] \/ k = i
    BY <1>1, <2>1 DEF BoardInv, TablesInv
  <2>3. CASE k = i
    <3>1. ledger'[k] = row /\ row.at \in Nat
      BY <1>1, <2>1, <2>3, RowAt DEF BoardInv, TablesInv
    <3>2. None \in L!Row
      BY <1>1, <2>1, <2>3
    <3> QED BY <3>2, RowAssumption
  <2> QED BY <2>1, <2>2, <2>3
<1> QED BY <1>2, <1>3, <1>4 DEF BoardInv

LEMMA BoardNext == BoardInv /\ [Next]_vars => BoardInv'
<1> SUFFICES ASSUME BoardInv, [Next]_vars PROVE BoardInv'
  OBVIOUS
<1> USE DEF BoardInv, TablesInv, NewestInv
<1>1. CASE Tick
  <2>1. /\ UNCHANGED <<ledger, newest, swept, mutes, retired>> /\ now' = now + 1
    BY <1>1 DEF Tick, stored
  <2>3. now' \in 0..MaxTime
    BY <1>1, BoundsAssumption DEF Tick
  <2>2. SweptInv'
    BY <2>1, RowAt, BoundsAssumption DEF SweptInv
  <2> QED BY <2>1, <2>2, <2>3
<1>2. ASSUME NEW i \in Ids, NEW row \in L!Row, Arrive(i, row) PROVE BoardInv'
  BY <1>2, ArriveInv
<1>3. CASE Sweep
  <2>1. UNCHANGED <<now, ledger, newest, mutes, retired>>
    BY <1>3 DEF Sweep, stored
  <2>2. SweptInv'
    BY <1>3, <2>1 DEF Sweep, SweptInv
  <2> QED BY <2>1, <2>2
<1>4. ASSUME NEW m \in MuteIds, NEW p \in Producers, NEW l \in Labels, NEW ttl \in Ttls,
             CreateMute(m, p, l, ttl)
      PROVE  BoardInv'
  BY <1>4 DEF CreateMute, stored, SweptInv
<1>5. ASSUME NEW m \in MuteIds, DeleteMute(m) PROVE BoardInv'
  BY <1>5 DEF DeleteMute, stored, SweptInv
<1>6. ASSUME NEW p \in Retirable, Retire(p) \/ Unretire(p) PROVE BoardInv'
  <2>1. UNCHANGED <<now, ledger, newest, swept, mutes>>
    BY <1>6 DEF Retire, Unretire, stored
  <2>2. retired' \in [Producers -> Times \cup {None}]
    BY <1>6, BoundsAssumption DEF Retire, Unretire, Times
  <2> QED BY <2>1, <2>2 DEF SweptInv
<1>7. CASE UNCHANGED vars
  BY <1>7 DEF vars, stored, SweptInv
<1> QED BY <1>1, <1>2, <1>3, <1>4, <1>5, <1>6, <1>7 DEF Next

THEOREM BoardIsInvariant == Spec => []BoardInv
  BY BoardInit, BoardNext, PTL DEF Spec

\* The reports under the views are a NewestLedger, which ReportStore implements:
\* they change only as a report arrives, whole, and nothing that the overlays,
\* the clock or the sweep of check rows do touches them (repo.rs:341-799).
THEOREM BoardIsOnALedger == Spec => L!Spec
<1>1. Init => L!Init
  BY DEF Init
<1>2. [Next]_vars => [L!Next]_(L!vars)
  <2> SUFFICES ASSUME [Next]_vars PROVE [L!Next]_(L!vars)
    OBVIOUS
  <2>1. ASSUME NEW i \in Ids, NEW row \in L!Row, Arrive(i, row) PROVE L!Next
    BY <2>1 DEF Arrive, L!Next
  <2>2. CASE UNCHANGED stored
    BY <2>2 DEF stored, L!vars
  <2> QED BY <2>1, <2>2 DEF Next, vars, Tick, Sweep, CreateMute, DeleteMute, Retire, Unretire
<1> QED BY <1>1, <1>2, PTL DEF Spec, L!Spec

-----------------------------------------------------------------------------
(* What the view lists.                                                    *)

LEMMA TileIs ==
  ASSUME NEW p \in Producers
  PROVE  /\ Tile(p).prod = p /\ Tile(p).at = ledger[newest[p]].at
         /\ Tile(p).freshness = Freshness(now - ledger[newest[p]].at, Interval[newest[p]])
  BY DEF Tile

LEMMA StaleIs ==
  ASSUME NEW p
  PROVE  p \in View.stale <=>
           /\ p \in Producers /\ newest[p] # None
           /\ retired[p] = None /\ Tile(p).freshness # "fresh"
<1>1. View.stale = {t.prod : t \in {u \in Overview : retired[u.prod] = None
                                                       /\ u.freshness # "fresh"}}
  BY DEF View, Assemble
<1>2. ASSUME p \in Producers, newest[p] # None, retired[p] = None, Tile(p).freshness # "fresh"
      PROVE  p \in View.stale
  <2>1. Tile(p) \in Overview
    BY <1>2 DEF Overview
  <2>2. Tile(p) \in {u \in Overview : retired[u.prod] = None /\ u.freshness # "fresh"}
    BY <1>2, <2>1, TileIs
  <2> QED BY <1>1, <1>2, <2>2, TileIs
<1>3. ASSUME p \in View.stale
      PROVE  /\ p \in Producers /\ newest[p] # None
             /\ retired[p] = None /\ Tile(p).freshness # "fresh"
  <2>1. PICK t \in Overview : t.prod = p /\ retired[t.prod] = None /\ t.freshness # "fresh"
    BY <1>1, <1>3
  <2>2. PICK q \in Producers : newest[q] # None /\ t = Tile(q)
    BY <2>1 DEF Overview
  <2> QED BY <2>1, <2>2, TileIs
<1> QED BY <1>2, <1>3

LEMMA ReturnedIs ==
  ASSUME NEW p
  PROVE  p \in View.returned <=>
           /\ p \in Producers /\ newest[p] # None
           /\ retired[p] # None /\ ledger[newest[p]].at > retired[p]
<1>1. View.returned = {t.prod : t \in {u \in Overview : retired[u.prod] # None
                                                          /\ u.at > retired[u.prod]}}
  BY DEF View, Assemble
<1>2. ASSUME p \in Producers, newest[p] # None, retired[p] # None,
             ledger[newest[p]].at > retired[p]
      PROVE  p \in View.returned
  <2>1. Tile(p) \in Overview
    BY <1>2 DEF Overview
  <2>2. Tile(p) \in {u \in Overview : retired[u.prod] # None /\ u.at > retired[u.prod]}
    BY <1>2, <2>1, TileIs
  <2> QED BY <1>1, <1>2, <2>2, TileIs
<1>3. ASSUME p \in View.returned
      PROVE  /\ p \in Producers /\ newest[p] # None
             /\ retired[p] # None /\ ledger[newest[p]].at > retired[p]
  <2>1. PICK t \in Overview : t.prod = p /\ retired[t.prod] # None /\ t.at > retired[t.prod]
    BY <1>1, <1>3
  <2>2. PICK q \in Producers : newest[q] # None /\ t = Tile(q)
    BY <2>1 DEF Overview
  <2> QED BY <2>1, <2>2, TileIs
<1> QED BY <1>2, <1>3

\* A fail or warn row the database still has is listed, muted or not.
LEMMA RowsAreListed ==
  ASSUME NEW p \in Producers, newest[p] # None, newest[p] \notin swept,
         NEW l \in L!Failing(ledger[newest[p]].checks)
  PROVE  \E r \in View.checks \cup View.muted : r.prod = p /\ r.label = l
<1>1. PICK c \in ledger[newest[p]].checks : c.verdict \in {"fail", "warn"} /\ c.label = l
  BY DEF L!Failing
<1>2. c \in CheckRows(newest[p])
  BY <1>1 DEF CheckRows
<1> DEFINE r == [prod |-> p, label |-> c.label, verdict |-> c.verdict,
                 confirmed |-> \/ open[p][c.label] = None
                               \/ open[p][c.label] < ledger[newest[p]].at]
<1> DEFINE RowsOf(q) ==
      {[prod |-> q, label |-> d.label, verdict |-> d.verdict,
        confirmed |-> open[q][d.label] = None \/ open[q][d.label] < ledger[newest[q]].at] :
          d \in {e \in CheckRows(newest[q]) : e.verdict \in {"fail", "warn"}}}
<1>3. r \in ProblemRows
  <2>1. c \in {e \in CheckRows(newest[p]) : e.verdict \in {"fail", "warn"}}
    BY <1>1, <1>2, Zenon
  <2>2. r \in RowsOf(p)
    BY <2>1, Zenon
  <2>3. p \in {q \in Producers : newest[q] # None}
    OBVIOUS
  <2>4. ProblemRows = UNION {RowsOf(q) : q \in {k \in Producers : newest[k] # None}}
    BY Zenon DEF ProblemRows
  <2>5. RowsOf(p) \in {RowsOf(q) : q \in {k \in Producers : newest[k] # None}}
    BY <2>3, Zenon
  <2> HIDE DEF RowsOf, r
  <2> QED BY <2>2, <2>4, <2>5, Zenon
<1>4. View.checks \cup View.muted = ProblemRows
  BY DEF View, Assemble
<1>5. r.prod = p /\ r.label = l
  BY <1>1
<1> QED BY <1>3, <1>4, <1>5

\* Rows outlive freshness: a swept report is no longer fresh.
LEMMA SweptIsStale ==
  ASSUME BoardInv, NEW p \in Producers, newest[p] # None, newest[p] \in swept
  PROVE  Tile(p).freshness # "fresh"
<1> DEFINE i == newest[p]
           age == now - ledger[i].at
<1>1. i \in Ids /\ age \in Int /\ age > CheckDays
  BY RowAt, BoundsAssumption DEF BoardInv, NewestInv, SweptInv, TablesInv
<1>2. Every(Interval[i]) \in Nat /\ 2 * CheckDays >= 3 * Every(Interval[i])
  BY <1>1, IntervalAssumption, RetentionAssumption, NoneAssumption DEF Every
<1>3. ~(age * 2 <= Every(Interval[i]) * 3)
  BY <1>1, <1>2, BoundsAssumption
<1>4. Freshness(age, Interval[i]) # "fresh"
  BY <1>1, <1>2, <1>3 DEF Freshness
<1> QED BY <1>4, TileIs

\* Retention, mutes and staleness leave no gap for a failing label to vanish in
\* (repo.rs:473-593, retention.rs:26-33).
THEOREM NothingIsHidden == Spec => []NothingHidden
<1>1. BoardInv => NothingHidden
  <2> SUFFICES ASSUME BoardInv, NEW p \in Producers, newest[p] # None, retired[p] = None,
                      p \notin View.stale, NEW l \in L!Failing(ledger[newest[p]].checks)
               PROVE  \E r \in View.checks \cup View.muted : r.prod = p /\ r.label = l
    BY DEF NothingHidden
  <2>1. newest[p] \notin swept
    BY SweptIsStale, StaleIs
  <2> QED BY <2>1, RowsAreListed
<1> QED BY <1>1, BoardIsInvariant, PTL

\* A return stands until the producer is un-retired, whatever arrives, expires
\* or is retired again (repo.rs:638-641).
THEOREM ReturnsStand == Spec => ReturnStands
<1> DEFINE Returned(p) == /\ p \in Producers /\ newest[p] # None
                          /\ retired[p] # None /\ ledger[newest[p]].at > retired[p]
<1>1. \A p : p \in View.returned <=> Returned(p)
  BY ReturnedIs
<1>2. ASSUME BoardInv, [Next]_vars, NEW p, Returned(p), retired'[p] # None
      PROVE  Returned(p)'
  <2>1. p \in Producers /\ newest[p] \in Ids /\ ledger[newest[p]] \in L!Row
        /\ ledger[newest[p]].prod = p /\ retired[p] \in Nat
    BY <1>2, TimesAreNat DEF BoardInv, NewestInv, TablesInv
  <2>2. retired'[p] = retired[p]
    BY <1>2, <2>1 DEF Next, vars, Tick, Arrive, Sweep, CreateMute, DeleteMute, Retire, Unretire,
                      BoardInv, TablesInv
  <2>3. CASE UNCHANGED stored
    BY <1>2, <2>1, <2>2, <2>3 DEF stored
  <2>4. ASSUME NEW i \in Ids, NEW row \in L!Row, Arrive(i, row) PROVE Returned(p)'
    <3>1. /\ ledger[i] = None /\ ledger' = [ledger EXCEPT ![i] = row]
          /\ L!IsNewest(ledger', p, newest'[p])
      BY <2>1, <2>4 DEF Arrive, L!Store
    <3>2. ledger'[newest[p]] = ledger[newest[p]]
      BY <2>1, <3>1, RowAssumption DEF BoardInv, TablesInv
    <3>3. newest[p] \in L!Of(ledger', p)
      BY <2>1, <3>2, RowAssumption DEF L!Of
    <3>4. newest'[p] \in L!Of(ledger', p)
          /\ (newest'[p] = newest[p] \/ L!Later(ledger', newest'[p], newest[p]))
      BY <3>1, <3>3 DEF L!IsNewest
    <3>5. newest'[p] # None /\ ledger'[newest'[p]] \in L!Row
      BY <1>2, <3>4, ArriveInv, <2>4, NoneAssumption DEF L!Of, BoardInv, NewestInv
    <3>6. ledger'[newest'[p]].at >= ledger[newest[p]].at
      BY <2>1, <3>2, <3>4, <3>5, RowAt DEF L!Later
    <3> QED BY <1>2, <2>1, <2>2, <3>5, <3>6, RowAt
  <2>5. UNCHANGED stored \/ \E i \in Ids, row \in L!Row : Arrive(i, row)
    BY <1>2 DEF Next, vars, Tick, Sweep, CreateMute, DeleteMute, Retire, Unretire
  <2> QED BY <2>3, <2>4, <2>5
<1>3. (\A p : p \in View.returned <=> Returned(p))'
  BY <1>1, PTL
<1>4. BoardInv /\ [Next]_vars
      => [\A p \in View.returned : p \in View'.returned \/ retired'[p] = None]_vars
  BY <1>1, <1>2, <1>3
<1> QED BY <1>4, BoardIsInvariant, PTL DEF Spec, ReturnStands

-----------------------------------------------------------------------------
(* Types.                                                                  *)

\* Every mute ends, within the range of its TTL.
MuteInv ==
  /\ mutes \in [MuteIds -> Mute \cup {None}]
  /\ \A m \in MuteIds : mutes[m] # None =>
       mutes[m].expires - mutes[m].created \in MinTtl..MaxTtl

LEMMA ClampRange == ASSUME NEW ttl \in Nat PROVE Clamp(ttl) \in MinTtl..MaxTtl
  BY TtlAssumption DEF Clamp

LEMMA MuteNext == BoardInv /\ MuteInv /\ [Next]_vars => MuteInv'
<1> SUFFICES ASSUME BoardInv, MuteInv, [Next]_vars PROVE MuteInv'
  OBVIOUS
<1>1. ASSUME NEW m \in MuteIds, NEW p \in Producers, NEW l \in Labels, NEW ttl \in Ttls,
             CreateMute(m, p, l, ttl)
      PROVE  MuteInv'
  <2> DEFINE mute == [prod |-> p, label |-> l, created |-> now, expires |-> now + Clamp(ttl)]
  <2>1. Clamp(ttl) \in MinTtl..MaxTtl /\ now \in Nat /\ now \in Times
    BY ClampRange, TtlAssumption, BoundsAssumption DEF BoardInv, TablesInv, Times
  <2>2. mute \in Mute
    BY <2>1, TtlAssumption DEF Mute
  <2>3. mute.expires - mute.created \in MinTtl..MaxTtl
    BY <2>1, TtlAssumption
  <2>4. mutes' = [mutes EXCEPT ![m] = mute]
    BY <1>1 DEF CreateMute
  <2> QED BY <2>2, <2>3, <2>4 DEF MuteInv
<1>2. ASSUME NEW m \in MuteIds, DeleteMute(m) PROVE MuteInv'
  BY <1>2 DEF DeleteMute, MuteInv
<1>3. CASE UNCHANGED mutes
  BY <1>3 DEF MuteInv
<1> QED BY <1>1, <1>2, <1>3 DEF Next, vars, Tick, Arrive, Sweep, Retire, Unretire

\* The type invariant, with every mute's end in range, for any TTL asked for.
THEOREM BoardTypes == Spec => []TypeOK
<1>1. Init => MuteInv
  BY DEF Init, MuteInv
<1>2. BoardInv /\ MuteInv => TypeOK
  BY RowAssumption DEF BoardInv, TablesInv, SweptInv, MuteInv, TypeOK
<1> QED BY <1>1, <1>2, MuteNext, BoardIsInvariant, PTL DEF Spec

\* The clock ticks several times in the shortest mute's life, as seconds do in
\* an hour.
FineClock == 4 <= MinTtl /\ 1 <= LapseCap

\* No mute lapses unannounced (repo.rs:555-566), whatever it was asked to last.
THEOREM LapsesAreAnnounced == FineClock => (Spec => LapseIsAnnounced)
<1> SUFFICES ASSUME FineClock PROVE Spec => LapseIsAnnounced
  OBVIOUS
<1>1. BoardInv /\ MuteInv /\ [Next]_vars
      => [\A m \in Live(mutes) :
            mutes'[m] = mutes[m] /\ mutes[m].expires <= now' => mutes[m] \in View.lapsing]_vars
  <2> SUFFICES ASSUME BoardInv, MuteInv, [Next]_vars, NEW m \in Live(mutes),
                      mutes[m].expires <= now'
               PROVE  mutes[m] \in View.lapsing
    OBVIOUS
  <2>1. m \in MuteIds /\ mutes[m] # None /\ mutes[m].expires > now
    BY DEF Live
  <2>2. /\ now \in Nat /\ mutes[m].expires \in Nat /\ mutes[m].created \in Nat
        /\ mutes[m].expires - mutes[m].created >= MinTtl
    <3>1. mutes[m] \in Mute /\ mutes[m].expires - mutes[m].created \in MinTtl..MaxTtl
      BY <2>1 DEF MuteInv
    <3>2. mutes[m].expires \in Nat /\ mutes[m].created \in Nat
      BY <3>1, TimesAreNat DEF Mute
    <3>3. now \in Nat
      BY BoundsAssumption DEF BoardInv, TablesInv
    <3> QED BY <3>1, <3>2, <3>3, TtlAssumption
  <2>3. now' = now \/ now' = now + 1
    BY DEF Next, vars, Tick, Arrive, Sweep, CreateMute, DeleteMute, Retire, Unretire
  <2>4. mutes[m].expires - now = 1
    BY <2>1, <2>2, <2>3
  <2>5. IsLapsing(mutes[m])
    BY <2>2, <2>4, TtlAssumption DEF FineClock, IsLapsing
  <2>6. View.lapsing = {k \in {mutes[j] : j \in Live(mutes)} : IsLapsing(k)}
    BY DEF View, Assemble
  <2> QED BY <2>5, <2>6
<1>2. Init => MuteInv
  BY DEF Init, MuteInv
<1> QED BY <1>1, <1>2, MuteNext, BoardIsInvariant, PTL DEF Spec, LapseIsAnnounced

-----------------------------------------------------------------------------
(* Tiles.                                                                  *)

\* The checks of report i with a verdict, and what the join of them with the
\* live mutes returns.
Rows(i, verdict) == {c \in CheckRows(i) : c.verdict = verdict}
Hits(i, verdict) ==
  {hit \in CheckRows(i) \X Live(mutes) :
     /\ hit[1].verdict = verdict
     /\ Covers(mutes[hit[2]], ledger[i].prod, hit[1].label)}

\* Without overlaps the join returns each muted check once.
LEMMA JoinIsInjective ==
  ASSUME NEW i, NEW v, IsFiniteSet(CheckRows(i)), ~Overlapping
  PROVE  /\ Count(LiveChecks(i), v) \in Nat /\ MutedCount(i, v) \in Nat
         /\ Count(CheckRows(i), v) = MutedCount(i, v) + Count(LiveChecks(i), v)
<1> DEFINE R == Rows(i, v)
           V == {c \in LiveChecks(i) : c.verdict = v}
           H == Hits(i, v)
           f == [hit \in H |-> hit[1]]
<1>1. V \subseteq R /\ IsFiniteSet(R)
  <2>1. R \subseteq CheckRows(i)
    BY DEF Rows
  <2>2. V \subseteq R
    BY DEF Rows, LiveChecks
  <2> QED BY <2>1, <2>2, FS_Subset
<1>2. f \in Bijection(H, R \ V)
  <2>1. ASSUME NEW hit \in H PROVE hit[1] \in R \ V
    <3>1. /\ hit[1] \in CheckRows(i) /\ hit[2] \in Live(mutes) /\ hit[1].verdict = v
          /\ Covers(mutes[hit[2]], ledger[i].prod, hit[1].label)
      BY DEF Hits
    <3> QED BY <3>1 DEF Rows, LiveChecks
  <2>2. ASSUME NEW a \in H, NEW b \in H, a[1] = b[1] PROVE a = b
    <3>1. /\ a = <<a[1], a[2]>> /\ b = <<b[1], b[2]>>
          /\ a[2] \in Live(mutes) /\ b[2] \in Live(mutes)
          /\ Covers(mutes[a[2]], ledger[i].prod, a[1].label)
          /\ Covers(mutes[b[2]], ledger[i].prod, b[1].label)
      BY DEF Hits
    <3>2. Covers(mutes[b[2]], mutes[a[2]].prod, mutes[a[2]].label)
      BY <2>2, <3>1 DEF Covers
    <3> QED BY <2>2, <3>1, <3>2 DEF Overlapping
  <2>3. ASSUME NEW c \in R \ V PROVE \E hit \in H : f[hit] = c
    <3>1. c \in CheckRows(i) /\ c.verdict = v
      BY DEF Rows
    <3>2. PICK m \in Live(mutes) : Covers(mutes[m], ledger[i].prod, c.label)
      BY <3>1 DEF LiveChecks
    <3>3. <<c, m>> \in H /\ <<c, m>>[1] = c
      BY <3>1, <3>2 DEF Hits
    <3> QED BY <3>3
  <2> HIDE DEF H, R, V
  <2>4. f \in [H -> R \ V] /\ IsInjective(f)
    BY <2>1, <2>2 DEF IsInjective
  <2> QED BY <2>3, <2>4 DEF Bijection, Injection, Surjection
<1>3. MutedCount(i, v) = Cardinality(H) /\ Count(LiveChecks(i), v) = Cardinality(V)
      /\ Count(CheckRows(i), v) = Cardinality(R)
  BY DEF MutedCount, Hits, Count, Rows
<1> HIDE DEF R, V, H, f
<1>4. IsFiniteSet(V) /\ IsFiniteSet(R \ V)
  BY <1>1, FS_Subset
<1>5. Cardinality(R \ V) = Cardinality(H)
  <2>1. ExistsBijection(R \ V, H)
    BY <1>2, Fun_ExistsBijSymmetric DEF ExistsBijection
  <2> QED BY <1>4, <2>1, FS_Bijection
<1>6. Cardinality(R) = Cardinality(R \ V) + Cardinality(V)
  <2>1. Cardinality(R \ V) = Cardinality(R) - Cardinality(R \cap V) /\ R \cap V = V
    BY <1>1, FS_Difference
  <2>2. Cardinality(R) \in Nat /\ Cardinality(V) \in Nat
    BY <1>1, <1>4, FS_CardinalityType
  <2> QED BY <2>1, <2>2
<1>7. Cardinality(V) \in Nat /\ Cardinality(R \ V) \in Nat
  BY <1>4, FS_CardinalityType
<1> QED BY <1>3, <1>5, <1>6, <1>7

\* A tile is red exactly when a failing check of the newest report is unmuted
\* (repo.rs:420-470), as long as no two live mutes cover the same check.
THEOREM TilesAreTrue == Spec => []TileIsTrueUnlessOverlapping
<1>1. BoardInv => TileIsTrueUnlessOverlapping
  <2> SUFFICES ASSUME BoardInv, ~Overlapping, NEW p \in Producers,
                      newest[p] # None, newest[p] \notin swept
               PROVE  (Tile(p).worst = "fail") = (Count(LiveChecks(newest[p]), "fail") > 0)
    BY DEF TileIsTrueUnlessOverlapping, TileIsTrue
  <2> DEFINE i == newest[p]
             n == Count(LiveChecks(i), "fail")
             fail == SaturatingSub(Count(ledger[i].checks, "fail"), MutedCount(i, "fail"))
  <2>1. CheckRows(i) = ledger[i].checks /\ IsFiniteSet(CheckRows(i))
    BY ListsAssumption DEF CheckRows, BoardInv, NewestInv, L!Row
  <2>2. /\ n \in Nat /\ MutedCount(i, "fail") \in Nat
        /\ Count(ledger[i].checks, "fail") = MutedCount(i, "fail") + n
    BY <2>1, JoinIsInjective
  <2>3. fail = n
    BY <2>2 DEF SaturatingSub
  <2>4. \E warn, pass : Tile(p).worst = WorstOf(fail, warn, pass)
    BY DEF Tile
  <2> HIDE DEF n, fail
  <2>5. Tile(p).worst = "fail" <=> n > 0
    BY <2>2, <2>3, <2>4 DEF WorstOf
  <2> QED BY <2>5 DEF n
<1> QED BY <1>1, BoardIsInvariant, PTL

-----------------------------------------------------------------------------
(* The reader.                                                             *)

\* The row that ProblemRows has for check c of producer p's newest report.
RowOf(p, c) ==
  [prod |-> p, label |-> c.label, verdict |-> c.verdict,
   confirmed |-> open[p][c.label] = None \/ open[p][c.label] < ledger[newest[p]].at]

\* The checks behind the rows of producer p.
Failures(p) == {c \in CheckRows(newest[p]) : c.verdict \in {"fail", "warn"}}

LEMMA RowsAre ==
  ProblemRows = UNION {{RowOf(p, c) : c \in Failures(p)} : p \in {q \in Producers : newest[q] # None}}
  BY Zenon DEF ProblemRows, RowOf, Failures

\* p has a row among rows that no mute in live covers.
ShownIn(p, rows, live) ==
  \E r \in rows : r.prod = p /\ ~\E m \in live : Covers(m, r.prod, r.label)

\* In trouble whatever becomes of its rows and of the mutes.
Lasting == View.stale \cup View.returned

\* What a reader that nothing disturbed still knows, query by query.
CalmInv ==
  pc # "idle" /\ calm =>
    /\ pc \in {"rows", "mutes", "retirements"}
    /\ pc = "rows" => ProblemRows \subseteq seen.rows
    /\ pc # "rows" => \A p \in wrong : ShownIn(p, seen.rows, seen.live) \/ p \in Lasting
    /\ pc = "retirements" => seen.gone = retired

LEMMA TroubleIs ==
  ASSUME NEW rows, NEW live, NEW gone, NEW tiles, NEW p
  PROVE  p \in Trouble(Assemble(rows, live, gone, tiles)) <=>
           \/ ShownIn(p, rows, live)
           \/ p \in Assemble(rows, live, gone, tiles).stale
           \/ p \in Assemble(rows, live, gone, tiles).returned
  BY DEF Trouble, Assemble, ShownIn

\* Without reports, rows only go, and the stale and the returned stay.
Still ==
  /\ UNCHANGED <<ledger, newest, open, retired>>
  /\ swept \subseteq swept' /\ now' \in {now, now + 1}

LEMMA StillRows == Still => ProblemRows' \subseteq ProblemRows
<1>1. ProblemRows' = UNION {{RowOf(p, c)' : c \in Failures(p)'}
                              : p \in {q \in Producers : newest'[q] # None}}
  BY Zenon DEF ProblemRows, RowOf, Failures
<1> SUFFICES ASSUME Still, NEW r \in ProblemRows' PROVE r \in ProblemRows
  OBVIOUS
<1>2. PICK p \in Producers : newest'[p] # None /\ r \in {RowOf(p, c)' : c \in Failures(p)'}
  BY <1>1
<1>3. PICK c \in Failures(p)' : r = RowOf(p, c)'
  BY <1>2
<1>4. RowOf(p, c)' = RowOf(p, c) /\ newest[p] # None
  BY <1>2 DEF RowOf, Still
<1>5. c \in Failures(p)
  BY <1>3 DEF Failures, CheckRows, Still
<1> QED BY <1>2, <1>3, <1>4, <1>5, RowsAre

LEMMA StillTrouble == BoardInv /\ Still => Lasting \subseteq Lasting'
<1> DEFINE StaleIff ==
      \A q : q \in View.stale <=>
        /\ q \in Producers /\ newest[q] # None
        /\ retired[q] = None /\ Tile(q).freshness # "fresh"
    ReturnedIff ==
      \A q : q \in View.returned <=>
        /\ q \in Producers /\ newest[q] # None
        /\ retired[q] # None /\ ledger[newest[q]].at > retired[q]
<1>a. StaleIff
  BY StaleIs
<1>b. ReturnedIff
  BY ReturnedIs
<1>1. StaleIff'
  BY <1>a, PTL
<1>2. ReturnedIff'
  BY <1>b, PTL
<1> SUFFICES ASSUME BoardInv, Still, NEW p \in Lasting PROVE p \in Lasting'
  OBVIOUS
<1>3. CASE p \in View.returned
  BY <1>2, <1>3, ReturnedIs DEF Still, Lasting
<1>4. CASE p \in View.stale
  <2>1. /\ p \in Producers /\ newest[p] # None /\ retired[p] = None
        /\ Tile(p).freshness # "fresh"
    BY <1>4, StaleIs
  <2> DEFINE i == newest[p]
             age == now - ledger[i].at
             later == now' - ledger[i].at
  <2>2. age \in Int /\ later \in Int /\ age <= later /\ i \in Ids
    BY <2>1, RowAt, BoundsAssumption DEF BoardInv, NewestInv, TablesInv, Still
  <2>3. Every(Interval[i]) \in Nat
    BY <2>2, IntervalAssumption, NoneAssumption DEF Every
  <2>4. Freshness(age, Interval[i]) # "fresh" => Freshness(later, Interval[i]) # "fresh"
    BY <2>2, <2>3 DEF Freshness
  <2>5. Tile(p).freshness = Freshness(age, Interval[i])
    BY <2>1, TileIs
  <2>6. (Tile(p).freshness)' = Freshness(later, Interval[i])
    BY DEF Tile, Still
  <2> QED BY <1>1, <2>1, <2>4, <2>5, <2>6 DEF Still, Lasting
<1> QED BY <1>3, <1>4 DEF Lasting

\* A step between the queries of a calm read.
LEMMA CalmIsStill ==
  ASSUME BoardInv, ReaderNext, calm', pc # "idle", pc' # "idle"
  PROVE  calm /\ Still
<1>1. calm /\ UNCHANGED <<ledger, retired>>
  BY DEF ReaderNext, Witness
<1>2. CASE UNCHANGED vars
  BY <1>1, <1>2 DEF vars, stored, Still
<1>3. ASSUME NEW i \in Ids, NEW row \in L!Row PROVE ~Arrive(i, row)
  <2> SUFFICES ASSUME Arrive(i, row) PROVE FALSE
    OBVIOUS
  <2>1. ledger[i] = None /\ ledger' = [ledger EXCEPT ![i] = row]
    BY DEF Arrive, L!Store
  <2> QED BY <1>1, <2>1, RowAssumption DEF BoardInv, TablesInv
<1>4. CASE Next
  BY <1>1, <1>3, <1>4 DEF Next, Tick, Sweep, CreateMute, DeleteMute, Retire, Unretire,
                         stored, Still
<1>5. Next \/ UNCHANGED vars
  BY DEF ReaderNext, ReadStep, ReadRows, ReadMutes, ReadRetirements, ReadOverview
<1> QED BY <1>2, <1>4, <1>5

\* Reading changes nothing: whatever holds of the board at every instant, the
\* theorems above included, holds between the queries of a read as well.
THEOREM ReadsOnly == ReaderSpec => Spec
<1>1. ReaderInit => Init
  BY DEF ReaderInit
<1>2. [ReaderNext]_readerVars => [Next]_vars
  BY DEF ReaderNext, readerVars, vars, ReadStep, ReadRows, ReadMutes, ReadRetirements, ReadOverview
<1> QED BY <1>1, <1>2, PTL DEF ReaderSpec, Spec

LEMMA CalmStep == BoardInv /\ CalmInv /\ [ReaderNext]_readerVars => CalmInv'
<1> DEFINE Split == \A p \in Trouble(View) :
                      ShownIn(p, ProblemRows, {mutes[m] : m \in Live(mutes)}) \/ p \in Lasting
<1>1. Split
  BY TroubleIs DEF View, Lasting
<1>2. Split'
  BY <1>1, PTL
<1> HIDE DEF Split
<1> SUFFICES ASSUME BoardInv, CalmInv, [ReaderNext]_readerVars, calm', pc' # "idle"
             PROVE  CalmInv'
  BY DEF CalmInv
\* A step of the reader's surroundings, or none.
<1>3. ASSUME pc # "idle", calm, Still, UNCHANGED seen, pc' = pc, wrong' \subseteq wrong
      PROVE  CalmInv'
  <2>1. pc = "rows" => ProblemRows' \subseteq seen'.rows
    BY <1>3, StillRows DEF CalmInv
  <2>2. ASSUME pc # "rows", NEW p \in wrong' PROVE ShownIn(p, seen'.rows, seen'.live) \/ p \in Lasting'
    BY <1>3, <2>2, StillTrouble DEF CalmInv
  <2>3. pc = "retirements" => seen'.gone = retired'
    BY <1>3 DEF CalmInv, Still
  <2> QED BY <1>3, <2>1, <2>2, <2>3 DEF CalmInv, ShownIn
<1>4. CASE UNCHANGED readerVars
  <2>1. pc # "idle" /\ calm /\ Still
    BY <1>4 DEF readerVars, vars, stored, Still
  <2> QED BY <1>3, <1>4, <2>1 DEF readerVars
<1>5. CASE ReaderNext /\ pc = "idle"
  <2>1. pc' = "rows" /\ seen' = [rows |-> ProblemRows] /\ UNCHANGED vars
    BY <1>5 DEF ReaderNext, ReadStep, ReadRows, ReadMutes, ReadRetirements, ReadOverview, reader
  <2>2. ProblemRows' \subseteq ProblemRows
    BY <2>1, StillRows DEF Still, vars, stored
  <2> QED BY <2>1, <2>2 DEF CalmInv
<1>6. CASE ReaderNext /\ pc # "idle"
  <2>1. /\ calm /\ Still
        /\ wrong' \subseteq wrong /\ wrong' \subseteq Trouble(View)'
    BY <1>6, CalmIsStill DEF ReaderNext, Witness
  <2>2. CASE UNCHANGED reader
    BY <1>3, <1>6, <2>1, <2>2 DEF reader
  <2>3. CASE ReadMutes
    <3>1. /\ pc = "rows" /\ pc' = "mutes" /\ UNCHANGED vars
          /\ seen'.rows = seen.rows /\ seen'.live = {mutes[m] : m \in Live(mutes)}
      BY <2>3 DEF ReadMutes
    <3>2. ProblemRows' \subseteq seen'.rows
      BY <2>1, <3>1, StillRows DEF CalmInv
    <3>3. {mutes'[m] : m \in Live(mutes)'} = seen'.live
      BY <3>1 DEF vars, Live
    <3>4. ASSUME NEW p \in wrong' PROVE ShownIn(p, seen'.rows, seen'.live) \/ p \in Lasting'
      <4>1. ShownIn(p, ProblemRows', {mutes'[m] : m \in Live(mutes)'}) \/ p \in Lasting'
        BY <1>2, <2>1 DEF Split, ShownIn
      <4> QED BY <3>2, <3>3, <4>1 DEF ShownIn
    <3> QED BY <3>1, <3>4 DEF CalmInv, ShownIn
  <2>4. CASE ReadRetirements
    <3>1. /\ pc = "mutes" /\ pc' = "retirements" /\ UNCHANGED vars
          /\ seen'.rows = seen.rows /\ seen'.live = seen.live /\ seen'.gone = retired
      BY <2>4 DEF ReadRetirements
    <3>2. ASSUME NEW p \in wrong' PROVE ShownIn(p, seen'.rows, seen'.live) \/ p \in Lasting'
      BY <1>6, <2>1, <3>1, StillTrouble DEF CalmInv
    <3> QED BY <3>1, <3>2 DEF CalmInv, ShownIn, vars
  <2>5. ~ReadRows /\ ~ReadOverview
    BY <1>6 DEF ReadRows, ReadOverview
  <2> QED BY <1>6, <2>2, <2>3, <2>4, <2>5 DEF ReaderNext, ReadStep
<1> QED BY <1>4, <1>5, <1>6

\* The four queries of an answer, at four instants, miss no producer that is in
\* trouble throughout, whatever mutes, sweeps and the clock do in between, as
\* long as no report arrives and no retirement changes (repo.rs:473-593).
THEOREM CalmReadsShowTrouble == ReaderSpec => []CalmTroubleIsShown
<1>1. ReaderInit => BoardInv /\ CalmInv
  BY BoardInit DEF ReaderInit, CalmInv
<1>2. ReaderSpec => []BoardInv
  BY ReadsOnly, BoardIsInvariant, PTL
<1>3. CalmInv => CalmTroubleIsShown
  <2> SUFFICES ASSUME CalmInv, pc = "retirements", calm, NEW p \in wrong
               PROVE  p \in Trouble(Answer)
    BY DEF CalmTroubleIsShown
  <2>1. seen.gone = retired /\ (ShownIn(p, seen.rows, seen.live) \/ p \in Lasting)
    BY DEF CalmInv
  <2>2. /\ View.stale = Assemble(seen.rows, seen.live, seen.gone, Overview).stale
        /\ View.returned = Assemble(seen.rows, seen.live, seen.gone, Overview).returned
    BY <2>1 DEF View, Assemble
  <2> QED BY <2>1, <2>2, TroubleIs DEF Answer, Lasting
<1> QED BY <1>1, <1>2, <1>3, CalmStep, PTL DEF ReaderSpec
============================================================================
