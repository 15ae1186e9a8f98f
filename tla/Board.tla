------------------------------- MODULE Board -------------------------------
(***************************************************************************)
(* The read side of fleetwatch: what GET /api/problems and /api/overview   *)
(* say, at a clock time, about the stored reports, with the two read-time  *)
(* overlays people put on them (mutes, which expire, and retirements,      *)
(* which do not) and the retention sweep that deletes old check rows.      *)
(*                                                                         *)
(* The write path is NewestLedger, which ReportStore implements: a report  *)
(* arrives whole.  View is the problems view as of one instant; BoardReader *)
(* makes it the four queries it is.                                        *)
(***************************************************************************)
EXTENDS Integers, FiniteSets

CONSTANTS
  Producers, Ids, Labels, CheckLists, None,
  MuteIds,         \* ULIDs of mutes
  Interval,        \* interval_s declared by the report with each id, or None
  DefaultInterval, \* DEFAULT_INTERVAL_S
  MinTtl, MaxTtl,  \* MUTE_TTL_HOURS
  Ttls,            \* ttl_hours as requested
  LapseCap,        \* LAPSE_WARNING
  CheckDays,       \* FLEETWATCH_CHECK_RETENTION_DAYS
  Retirable,       \* bound: the producers somebody may retire
  MaxTime,         \* bound: the clock
  Skew             \* bound: how far a producer's clock may run ahead

Times == 0..(MaxTime + Skew)

VARIABLES
  now,        \* the server's clock
  ledger, newest, open,   \* the stored reports, see NewestLedger
  swept,      \* reports whose check rows the retention sweep deleted
  mutes,      \* table mute
  retired     \* table retirement: retired_at, by producer

stored == <<ledger, newest, open>>
vars   == <<now, stored, swept, mutes, retired>>

L == INSTANCE NewestLedger

Mute == [prod: Producers, label: Labels, created: Times, expires: Nat]

\* How often the producer of a report says it runs; at least every unit.
Every(interval) == IF interval = None THEN DefaultInterval
                   ELSE IF interval < 1 THEN 1 ELSE interval

\* Check rows are kept at least as long as their report counts as fresh: 400
\* days by default, against intervals of minutes to days.
ASSUME RetentionAssumption == \A i \in Ids : 2 * CheckDays >= 3 * Every(Interval[i])
ASSUME TtlAssumption ==
  /\ MinTtl \in Nat /\ MaxTtl \in Nat /\ 0 < MinTtl /\ MinTtl <= MaxTtl
  /\ Ttls \subseteq Nat
ASSUME IntervalAssumption ==
  /\ \A i \in Ids : Interval[i] \in Nat \/ Interval[i] = None
  /\ DefaultInterval \in Nat
ASSUME ListsAssumption == \A checks \in CheckLists : IsFiniteSet(checks)
ASSUME BoundsAssumption == CheckDays \in Nat /\ MaxTime \in Nat /\ Skew \in Nat
ASSUME NoneAssumption == None \notin Ids /\ None \notin Nat /\ None \notin Mute
ASSUME RowAssumption == None \notin L!Row

-----------------------------------------------------------------------------
(* Freshness, mutes and tiles.                                             *)

\* The bands of staleness.rs: 1.5 and 3 intervals.
Freshness(age, interval) ==
  CASE age * 2 <= Every(interval) * 3 -> "fresh"
    [] age * 2 > Every(interval) * 3 /\ age <= Every(interval) * 3 -> "overdue"
    [] age > Every(interval) * 3 -> "silent"

\* Mutant: the ceiling is lost.
ClampFloor(ttl) == IF ttl < MinTtl THEN MinTtl ELSE ttl

\* ttl_hours.clamp.
Clamp(ttl) == IF ttl < MinTtl THEN MinTtl ELSE IF ttl > MaxTtl THEN MaxTtl ELSE ttl

\* list_mutes: the rows with expires_at > now.
Live(table) == {m \in MuteIds : table[m] # None /\ table[m].expires > now}

\* Mutant: a mute is announced in the first quarter of a mute's life instead of the last.
LapsingEarly(mute) == 4 * (now - mute.created) <= mute.expires - mute.created

\* The last quarter of a mute's life, capped.
IsLapsing(mute) ==
  /\ 4 * (mute.expires - now) <= mute.expires - mute.created
  /\ mute.expires - now <= LapseCap

Covers(mute, p, l) == mute.prod = p /\ mute.label = l

\* The check rows the database still has for report i.
CheckRows(i) == IF i \in swept THEN {} ELSE ledger[i].checks

Count(checks, verdict) == Cardinality({c \in checks : c.verdict = verdict})

\* Mutant: a mute on any label discounts the tile.
MutedCountLoose(i, verdict) ==
  Cardinality({hit \in CheckRows(i) \X Live(mutes) :
                 hit[1].verdict = verdict /\ mutes[hit[2]].prod = ledger[i].prod})

\* SUM(c.verdict = ...) over check rows joined with live mutes: one for every
\* pair.
MutedCount(i, verdict) ==
  Cardinality({hit \in CheckRows(i) \X Live(mutes) :
                 /\ hit[1].verdict = verdict
                 /\ Covers(mutes[hit[2]], ledger[i].prod, hit[1].label)})

SaturatingSub(a, b) == IF a > b THEN a - b ELSE 0

WorstOf(fail, warn, pass) ==
  CASE fail > 0 -> "fail"
    [] fail = 0 /\ warn > 0 -> "warn"
    [] fail = 0 /\ warn = 0 /\ pass > 0 -> "pass"
    [] OTHER -> "skip"

\* overview_entry: the tile of producer p, whose counts are those stored with
\* its newest report.
Tile(p) ==
  LET i    == newest[p]
      n(v) == Count(ledger[i].checks, v)
      fail == SaturatingSub(n("fail"), MutedCount(i, "fail"))
      warn == SaturatingSub(n("warn"), MutedCount(i, "warn"))
  IN [prod |-> p, at |-> ledger[i].at,
      freshness |-> Freshness(now - ledger[i].at, Interval[i]),
      worst |-> WorstOf(fail, warn, n("pass"))]

Overview == {Tile(p) : p \in {q \in Producers : newest[q] # None}}

\* The fail and warn rows of the newest reports, joined with problem_since.
ProblemRows ==
  UNION {{[prod |-> p, label |-> c.label, verdict |-> c.verdict,
           confirmed |-> open[p][c.label] = None \/ open[p][c.label] < ledger[newest[p]].at] :
             c \in {d \in CheckRows(newest[p]) : d.verdict \in {"fail", "warn"}}} :
         p \in {q \in Producers : newest[q] # None}}

\* Mutant: only silent producers are listed, not overdue ones.
AssembleSilentOnly(rows, live, gone, tiles) ==
  LET Covered(r) == \E m \in live : Covers(m, r.prod, r.label)
  IN [checks   |-> {r \in rows : ~Covered(r)},
      muted    |-> {r \in rows : Covered(r)},
      stale    |-> {t.prod : t \in {u \in tiles : gone[u.prod] = None /\ u.freshness = "silent"}},
      returned |-> {t.prod : t \in {u \in tiles : gone[u.prod] # None /\ u.at > gone[u.prod]}},
      lapsing  |-> {m \in live : IsLapsing(m)}]

\* problems(): the four results put together.
Assemble(rows, live, gone, tiles) ==
  LET Covered(r) == \E m \in live : Covers(m, r.prod, r.label)
  IN [checks   |-> {r \in rows : ~Covered(r)},
      muted    |-> {r \in rows : Covered(r)},
      stale    |-> {t.prod : t \in {u \in tiles : gone[u.prod] = None /\ u.freshness # "fresh"}},
      returned |-> {t.prod : t \in {u \in tiles : gone[u.prod] # None /\ u.at > gone[u.prod]}},
      lapsing  |-> {m \in live : IsLapsing(m)}]

\* The view as it would be if the four queries ran at one instant.
View == Assemble(ProblemRows, {mutes[m] : m \in Live(mutes)}, retired, Overview)

\* The producers an answer counts as in trouble (board::count).
Trouble(problems) == {r.prod : r \in problems.checks} \cup problems.stale \cup problems.returned

-----------------------------------------------------------------------------
Init ==
  /\ now = 0
  /\ L!Init
  /\ swept = {}
  /\ mutes = [m \in MuteIds |-> None]
  /\ retired = [p \in Producers |-> None]

Tick ==
  /\ now < MaxTime
  /\ now' = now + 1
  /\ UNCHANGED <<stored, swept, mutes, retired>>

\* A report is ingested; its stamp is the producer's, at most Skew ahead.
Arrive(i, row) ==
  /\ row.at <= now + Skew
  /\ L!Store(i, row)
  /\ UNCHANGED <<now, swept, mutes, retired>>

\* Mutant: the cutoff day itself is deleted too.
SweepInclusive ==
  /\ swept' = swept \cup {i \in Ids : ledger[i] # None /\ ledger[i].at <= now - CheckDays}
  /\ UNCHANGED <<now, stored, mutes, retired>>

\* retention::sweep: check rows past the cutoff go, reports and their counts
\* stay.
Sweep ==
  /\ swept' = swept \cup {i \in Ids : ledger[i] # None /\ ledger[i].at < now - CheckDays}
  /\ UNCHANGED <<now, stored, mutes, retired>>

CreateMute(m, p, l, ttl) ==
  /\ mutes[m] = None
  /\ mutes' = [mutes EXCEPT ![m] =
       [prod |-> p, label |-> l, created |-> now, expires |-> now + Clamp(ttl)]]
  /\ UNCHANGED <<now, stored, swept, retired>>

DeleteMute(m) ==
  /\ mutes[m] # None
  /\ mutes' = [mutes EXCEPT ![m] = None]
  /\ UNCHANGED <<now, stored, swept, retired>>

\* Mutant: retiring again moves retired_at.
RetireAnew(p) ==
  /\ retired' = [retired EXCEPT ![p] = now]
  /\ UNCHANGED <<now, stored, swept, mutes>>

\* Retiring again restates the reason and keeps retired_at.
Retire(p) ==
  /\ retired' = [retired EXCEPT ![p] = IF @ = None THEN now ELSE @]
  /\ UNCHANGED <<now, stored, swept, mutes>>

Unretire(p) ==
  /\ retired[p] # None
  /\ retired' = [retired EXCEPT ![p] = None]
  /\ UNCHANGED <<now, stored, swept, mutes>>

Next ==
  \/ Tick
  \/ \E i \in Ids, row \in L!Row : Arrive(i, row)
  \/ Sweep
  \/ \E m \in MuteIds, p \in Producers, l \in Labels, ttl \in Ttls : CreateMute(m, p, l, ttl)
  \/ \E m \in MuteIds : DeleteMute(m)
  \/ \E p \in Retirable : Retire(p) \/ Unretire(p)

Spec == Init /\ [][Next]_vars

-----------------------------------------------------------------------------
(* Properties.                                                             *)

\* The type invariant; and every mute ends, within the range of its TTL.
TypeOK ==
  /\ now \in 0..MaxTime
  /\ \A i \in Ids : ledger[i] = None \/ ledger[i] \in L!Row
  /\ swept \subseteq {i \in Ids : ledger[i] # None}
  /\ \A m \in MuteIds : mutes[m] # None =>
       mutes[m] \in Mute /\ mutes[m].expires - mutes[m].created \in MinTtl..MaxTtl
  /\ \A p \in Producers : retired[p] \in Times \cup {None}

\* Nothing falls between retention, mutes and staleness: a label failing in the
\* newest report of a producer that is not retired is listed, or listed as
\* muted, or its producer is listed as stale (repo.rs:473-593 with
\* retention.rs:26-33), at every instant.
NothingHidden ==
  LET view == View
      rows == view.checks \cup view.muted
  IN \A p \in Producers :
       newest[p] # None /\ retired[p] = None =>
         \/ p \in view.stale
         \/ \A l \in L!Failing(ledger[newest[p]].checks) :
              \E r \in rows : r.prod = p /\ r.label = l

\* A return is never forgiven by time, by silence or by retiring again: a
\* retired producer once listed as returned stays listed until it is un-retired
\* ("moving it forward would silently forgive a return", repo.rs:639-641).
ReturnStands ==
  [][\A p \in View.returned : p \in View'.returned \/ retired'[p] = None]_vars

\* The worst verdict the overview should show for p: that of its unmuted rows.
LiveChecks(i) ==
  {c \in CheckRows(i) : ~\E m \in Live(mutes) : Covers(mutes[m], ledger[i].prod, c.label)}

Overlapping == \E m, k \in Live(mutes) :
  m # k /\ Covers(mutes[k], mutes[m].prod, mutes[m].label)

\* A tile is red exactly when a failing check of its newest report is unmuted ("worst verdict
\* among the report's unmuted checks", types.rs:140).
TileIsTrue ==
  \A p \in Producers : newest[p] # None /\ newest[p] \notin swept =>
    (Tile(p).worst = "fail") = (Count(LiveChecks(newest[p]), "fail") > 0)

\* So it is, when no two live mutes cover one check identity.
TileIsTrueUnlessOverlapping == Overlapping \/ TileIsTrue

\* No mute runs out unannounced: one that time takes away was among the lapsing
\* mutes of the answer given the instant before (types.rs, Problems::lapsing:
\* "the expiry was knowable a week ahead").
LapseIsAnnounced ==
  [][\A m \in Live(mutes) :
       mutes'[m] = mutes[m] /\ mutes[m].expires <= now' => mutes[m] \in View.lapsing]_vars
============================================================================
