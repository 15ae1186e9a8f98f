---------------------------- MODULE UpkeepProofs ----------------------------
(***************************************************************************)
(* The watch of the retention sweep, for any periods and any number of     *)
(* pods.  Three invariants: the ranges of the clocks, where a stamp may    *)
(* lie relative to the sweeper's timer, and what the last self-report has  *)
(* seen of the stamp.                                                      *)
(***************************************************************************)
EXTENDS Upkeep, TLAPS

\* The clocks and timers of a running pod; the timers are never overdue when
\* time moves on.
ClockInv ==
  /\ now \in Nat /\ boots \in Nat
  /\ since \in Nat \cup {None}
  /\ began \in Nat \cup {None} /\ stamp \in Nat \cup {None}
  /\ completed \in Nat \cup {None}
  /\ shown = None \/ shown \in Judgement
  /\ Up => due \in Nat /\ reportDue \in Nat /\ now <= reportDue
  /\ completed # None => completed <= now
  /\ stamp # None => Up /\ completed # None /\ stamp <= completed
  /\ began # None => Up
  /\ shown # None => shown.at <= now /\ shown.pod <= boots

\* A sweep of this pod began at its tick; the last stamp is no older than the
\* tick before, unless a sweep failed.
SweepInv ==
  /\ began # None =>
       /\ began <= now /\ now <= began + MaxSweep /\ due = began + SweepEvery
       /\ ~failed /\ stamp # None => began <= stamp + SweepEvery
  /\ Up /\ began = None =>
       /\ now <= due
       /\ ~failed /\ stamp # None => due <= stamp + SweepEvery

\* A green verdict was true when it was judged, and a red one of this pod's had
\* a failure behind it.
VerdictInv ==
  /\ PassMeansSwept
  /\ QuietWhileSweeping

\* The last self-report, when it was stored, judged the stamp of its time.
ReportInv ==
  Up /\ ~lost /\ now < reportDue =>
    /\ shown # None /\ shown.at = reportDue - ReportEvery
    /\ stamp # None /\ shown.at > stamp + Allowed => shown.verdict = "fail"

UpkeepInv == ClockInv /\ SweepInv /\ VerdictInv /\ ReportInv

USE PeriodsAssumption, GraceAssumption, NoneAssumption

LEMMA UpkeepInit == Init => UpkeepInv
<1> SUFFICES ASSUME Init PROVE UpkeepInv
  OBVIOUS
<1>1. ClockInv
  BY DEF Init, ClockInv, Up
<1>2. SweepInv
  BY DEF Init, SweepInv, Up
<1>3. VerdictInv
  BY DEF Init, VerdictInv, PassMeansSwept, QuietWhileSweeping
<1>4. ReportInv
  BY DEF Init, ReportInv, Up
<1> QED BY <1>1, <1>2, <1>3, <1>4 DEF UpkeepInv

\* The judgement of a stamp (selfcheck.rs:164-182).
LEMMA Judged ==
  ASSUME NEW sweep \in Nat \cup {None}, NEW at \in Nat, NEW pod \in Nat
  PROVE  /\ [verdict |-> RetentionCheck(sweep, at), at |-> at, pod |-> pod] \in Judgement
         /\ RetentionCheck(sweep, at) = "pass" => sweep # None /\ at <= sweep + Allowed
         /\ RetentionCheck(sweep, at) = "fail" => sweep # None /\ at > sweep + Allowed
         /\ sweep # None /\ at > sweep + Allowed => RetentionCheck(sweep, at) = "fail"
  BY DEF RetentionCheck, Judgement

LEMMA ClockNext == UpkeepInv /\ [Next]_vars => ClockInv'
<1> SUFFICES ASSUME ClockInv, SweepInv, [Next]_vars PROVE ClockInv'
  BY DEF UpkeepInv
<1>1. CASE Boot
  BY <1>1 DEF Boot, ClockInv, Up
<1>2. CASE Stop
  BY <1>2 DEF Stop, ClockInv, Up
<1>3. CASE SweepBegins
  BY <1>3 DEF SweepBegins, ClockInv, Up, reporter
<1>4. CASE SweepCompletes
  BY <1>4 DEF SweepCompletes, ClockInv, Up, reporter, Judgement
<1>5. CASE SweepFails
  BY <1>5 DEF SweepFails, ClockInv, Up, reporter
<1>6. CASE Report
  <2>1. /\ shown' = [verdict |-> RetentionCheck(stamp, now), at |-> now, pod |-> boots]
        /\ reportDue' = reportDue + ReportEvery /\ lost' = FALSE
        /\ UNCHANGED <<now, boots, since, due, began, stamp, failed, completed>>
    BY <1>6 DEF Report, sweeper
  <2>2. shown' \in Judgement
    BY <2>1, Judged DEF ClockInv
  <2>3. shown'.at = now /\ shown'.pod = boots
    BY <2>1
  <2>4. Up /\ reportDue <= now
    BY <1>6 DEF Report
  <2>5. reportDue' \in Nat /\ now' <= reportDue'
    BY <2>1, <2>4 DEF ClockInv
  <2> QED BY <2>1, <2>2, <2>3, <2>4, <2>5 DEF ClockInv, Up
<1>7. CASE ReportFails
  BY <1>7 DEF ReportFails, ClockInv, Up, sweeper
<1>8. CASE Tick
  BY <1>8 DEF Tick, ClockInv, Up, sweeper, reporter, Judgement
<1>9. CASE UNCHANGED vars
  BY <1>9 DEF vars, ClockInv, Up, sweeper, reporter
<1> QED BY <1>1, <1>2, <1>3, <1>4, <1>5, <1>6, <1>7, <1>8, <1>9 DEF Next

LEMMA SweepNext == UpkeepInv /\ [Next]_vars => SweepInv'
<1> SUFFICES ASSUME ClockInv, SweepInv, [Next]_vars PROVE SweepInv'
  BY DEF UpkeepInv
<1>1. CASE Boot
  BY <1>1 DEF Boot, ClockInv, SweepInv, Up
<1>2. CASE Stop
  BY <1>2 DEF Stop, ClockInv, SweepInv, Up
<1>3. CASE SweepBegins
  BY <1>3 DEF SweepBegins, ClockInv, SweepInv, Up, reporter
<1>4. CASE SweepCompletes
  BY <1>4 DEF SweepCompletes, ClockInv, SweepInv, Up, reporter
<1>5. CASE SweepFails
  BY <1>5 DEF SweepFails, ClockInv, SweepInv, Up, reporter
<1>6. CASE Report \/ ReportFails
  BY <1>6 DEF Report, ReportFails, ClockInv, SweepInv, Up, sweeper
<1>7. CASE Tick
  BY <1>7 DEF Tick, ClockInv, SweepInv, Up, sweeper, reporter
<1>8. CASE UNCHANGED vars
  BY <1>8 DEF vars, ClockInv, SweepInv, Up, sweeper, reporter
<1> QED BY <1>1, <1>2, <1>3, <1>4, <1>5, <1>6, <1>7, <1>8 DEF Next

\* A stamp is never older than allowed while no sweep failed.
LEMMA StampIsRecent ==
  ASSUME ClockInv, SweepInv, Up, ~failed, stamp # None
  PROVE  now <= stamp + Allowed
  BY DEF ClockInv, SweepInv

LEMMA VerdictNext == UpkeepInv /\ [Next]_vars => VerdictInv'
<1> SUFFICES ASSUME ClockInv, SweepInv, VerdictInv, [Next]_vars PROVE VerdictInv'
  BY DEF UpkeepInv
<1>1. CASE Boot
  BY <1>1 DEF Boot, ClockInv, Up, VerdictInv, PassMeansSwept,
         QuietWhileSweeping
<1>2. CASE Stop
  BY <1>2 DEF Stop, ClockInv, Up, VerdictInv, PassMeansSwept,
         QuietWhileSweeping
<1>3. CASE SweepBegins
  BY <1>3 DEF SweepBegins, ClockInv, Up, VerdictInv, PassMeansSwept,
         QuietWhileSweeping, reporter
<1>4. CASE SweepCompletes
  BY <1>4 DEF SweepCompletes, ClockInv, Up, VerdictInv, PassMeansSwept,
         QuietWhileSweeping, reporter, Judgement
<1>5. CASE SweepFails
  BY <1>5 DEF SweepFails, ClockInv, Up, VerdictInv, PassMeansSwept,
         QuietWhileSweeping, reporter
<1>6. CASE Report
  <2>1. /\ shown' = [verdict |-> RetentionCheck(stamp, now), at |-> now, pod |-> boots]
        /\ UNCHANGED <<now, boots, since, stamp, failed, completed>>
    BY <1>6 DEF Report, sweeper
  <2>2. shown'.verdict = RetentionCheck(stamp, now) /\ shown'.at = now
    BY <2>1
  <2>3. PassMeansSwept'
    <3>1. shown'.verdict = "pass" => stamp # None /\ now <= stamp + Allowed
      BY <2>2, Judged DEF ClockInv
    <3>2. completed' = completed
      BY <2>1
    <3> QED BY <2>2, <3>1, <3>2 DEF ClockInv, PassMeansSwept
  <2>4. QuietWhileSweeping'
    <3>1. Up
      BY <1>6 DEF Report
    <3>2. shown'.verdict = "fail" => stamp # None /\ now > stamp + Allowed
      BY <2>2, Judged DEF ClockInv
    <3>3. ~failed => shown'.verdict # "fail"
      BY <3>1, <3>2, StampIsRecent DEF ClockInv
    <3>4. failed' = failed
      BY <2>1
    <3> QED BY <3>3, <3>4, Zenon DEF QuietWhileSweeping
  <2> QED BY <2>3, <2>4 DEF VerdictInv
<1>7. CASE ReportFails
  BY <1>7 DEF ReportFails, ClockInv, Up, VerdictInv, PassMeansSwept,
         QuietWhileSweeping, sweeper
<1>8. CASE Tick
  BY <1>8 DEF Tick, ClockInv, Up, VerdictInv, PassMeansSwept,
         QuietWhileSweeping, sweeper, reporter
<1>9. CASE UNCHANGED vars
  BY <1>9 DEF vars, ClockInv, Up, VerdictInv, PassMeansSwept,
         QuietWhileSweeping, sweeper, reporter
<1> QED BY <1>1, <1>2, <1>3, <1>4, <1>5, <1>6, <1>7, <1>8, <1>9 DEF Next

LEMMA ReportNext == UpkeepInv /\ [Next]_vars => ReportInv'
<1> SUFFICES ASSUME ClockInv, ReportInv, [Next]_vars PROVE ReportInv'
  BY DEF UpkeepInv
<1>1. CASE Boot
  BY <1>1 DEF Boot, ClockInv, ReportInv, Up
<1>2. CASE Stop
  BY <1>2 DEF Stop, ReportInv, Up
<1>3. CASE SweepBegins \/ SweepFails
  BY <1>3 DEF SweepBegins, SweepFails, ReportInv, Up, reporter
<1>4. CASE SweepCompletes
  BY <1>4 DEF SweepCompletes, ClockInv, ReportInv, Up, reporter
<1>5. CASE Report
  <2>1. /\ shown' = [verdict |-> RetentionCheck(stamp, now), at |-> now, pod |-> boots]
        /\ reportDue' = reportDue + ReportEvery
        /\ UNCHANGED <<now, boots, since, stamp, completed>> /\ Up /\ reportDue <= now
    BY <1>5 DEF Report, sweeper
  <2>2. shown' # None
    BY <2>1, Judged DEF ClockInv
  <2>3. shown'.verdict = RetentionCheck(stamp, now) /\ shown'.at = now
    BY <2>1
  <2> QED BY <2>1, <2>2, <2>3, Judged DEF ClockInv, ReportInv, Up
<1>6. CASE ReportFails
  BY <1>6 DEF ReportFails, ReportInv, Up
<1>7. CASE Tick
  BY <1>7 DEF Tick, ClockInv, ReportInv, Up, sweeper, reporter
<1>8. CASE UNCHANGED vars
  BY <1>8 DEF vars, ReportInv, Up, sweeper, reporter
<1> QED BY <1>1, <1>2, <1>3, <1>4, <1>5, <1>6, <1>7, <1>8 DEF Next

THEOREM UpkeepIsInvariant == Spec => []UpkeepInv
<1>1. UpkeepInv /\ [Next]_vars => UpkeepInv'
  BY ClockNext, SweepNext, VerdictNext, ReportNext DEF UpkeepInv
<1> QED BY <1>1, UpkeepInit, PTL DEF Spec

\* A green retention verdict is true, whatever pods were replaced, sweeps failed
\* and reports were lost since (main.rs:71-73).
THEOREM GreenIsTrue == Spec => []PassMeansSwept
  BY UpkeepIsInvariant, PTL DEF UpkeepInv, VerdictInv

\* Ordinary jitter, up to the hour of grace, never raises the alarm
\* (selfcheck.rs:174-177).
THEOREM JitterIsQuiet == Spec => []QuietWhileSweeping
  BY UpkeepIsInvariant, PTL DEF UpkeepInv, VerdictInv

\* A sweeper that swept once and stopped is named by the first self-report past
\* the grace (selfcheck.rs:174-177).
THEOREM StoppedGetsNamed == Spec => []StoppedIsNamed
<1>1. UpkeepInv => StoppedIsNamed
  BY DEF UpkeepInv, ClockInv, ReportInv, StoppedIsNamed, NamedAfter, Up
<1> QED BY <1>1, UpkeepIsInvariant, PTL
=============================================================================
