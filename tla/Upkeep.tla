------------------------------- MODULE Upkeep -------------------------------
(***************************************************************************)
(* The background tasks of a fleetwatch pod that watch each other: the     *)
(* daily retention sweep, which stamps a shared cell when it completes,    *)
(* and the self-report, which judges the stamp and stores the verdict as   *)
(* an ordinary check.  The stamp lives in the pod's memory; the last       *)
(* stored verdict is what the dashboard shows.                             *)
(***************************************************************************)
EXTENDS Integers

CONSTANTS
  SweepEvery,    \* 24 h, the sweep's interval
  Allowed,       \* 25 h, the age of a stamp the self-report allows
  ReportEvery,   \* 15 min, the self-report's interval
  MaxSweep,      \* bound: how long a sweep takes
  MaxTime,       \* bound: the clock
  MaxBoots,      \* bound: pods started
  None

VARIABLES
  now,         \* the clock
  boots,       \* pods started so far
  since,       \* when this pod started, None when there is none
  due,         \* when the sweep's interval ticks next
  began,       \* when the running sweep began, None when none runs
  stamp,       \* last_sweep: when a sweep of this pod last completed
  reportDue,   \* when the self-report's interval ticks next
  shown,       \* the last stored verdict on retention, and when it was judged
  completed,   \* when a sweep last completed, of whichever pod
  failed,      \* a sweep of this pod has failed
  lost         \* the latest self-report could not be stored

sweeper  == <<due, began, stamp, failed>>
reporter == <<reportDue, shown, lost>>
vars     == <<now, boots, since, sweeper, reporter, completed>>

ASSUME PeriodsAssumption ==
  /\ SweepEvery \in Nat \ {0} /\ ReportEvery \in Nat \ {0}
  /\ Allowed \in Nat /\ MaxSweep \in Nat
  /\ MaxTime \in Nat /\ MaxBoots \in Nat

\* A sweep takes no longer than the hour of grace, 25 h - 24 h.
ASSUME GraceAssumption == MaxSweep <= SweepEvery /\ SweepEvery + MaxSweep <= Allowed

\* What a stored self-report says of the sweeps, when, and from which pod.
Judgement == [verdict: {"pass", "fail", "skip"}, at: Nat, pod: Nat]

ASSUME NoneAssumption == None \notin Int /\ None \notin Judgement

-----------------------------------------------------------------------------
\* Mutant: no hour of grace.
RetentionCheckStrict(sweep, at) ==
  IF sweep = None THEN "skip"
  ELSE IF at - sweep >= SweepEvery THEN "fail" ELSE "pass"

\* Mutant: a stamp of any age passes.
RetentionCheckAny(sweep, at) ==
  IF sweep = None THEN "skip" ELSE IF at < sweep THEN "fail" ELSE "pass"

RetentionCheck(sweep, at) ==
  IF sweep = None THEN "skip"
  ELSE IF at - sweep > Allowed THEN "fail" ELSE "pass"

Init ==
  /\ now = 0 /\ boots = 0 /\ since = None
  /\ due = None /\ began = None /\ stamp = None
  /\ reportDue = None /\ shown = None
  /\ completed = None /\ failed = FALSE /\ lost = FALSE

Up == since # None

\* A new pod: both intervals tick at once.  (A rolling update overlaps two pods
\* for seconds; one follows the other here.)
Boot ==
  /\ ~Up /\ boots < MaxBoots
  /\ boots' = boots + 1
  /\ since' = now
  /\ due' = now /\ began' = None /\ stamp' = None /\ failed' = FALSE
  /\ reportDue' = now /\ lost' = FALSE
  /\ UNCHANGED <<now, shown, completed>>

\* The pod is replaced or dies, a running sweep with it.
Stop ==
  /\ Up
  /\ since' = None
  /\ due' = None /\ began' = None /\ stamp' = None /\ reportDue' = None
  /\ UNCHANGED <<now, boots, shown, completed, failed, lost>>

\* The interval ticks; a tick missed during a long sweep fires right after it.
SweepBegins ==
  /\ Up /\ began = None /\ due <= now
  /\ began' = now
  /\ due' = due + SweepEvery
  /\ UNCHANGED <<now, boots, since, stamp, failed, reporter, completed>>

SweepCompletes ==
  /\ Up /\ began # None
  /\ began' = None
  /\ stamp' = now /\ completed' = now
  /\ UNCHANGED <<now, boots, since, due, failed, reporter>>

\* Mutant: a failed sweep stamps too.
SweepFailsStamping ==
  /\ Up /\ began # None
  /\ began' = None /\ stamp' = now /\ failed' = TRUE
  /\ UNCHANGED <<now, boots, since, due, reporter, completed>>

\* An error leaves the stamp alone.
SweepFails ==
  /\ Up /\ began # None
  /\ began' = None /\ failed' = TRUE
  /\ UNCHANGED <<now, boots, since, due, stamp, reporter, completed>>

\* run_once: judge the stamp, ingest the report.
Report ==
  /\ Up /\ reportDue <= now
  /\ reportDue' = reportDue + ReportEvery
  /\ shown' = [verdict |-> RetentionCheck(stamp, now), at |-> now, pod |-> boots]
  /\ lost' = FALSE
  /\ UNCHANGED <<now, boots, since, sweeper, completed>>

ReportFails ==
  /\ Up /\ reportDue <= now
  /\ reportDue' = reportDue + ReportEvery
  /\ lost' = TRUE
  /\ UNCHANGED <<now, boots, since, sweeper, shown, completed>>

\* Timers fire on time, and a sweep ends within MaxSweep.
Tick ==
  /\ now < MaxTime
  /\ Up => /\ reportDue > now
           /\ (began = None => due > now)
           /\ (began # None => now - began < MaxSweep)
  /\ now' = now + 1
  /\ UNCHANGED <<boots, since, sweeper, reporter, completed>>

Next ==
  \/ Boot \/ Stop
  \/ SweepBegins \/ SweepCompletes \/ SweepFails
  \/ Report \/ ReportFails
  \/ Tick

Spec == Init /\ [][Next]_vars

-----------------------------------------------------------------------------
(* Properties.                                                             *)

Moments == 0..(MaxTime + SweepEvery + ReportEvery)

\* The type invariant, with which parts a stopped pod has none of.
TypeOK ==
  /\ now \in 0..MaxTime /\ boots \in 0..MaxBoots
  /\ IF Up
     THEN since \in 0..now /\ due \in Moments /\ reportDue \in Moments
     ELSE due = None /\ reportDue = None /\ began = None /\ stamp = None
  /\ began \in 0..now \cup {None}
  /\ stamp \in 0..now \cup {None}
  /\ completed \in 0..now \cup {None}
  /\ shown # None => shown \in Judgement /\ shown.at <= now /\ shown.pod <= boots
  /\ failed \in BOOLEAN /\ lost \in BOOLEAN

\* A green verdict is the truth: when it was judged, a sweep had completed no
\* longer ago than allowed ("moving it on a failed one would make a sweeper
\* that errors every night look healthy", main.rs:71-73).
PassMeansSwept ==
  shown # None /\ shown.verdict = "pass" =>
    completed # None /\ completed >= shown.at - Allowed

\* No false alarm: while no sweep fails, and sweeps take no longer than the
\* grace, a pod never reports a stopped sweeper ("a window at exactly 24h would
\* fire on ordinary jitter", selfcheck.rs:174-177).
QuietWhileSweeping ==
  Up /\ ~failed /\ shown # None /\ shown.pod = boots => shown.verdict # "fail"

\* What the newest self-report says of a sweeper idle for longer than allowed
\* and one report more.
NamedAfter(idleSince) ==
  Up /\ ~lost /\ now < reportDue /\ now - idleSince > Allowed + ReportEvery =>
    shown # None /\ shown.verdict = "fail"

\* A sweeper that swept once in this pod and then stopped, by failing every
\* night, is named by the first self-report past the hour of grace.
StoppedIsNamed == stamp # None => NamedAfter(stamp)

============================================================================
