------------------------------ MODULE Arrivals ------------------------------
(***************************************************************************)
(* How one producer's reports reach the store, and what the store says of  *)
(* it afterwards: the self-report's lag and churn checks, the trend of a   *)
(* label, and what the retention sweep leaves of a report.                 *)
(*                                                                         *)
(* The producer collects at most once a day into a spool, which drains     *)
(* while its uplink is up; what waited comes in late.  Its one section may *)
(* gain and lose checks, and the label of any of them may be rewritten.    *)
(***************************************************************************)
EXTENDS Integers, FiniteSets

CONSTANTS
  Checks,          \* what the section may check
  Interval,        \* the interval the producer declares, in days
  ChurnDays,       \* CHURN_WINDOW_DAYS
  RawDays,         \* raw_retention_days
  CheckDays,       \* check_retention_days
  MaxTime,         \* the last day modelled
  MaxChanges       \* how often labels are rewritten or checks come and go

ASSUME ChecksAssumption == IsFiniteSet(Checks) /\ Interval \in Nat \ {0}
ASSUME DaysAssumption ==
  /\ ChurnDays \in Nat \ {0, 1} /\ RawDays \in Nat /\ CheckDays \in Nat
  /\ RawDays <= CheckDays /\ ChurnDays <= CheckDays
ASSUME BoundsAssumption == MaxTime \in Nat /\ MaxChanges \in Nat

Days == 0..MaxTime

VARIABLES
  now,
  up,         \* the producer reaches the service
  section,    \* the checks it now runs
  version,    \* per check: which text its label has
  spool,      \* reports collected and not uploaded
  report,     \* table report: collected, received, labels
  rows, raw,  \* reports that have their check rows and their raw payload
  downAt,     \* the last day the uplink was down, -1 if it never was
  changes,    \* how often the section has changed
  changedAt   \* the last day it did, -1 if it never did

producer == <<section, version, changes, changedAt>>
vars     == <<now, up, producer, spool, report, rows, raw, downAt>>

Label   == Checks \X (0..MaxChanges)
Spooled == [at: Days, labels: SUBSET Label]
Report  == [at: Days, got: Days, labels: SUBSET Label]

Init ==
  /\ now = 0 /\ up \in BOOLEAN /\ downAt = IF up THEN -1 ELSE 0
  /\ section \in SUBSET Checks \ {{}} /\ version = [c \in Checks |-> 0]
  /\ spool = {} /\ report = {} /\ rows = {} /\ raw = {}
  /\ changes = 0 /\ changedAt = -1

-----------------------------------------------------------------------------
(* The producer.                                                           *)

Collected == {r.at : r \in spool \cup report}

\* The labels of the day.
Current == {<<c, version[c]>> : c \in section}

Collect ==
  /\ now \notin Collected
  /\ spool' = spool \cup {[at |-> now, labels |-> Current]}
  /\ UNCHANGED <<now, up, producer, report, rows, raw, downAt>>

\* The section changes before the day's run, once a day at most.
Change ==
  /\ now \notin Collected /\ changedAt < now
  /\ changes < MaxChanges
  /\ changes' = changes + 1 /\ changedAt' = now
  /\ UNCHANGED <<now, up, spool, report, rows, raw, downAt>>

\* A count, a time or a state is written into some of the labels, or somebody
\* renames them.
Relabel ==
  \E C \in SUBSET section \ {{}} :
    /\ Change
    /\ version' = [c \in Checks |-> IF c \in C THEN version[c] + 1 ELSE version[c]]
    /\ section' = section

\* Checks come and go.
Restock ==
  /\ Change
  /\ section' \in SUBSET Checks \ {section}
  /\ version' = version

\* ingest: the report and its check rows; received_at is the server's clock,
\* collected_at what the report says.
Upload ==
  \E s \in spool :
    /\ up
    /\ spool'  = spool \ {s}
    /\ report' = report \cup {[at |-> s.at, got |-> now, labels |-> s.labels]}
    /\ rows'   = rows \cup {s.at}
    /\ raw'    = raw \cup {s.at}
    /\ UNCHANGED <<now, up, producer, downAt>>

\* The next day, with the uplink or without it; a spool that can drain has.
Tick ==
  /\ now < MaxTime
  /\ up => spool = {}
  /\ now' = now + 1
  /\ up' \in BOOLEAN
  /\ downAt' = IF up' THEN downAt ELSE now + 1
  /\ UNCHANGED <<producer, spool, report, rows, raw>>

-----------------------------------------------------------------------------
(* Retention.                                                              *)

\* Mutant: the two limits are passed in the wrong order.
SweepSwapped ==
  /\ raw'  = raw \ {r.at : r \in {q \in report : q.got < now - CheckDays}}
  /\ rows' = {at \in rows : at >= now - RawDays}
  /\ UNCHANGED <<now, up, producer, spool, report, downAt>>

\* The sweep: payloads by the day they were received, rows by the day they were
\* collected, reports never.
Sweep ==
  /\ raw'  = raw \ {r.at : r \in {q \in report : q.got < now - RawDays}}
  /\ rows' = {at \in rows : at >= now - CheckDays}
  /\ UNCHANGED <<now, up, producer, spool, report, downAt>>

Next == Collect \/ Relabel \/ Restock \/ Upload \/ Tick \/ Sweep

Spec == Init /\ [][Next]_vars

-----------------------------------------------------------------------------
(* What the service says.                                                  *)

Newest == CHOOSE r \in report : \A q \in report : q.at <= r.at

\* Mutant: lag as the age of the newest report.
LagSinceCollected == now - Newest.at

Lag == Newest.got - Newest.at

\* lag_check: a warning past the producer's own interval.
LagNamed == report # {} /\ Lag > Interval

\* churns: the labels of the reports received in the window...
Seen == UNION {r.labels : r \in {q \in report : q.at \in rows /\ q.got >= now - ChurnDays}}

\* ... and the checks of the newest report.
Shown == IF report # {} /\ Newest.at \in rows THEN Cardinality(Newest.labels) ELSE 0

\* Mutant: the factor is one and a half.
ChurningTight == Shown > 0 /\ 2 * Cardinality(Seen) > 3 * Shown

\* Mutant: the factor is three.
ChurningLoose == Shown > 0 /\ Cardinality(Seen) > 3 * Shown

\* churn_check: more than two and a half times.
Churning == Shown > 0 /\ 2 * Cardinality(Seen) > 5 * Shown

\* history: the points of a label between two days.
History(label, from, to) ==
  {r.at : r \in {q \in report : q.at \in rows /\ label \in q.labels
                                /\ from <= q.at /\ q.at <= to}}

\* report_detail: the checks of a report, as far as they are kept.
Detail(r) == IF r.at \in rows THEN r.labels ELSE {}

-----------------------------------------------------------------------------
(* Properties.                                                             *)

\* A producer that stops collecting is never taken for one that cannot upload:
\* lag names it only if its uplink was down after it collected its newest report
\* ("Separating them names which half broke", selfcheck.rs). Producer and service
\* share one clock here: a skewed one makes a lag of its own.
StoppedIsNotLag == LagNamed => downAt >= Newest.at

OfDay(day) == {r \in report : r.at = day}

Versions(c) == UNION {{l \in r.labels : l[1] = c} : r \in report}

ChecksOf(labels) == {l[1] : l \in labels}

\* A section is named whose last three daily runs show three times the labels of
\* today's, as when each day rewrites them all ("a label drifting once a day",
\* selfcheck.rs).
DriftIsNamed ==
  \A r \in OfDay(now - 2), q \in OfDay(now - 1), p \in OfDay(now) :
    /\ p.labels # {}
    /\ Cardinality(r.labels \cup q.labels \cup p.labels) >= 3 * Cardinality(p.labels)
    => Churning

\* What churn names, however late and out of order the reports come. A rewrite of
\* each label ("A one-off rename leaves old and new side by side", selfcheck.rs) is
\* not enough: some label was rewritten twice, or the newest report lacks a check
\* that the window has. (That second case is an alarm with no label rewritten: the
\* labels of the window are compared with the newest report's count alone, so a
\* section that loses most of its checks is named too.) And it "stops showing within
\* a few days": a section that has not changed for the window is not named, if
\* nothing from before still waited for the uplink when it last changed.
SteadyIsQuiet ==
  Churning =>
    /\ \/ \E c \in Checks : Cardinality(Versions(c)) > 2
       \/ ~(ChecksOf(Seen) \subseteq ChecksOf(Newest.labels))
    /\ now - changedAt <= ChurnDays \/ downAt >= changedAt

\* No sweep takes anything too early, late arrivals or not: a run of the last
\* CheckDays still lists its labels and is a point in the trend of each, and a
\* raw payload stays for RawDays after it came in, however late that was.
NothingSweptEarly ==
  \A r \in report :
    /\ r.at >= now - CheckDays =>
         /\ Detail(r) = r.labels
         /\ \A l \in r.labels : r.at \in History(l, now - CheckDays, now)
    /\ r.got >= now - RawDays => r.at \in raw
============================================================================
