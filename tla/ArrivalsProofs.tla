--------------------------- MODULE ArrivalsProofs ---------------------------
(***************************************************************************)
(* Lag, retention and churn, for any periods, sections and outages of the  *)
(* uplink: proofs about Arrivals.                                          *)
(***************************************************************************)
EXTENDS Arrivals, FiniteSetTheorems, TLAPS

-----------------------------------------------------------------------------
(* Types, and the days of a report.                                        *)

\* The parts of the state that the theorems speak of.
Types ==
  /\ now \in Nat /\ up \in BOOLEAN /\ downAt \in Int
  /\ \A s \in spool : s.at \in Nat /\ s.at <= now
  /\ \A r \in report : r.at \in Nat /\ r.got \in Nat /\ r.at <= r.got /\ r.got <= now

\* One report a day.
OneADay ==
  /\ \A r, q \in report : r.at = q.at => r = q
  /\ \A s, t \in spool : s.at = t.at => s = t
  /\ \A s \in spool, r \in report : s.at # r.at

\* There is a newest report, if any.
HasNewest == report # {} => \E r \in report : \A q \in report : q.at <= r.at

DayInv == Types /\ OneADay /\ HasNewest

LEMMA NewestFacts ==
  ASSUME DayInv, report # {}
  PROVE  Newest \in report /\ \A q \in report : q.at <= Newest.at
  BY DEF DayInv, HasNewest, Newest

\* What an upload adds.
Stored(s) == [at |-> s.at, got |-> now, labels |-> s.labels]

LEMMA UploadFacts ==
  ASSUME Upload
  PROVE  \E s \in spool :
           /\ up /\ spool' = spool \ {s} /\ report' = report \cup {Stored(s)}
           /\ rows' = rows \cup {s.at} /\ raw' = raw \cup {s.at}
           /\ UNCHANGED <<now, up, producer, downAt>>
  BY DEF Upload, Stored

LEMMA DayInit == Init => DayInv
  BY DEF Init, DayInv, Types, OneADay, HasNewest

LEMMA DayStep == DayInv /\ [Next]_vars => DayInv'
<1> SUFFICES ASSUME DayInv, [Next]_vars PROVE DayInv'
  OBVIOUS
<1> USE DEF DayInv
<1>1. CASE Collect
  <2> DEFINE new == [at |-> now, labels |-> Current]
  <2>1. /\ spool' = spool \cup {new} /\ new.at = now
        /\ UNCHANGED <<now, up, report, downAt>>
    BY <1>1 DEF Collect
  <2>2. /\ \A s \in spool : s.at # now
        /\ \A r \in report : r.at # now
    BY <1>1 DEF Collect, Collected
  <2> HIDE DEF new
  <2>3. Types'
    BY <2>1 DEF Types
  <2>4. OneADay'
    BY <2>1, <2>2 DEF OneADay
  <2>5. HasNewest'
    BY <2>1 DEF HasNewest
  <2> QED BY <2>3, <2>4, <2>5
<1>2. CASE Upload
  <2>1. PICK s \in spool :
          /\ spool' = spool \ {s} /\ report' = report \cup {Stored(s)}
          /\ UNCHANGED <<now, up, downAt>>
    BY <1>2, UploadFacts
  <2>2. Stored(s).at = s.at /\ Stored(s).got = now
    BY DEF Stored
  <2>3. Types'
    BY <2>1, <2>2 DEF Types
  <2>4. OneADay'
    BY <2>1, <2>2 DEF OneADay
  <2>5. HasNewest'
    <3>1. CASE report = {}
      <4>1. report' = {Stored(s)} /\ Stored(s).at \in Nat
        BY <2>1, <2>2, <3>1 DEF Types
      <4> QED BY <4>1 DEF HasNewest
    <3>2. CASE report # {}
      <4>1. PICK r \in report : \A q \in report : q.at <= r.at
        BY <3>2 DEF HasNewest
      <4>2. r.at \in Nat /\ Stored(s).at \in Nat /\ \A q \in report : q.at \in Nat
        BY <2>2 DEF Types
      <4>3. CASE Stored(s).at <= r.at
        BY <2>1, <4>1, <4>3 DEF HasNewest
      <4>4. CASE r.at <= Stored(s).at
        <5>1. \A q \in report' : q.at <= Stored(s).at
          BY <2>1, <4>1, <4>2, <4>4
        <5> QED BY <2>1, <5>1 DEF HasNewest
      <4> QED BY <4>2, <4>3, <4>4
    <3> QED BY <3>1, <3>2
  <2> QED BY <2>3, <2>4, <2>5
<1>3. CASE Tick
  BY <1>3 DEF Tick, Types, OneADay, HasNewest
<1>4. CASE Relabel \/ Restock \/ Sweep \/ UNCHANGED vars
  BY <1>4 DEF Relabel, Restock, Change, Sweep, vars, Types, OneADay, HasNewest
<1> QED BY <1>1, <1>2, <1>3, <1>4 DEF Next

-----------------------------------------------------------------------------
(* Lag.                                                                    *)

\* Whatever waited overnight, in the spool or until it came in, waited for an
\* uplink that was down.
WaitedForUplink ==
  /\ ~up => downAt = now
  /\ \A s \in spool : s.at < now => downAt >= s.at
  /\ \A r \in report : r.at < r.got => downAt >= r.at

LagInv == DayInv /\ WaitedForUplink

LEMMA LagInit == Init => LagInv
<1>1. Init => WaitedForUplink
  BY DEF Init, WaitedForUplink
<1> QED BY <1>1, DayInit DEF LagInv

LEMMA LagStep == LagInv /\ [Next]_vars => LagInv'
<1> SUFFICES ASSUME LagInv, [Next]_vars PROVE WaitedForUplink'
  BY DayStep DEF LagInv
<1> USE DEF LagInv, DayInv
<1>1. CASE Collect
  <2>1. /\ \A s \in spool' : s \in spool \/ s.at = now
        /\ UNCHANGED <<now, up, report, downAt>>
    BY <1>1 DEF Collect
  <2> QED BY <2>1 DEF WaitedForUplink, Types
<1>2. CASE Upload
  <2>1. PICK s \in spool :
          /\ spool' = spool \ {s} /\ report' = report \cup {Stored(s)}
          /\ UNCHANGED <<now, up, downAt>>
    BY <1>2, UploadFacts
  <2>2. Stored(s).at = s.at /\ Stored(s).got = now
    BY DEF Stored
  <2> QED BY <2>1, <2>2 DEF WaitedForUplink
<1>3. CASE Tick
  <2>1. /\ now' = now + 1 /\ spool' = spool /\ report' = report
        /\ up => spool = {}
        /\ up' \in BOOLEAN
        /\ downAt' = IF up' THEN downAt ELSE now + 1
    BY <1>3 DEF Tick
  <2>2. ~up' => downAt' = now'
    BY <2>1
  <2>3. ASSUME NEW s \in spool PROVE downAt >= s.at
    <3>1. ~up /\ s.at \in Nat /\ s.at <= now /\ now \in Nat
      BY <2>1 DEF Types
    <3> QED BY <3>1 DEF WaitedForUplink
  <2>4. \A s \in spool' : s.at < now' => downAt' >= s.at
    BY <2>1, <2>3 DEF Types
  <2>5. \A r \in report' : r.at < r.got => downAt' >= r.at
    BY <2>1 DEF WaitedForUplink, Types
  <2> QED BY <2>2, <2>4, <2>5 DEF WaitedForUplink
<1>4. CASE Relabel \/ Restock \/ Sweep \/ UNCHANGED vars
  BY <1>4 DEF Relabel, Restock, Change, Sweep, vars, WaitedForUplink
<1> QED BY <1>1, <1>2, <1>3, <1>4 DEF Next

\* lag_check never takes a producer that stopped collecting for one that cannot
\* upload (selfcheck.rs:127-161), whatever the intervals and outages.
THEOREM LagMeansUplink == Spec => []StoppedIsNotLag
<1>1. LagInv => StoppedIsNotLag
  <2> SUFFICES ASSUME LagInv, LagNamed PROVE downAt >= Newest.at
    BY DEF StoppedIsNotLag
  <2>1. Newest \in report
    BY NewestFacts DEF LagInv, LagNamed
  <2>2. Newest.at \in Nat /\ Newest.got \in Nat
    BY <2>1 DEF LagInv, DayInv, Types
  <2>3. Newest.at < Newest.got
    BY <2>2, ChecksAssumption DEF LagNamed, Lag
  <2> QED BY <2>1, <2>3 DEF LagInv, WaitedForUplink
<1> QED BY <1>1, LagInit, LagStep, PTL DEF Spec

-----------------------------------------------------------------------------
(* Retention.                                                              *)

\* What a report has until its time is over.
RowsKept == \A r \in report : r.at >= now - CheckDays => r.at \in rows
RawKept  == \A r \in report : r.got >= now - RawDays => r.at \in raw

KeptInv == DayInv /\ RowsKept /\ RawKept

LEMMA KeptStep == KeptInv /\ [Next]_vars => KeptInv'
<1> SUFFICES ASSUME KeptInv, [Next]_vars PROVE RowsKept' /\ RawKept'
  BY DayStep DEF KeptInv
<1> USE DEF KeptInv, DayInv
<1>1. CASE Upload
  <2>1. PICK s \in spool :
          /\ report' = report \cup {Stored(s)}
          /\ rows' = rows \cup {s.at} /\ raw' = raw \cup {s.at} /\ now' = now
    BY <1>1, UploadFacts
  <2>2. Stored(s).at = s.at
    BY DEF Stored
  <2> QED BY <2>1, <2>2 DEF RowsKept, RawKept
<1>2. CASE Tick
  BY <1>2, DaysAssumption DEF Tick, RowsKept, RawKept, Types
<1>3. CASE Sweep
  <2>1. UNCHANGED <<now, report>>
    BY <1>3 DEF Sweep
  <2>2. rows' = {at \in rows : at >= now - CheckDays}
    BY <1>3 DEF Sweep
  <2>3. raw' = raw \ {r.at : r \in {q \in report : q.got < now - RawDays}}
    BY <1>3 DEF Sweep
  <2>4. RowsKept'
    BY <2>1, <2>2 DEF RowsKept
  <2>5. ASSUME NEW r \in report, r.got >= now - RawDays PROVE r.at \in raw'
    <3>1. r.at \in raw
      BY <2>5 DEF RawKept
    <3>2. ASSUME NEW q \in report, q.got < now - RawDays PROVE q.at # r.at
      BY <2>5, <3>2, DaysAssumption DEF OneADay, Types
    <3> QED BY <2>3, <3>1, <3>2
  <2> QED BY <2>1, <2>4, <2>5 DEF RawKept
<1>4. CASE Collect \/ Relabel \/ Restock \/ UNCHANGED vars
  BY <1>4 DEF Collect, Relabel, Restock, Change, vars, RowsKept, RawKept
<1> QED BY <1>1, <1>2, <1>3, <1>4 DEF Next

\* No sweep takes a run's labels, a point of a trend or a payload too early
\* (retention.rs:15-36), for any retention periods and any late arrivals.
THEOREM KeptLongEnough == Spec => []NothingSweptEarly
<1>1. Init => KeptInv
  <2>1. Init => RowsKept /\ RawKept
    BY DEF Init, RowsKept, RawKept
  <2> QED BY <2>1, DayInit DEF KeptInv
<1>2. KeptInv => NothingSweptEarly
  <2> SUFFICES ASSUME KeptInv, NEW r \in report
               PROVE  /\ r.at >= now - CheckDays =>
                           /\ Detail(r) = r.labels
                           /\ \A l \in r.labels : r.at \in History(l, now - CheckDays, now)
                      /\ r.got >= now - RawDays => r.at \in raw
    BY DEF NothingSweptEarly
  <2>1. r.at <= now /\ r.at \in Nat
    BY DEF KeptInv, DayInv, Types
  <2>2. ASSUME r.at >= now - CheckDays
        PROVE  /\ Detail(r) = r.labels
               /\ \A l \in r.labels : r.at \in History(l, now - CheckDays, now)
    BY <2>1, <2>2 DEF KeptInv, RowsKept, Detail, History
  <2> QED BY <2>2 DEF KeptInv, RawKept
<1> QED BY <1>1, <1>2, KeptStep, PTL DEF Spec

-----------------------------------------------------------------------------
(* Churn.                                                                  *)

\* One label for each of some checks.
OneEach(L) == \E S \in SUBSET Checks : \E f : L = {<<c, f[c]>> : c \in S}

\* Reports are finitely many, and each shows one label for each of its checks.
LabelInv ==
  /\ section \subseteq Checks
  /\ IsFiniteSet(report)
  /\ \A s \in spool \cup report : OneEach(s.labels)

\* Labels of different checks are different labels.
LEMMA OneEachCounts ==
  ASSUME NEW L, OneEach(L)
  PROVE  /\ ChecksOf(L) \subseteq Checks /\ IsFiniteSet(ChecksOf(L))
         /\ IsFiniteSet(L) /\ Cardinality(L) \in Nat
         /\ Cardinality(L) = Cardinality(ChecksOf(L))
<1>1. PICK S \in SUBSET Checks : \E f : L = {<<c, f[c]>> : c \in S}
  BY DEF OneEach
<1>2. PICK f : L = {<<c, f[c]>> : c \in S}
  BY <1>1
<1>3. IsFiniteSet(S) /\ Cardinality(S) \in Nat
  BY ChecksAssumption, FS_Subset, FS_CardinalityType
<1> DEFINE g == [c \in S |-> <<c, f[c]>>]
<1>4. g \in Bijection(S, L)
  <2>1. g \in Surjection(S, L)
    BY <1>2 DEF Surjection
  <2>2. g \in Injection(S, L)
    BY <1>2 DEF Injection, IsInjective
  <2> QED BY <2>1, <2>2 DEF Bijection
<1>5. ChecksOf(L) = S
  <2>1. ASSUME NEW c \in S PROVE c \in ChecksOf(L)
    <3>1. <<c, f[c]>> \in L /\ <<c, f[c]>>[1] = c
      BY <1>2
    <3> QED BY <3>1 DEF ChecksOf
  <2>2. ASSUME NEW c \in ChecksOf(L) PROVE c \in S
    BY <1>2, <2>2 DEF ChecksOf
  <2> QED BY <2>1, <2>2
<1> HIDE DEF g
<1> QED BY <1>3, <1>4, <1>5, FS_Bijection DEF ExistsBijection

LEMMA LabelStep == LabelInv /\ [Next]_vars => LabelInv'
<1> SUFFICES ASSUME LabelInv, [Next]_vars PROVE LabelInv'
  OBVIOUS
<1> USE DEF LabelInv
<1>1. CASE Collect
  <2> DEFINE new == [at |-> now, labels |-> Current]
  <2>1. spool' = spool \cup {new} /\ report' = report /\ section' = section
    BY <1>1 DEF Collect, producer
  <2>2. OneEach(new.labels)
    <3>1. new.labels = {<<c, version[c]>> : c \in section} /\ section \in SUBSET Checks
      BY DEF Current
    <3> HIDE DEF new
    <3> QED BY <3>1 DEF OneEach
  <2> HIDE DEF new
  <2> QED BY <2>1, <2>2
<1>2. CASE Upload
  <2>1. PICK s \in spool : /\ spool' = spool \ {s} /\ report' = report \cup {Stored(s)}
                          /\ section' = section
    BY <1>2, UploadFacts DEF producer
  <2>2. Stored(s).labels = s.labels
    BY DEF Stored
  <2>3. IsFiniteSet(report')
    BY <2>1, FS_AddElement
  <2> QED BY <2>1, <2>2, <2>3
<1>3. CASE Relabel \/ Restock \/ Tick \/ Sweep \/ UNCHANGED vars
  BY <1>3 DEF Relabel, Restock, Change, Tick, Sweep, vars, producer
<1> QED BY <1>1, <1>2, <1>3 DEF Next

\* What the query counts is finite.
LEMMA SeenFinite == LabelInv => IsFiniteSet(Seen)
<1> SUFFICES ASSUME LabelInv PROVE IsFiniteSet(Seen)
  OBVIOUS
<1> DEFINE F == {q \in report : q.at \in rows /\ q.got >= now - ChurnDays}
           L == {r.labels : r \in F}
           g == [r \in F |-> r.labels]
<1>1. IsFiniteSet(F)
  BY FS_Subset DEF LabelInv
<1>2. g \in Surjection(F, L)
  BY DEF Surjection
<1>3. \A l \in L : IsFiniteSet(l)
  BY OneEachCounts DEF LabelInv
<1>4. Seen = UNION L
  BY DEF Seen
<1> HIDE DEF F, L, g
<1>5. IsFiniteSet(L)
  BY <1>1, <1>2, FS_Surjection
<1> QED BY <1>3, <1>4, <1>5, FS_UNION

\* churn_check names a section whose last three daily runs show three times the
\* labels of today's (selfcheck.rs:239-332), whatever waited and whatever was swept.
THEOREM DriftGetsNamed == Spec => []DriftIsNamed
<1>1. Init => KeptInv /\ LabelInv
  <2>1. Init => RowsKept /\ RawKept
    BY DEF Init, RowsKept, RawKept
  <2>2. Init => LabelInv
    BY FS_EmptySet DEF Init, LabelInv
  <2> QED BY <2>1, <2>2, DayInit DEF KeptInv
<1>2. KeptInv /\ LabelInv => DriftIsNamed
  <2> SUFFICES ASSUME KeptInv, LabelInv, NEW r \in OfDay(now - 2), NEW q \in OfDay(now - 1), NEW p \in OfDay(now),
                      p.labels # {},
                      Cardinality(r.labels \cup q.labels \cup p.labels) >= 3 * Cardinality(p.labels)
               PROVE  Churning
    BY DEF DriftIsNamed
  <2> USE DEF OfDay
  <2>1. /\ now \in Nat /\ RowsKept /\ OneADay
        /\ \A s \in report : s.at \in Nat /\ s.got \in Nat /\ s.at <= s.got /\ s.got <= now
    BY DEF KeptInv, DayInv, Types
  <2>2. \A s \in {r, q, p} : s.at >= now - 2 /\ s \in report
    BY <2>1
  <2>3. \A s \in {r, q, p} : s.at \in rows /\ s.got >= now - ChurnDays
    BY <2>1, <2>2, DaysAssumption DEF RowsKept
  <2>4. r.labels \cup q.labels \cup p.labels \subseteq Seen
    BY <2>3 DEF Seen
  <2>5. IsFiniteSet(p.labels) /\ Cardinality(p.labels) \in Nat /\ Cardinality(p.labels) # 0
    BY OneEachCounts, FS_EmptySet DEF LabelInv
  <2>6. Newest = p
    <3>1. Newest \in report /\ p.at <= Newest.at
      BY NewestFacts DEF KeptInv
    <3>2. Newest.at = p.at
      BY <2>1, <3>1
    <3> QED BY <2>1, <3>1, <3>2 DEF OneADay
  <2>7. Shown = Cardinality(p.labels)
    BY <2>3, <2>6 DEF Shown
  <2>8. /\ Cardinality(r.labels \cup q.labels \cup p.labels) <= Cardinality(Seen)
        /\ Cardinality(r.labels \cup q.labels \cup p.labels) \in Nat
        /\ Cardinality(Seen) \in Nat
    BY <2>4, SeenFinite, FS_Subset, FS_CardinalityType
  <2> QED BY <2>5, <2>7, <2>8 DEF Churning
<1> QED BY <1>1, <1>2, KeptStep, LabelStep, PTL DEF Spec

\* A run since the last change has the labels of the day, and what came in
\* late, or waits, has waited since the last day without the uplink.
SteadyInv ==
  /\ changedAt \in Int /\ changedAt <= now
  /\ \A s \in spool \cup report :
       s.at > changedAt => s.labels = Current
  /\ \A s \in spool : s.at < now => downAt >= now - 1
  /\ \A r \in report : r.at < r.got => downAt >= r.got - 1

LEMMA SteadyInit == Init => SteadyInv
  BY DEF Init, SteadyInv

LEMMA SteadyStep == LagInv /\ SteadyInv /\ [Next]_vars => SteadyInv'
<1> SUFFICES ASSUME LagInv, SteadyInv, [Next]_vars PROVE SteadyInv'
  OBVIOUS
<1> USE DEF LagInv, DayInv, Types
<1>1. CASE Collect
  <2> DEFINE new == [at |-> now, labels |-> Current]
  <2>1. /\ spool' = spool \cup {new} /\ UNCHANGED <<now, report, downAt, producer>>
    BY <1>1 DEF Collect
  <2>2. new.at = now /\ new.labels = Current /\ Current' = Current
    BY <2>1 DEF Current, producer
  <2> HIDE DEF new
  <2> QED BY <2>1, <2>2 DEF SteadyInv, producer
<1>2. CASE Relabel \/ Restock
  <2>1. changedAt' = now /\ UNCHANGED <<now, spool, report, downAt>>
    BY <1>2 DEF Relabel, Restock, Change
  <2>2. \A s \in spool \cup report : s.at <= now /\ s.at \in Nat
    OBVIOUS
  <2>3. \A s \in spool \cup report : ~(s.at > now)
    BY <2>2
  <2> QED BY <2>1, <2>3 DEF SteadyInv
<1>3. CASE Upload
  <2>1. PICK s \in spool :
          /\ spool' = spool \ {s} /\ report' = report \cup {Stored(s)}
          /\ UNCHANGED <<now, downAt, producer>>
    BY <1>3, UploadFacts
  <2>2. Stored(s).at = s.at /\ Stored(s).got = now /\ Stored(s).labels = s.labels
    BY DEF Stored
  <2>3. Current' = Current
    BY <2>1 DEF Current, producer
  <2> QED BY <2>1, <2>2, <2>3 DEF SteadyInv, producer
<1>4. CASE Tick
  <2>1. /\ now' = now + 1 /\ UNCHANGED <<spool, report, producer>>
        /\ up => spool = {}
        /\ downAt' = downAt \/ downAt' = now + 1
    BY <1>4 DEF Tick
  <2>2. Current' = Current
    BY <2>1 DEF Current, producer
  <2>3. ASSUME NEW s \in spool PROVE downAt' >= now' - 1
    BY <2>1 DEF WaitedForUplink
  <2>4. ASSUME NEW r \in report, r.at < r.got PROVE downAt' >= r.got - 1
    BY <2>1, <2>4 DEF SteadyInv
  <2> QED BY <2>1, <2>2, <2>3, <2>4 DEF SteadyInv, producer
<1>5. CASE Sweep \/ UNCHANGED vars
  <2>1. UNCHANGED <<now, spool, report, downAt, producer>>
    BY <1>5 DEF Sweep, vars
  <2>2. Current' = Current
    BY <2>1 DEF Current, producer
  <2> QED BY <2>1, <2>2 DEF SteadyInv, producer
<1> QED BY <1>1, <1>2, <1>3, <1>4, <1>5 DEF Next

LEMMA NoneOrTwo ==
  ASSUME NEW V, IsFiniteSet(V), Cardinality(V) <= 2
  PROVE  \E a, b : V \subseteq {a, b}
<1>1. CASE V = {}
  BY <1>1
<1>2. ASSUME NEW a \in V PROVE \E b : V \subseteq {a, b}
  <2>1. /\ IsFiniteSet(V \ {a}) /\ Cardinality(V \ {a}) = Cardinality(V) - 1
        /\ Cardinality(V) \in Nat
    BY FS_RemoveElement, FS_CardinalityType
  <2>2. CASE V \ {a} = {}
    BY <2>2
  <2>3. ASSUME NEW b \in V \ {a} PROVE V \subseteq {a, b}
    <3>1. /\ IsFiniteSet((V \ {a}) \ {b})
          /\ Cardinality((V \ {a}) \ {b}) = Cardinality(V \ {a}) - 1
      BY <2>1, <2>3, FS_RemoveElement
    <3>2. (V \ {a}) \ {b} = {}
      BY <2>1, <3>1, FS_CardinalityType, FS_EmptySet
    <3> QED BY <3>2
  <2> QED BY <2>2, <2>3
<1> QED BY <1>1, <1>2

\* Two labels for each check are twice as many as there are checks.
LEMMA TwoEach ==
  ASSUME NEW S, IsFiniteSet(S), NEW L, L \subseteq UNION {Versions(c) : c \in S},
         \A c \in S : IsFiniteSet(Versions(c)) /\ Cardinality(Versions(c)) <= 2
  PROVE  IsFiniteSet(L) /\ Cardinality(L) <= 2 * Cardinality(S)
<1> DEFINE P == S \X {1, 2}
           g == [c \in S |-> CHOOSE h : Versions(c) \subseteq {h[1], h[2]}]
           t == [p \in P |-> g[p[1]][p[2]]]
           T == {t[p] : p \in P}
<1>1. ASSUME NEW c \in S PROVE Versions(c) \subseteq {g[c][1], g[c][2]}
  <2>1. PICK a, b : Versions(c) \subseteq {a, b}
    BY NoneOrTwo
  <2>2. <<a, b>>[1] = a /\ <<a, b>>[2] = b
    OBVIOUS
  <2>3. \E h : Versions(c) \subseteq {h[1], h[2]}
    BY <2>1, <2>2
  <2> QED BY <2>3
<1>2. L \subseteq T
  <2> SUFFICES ASSUME NEW l \in L PROVE l \in T
    OBVIOUS
  <2>1. PICK c \in S : l \in Versions(c)
    OBVIOUS
  <2>2. PICK i \in {1, 2} : l = g[c][i]
    BY <1>1, <2>1
  <2>3. <<c, i>> \in P /\ t[<<c, i>>] = g[c][i]
    OBVIOUS
  <2> QED BY <2>2, <2>3
<1>3. t \in Surjection(P, T)
  BY DEF Surjection
<1>4. IsFiniteSet(P) /\ Cardinality(P) = Cardinality(S) * 2
  <2>1. IsFiniteSet({1, 2}) /\ Cardinality({1, 2}) = 2
    <3>1. IsFiniteSet({1}) /\ Cardinality({1}) = 1
      BY FS_Singleton
    <3>2. {1, 2} = {1} \cup {2} /\ 2 \notin {1}
      OBVIOUS
    <3>3. IsFiniteSet({1} \cup {2}) /\ Cardinality({1} \cup {2}) = 1 + 1
      BY <3>1, <3>2, FS_AddElement
    <3> QED BY <3>2, <3>3
  <2> QED BY <2>1, FS_Product
<1> HIDE DEF P, g, t, T
<1>5. IsFiniteSet(T) /\ Cardinality(T) <= Cardinality(S) * 2
  BY <1>3, <1>4, FS_Surjection
<1>6. Cardinality(S) \in Nat /\ Cardinality(T) \in Nat
  BY <1>5, FS_CardinalityType
<1> QED BY <1>2, <1>5, <1>6, FS_Subset, FS_CardinalityType

LEMMA VersionsFinite ==
  ASSUME LabelInv, NEW c
  PROVE  IsFiniteSet(Versions(c))
<1> DEFINE L == {{l \in r.labels : l[1] = c} : r \in report}
           g == [r \in report |-> {l \in r.labels : l[1] = c}]
<1>1. g \in Surjection(report, L)
  BY DEF Surjection
<1>2. \A M \in L : IsFiniteSet(M)
  <2> SUFFICES ASSUME NEW r \in report PROVE IsFiniteSet({l \in r.labels : l[1] = c})
    OBVIOUS
  <2>1. IsFiniteSet(r.labels)
    BY OneEachCounts DEF LabelInv
  <2> QED BY <2>1, FS_Subset
<1>3. Versions(c) = UNION L
  BY DEF Versions
<1> HIDE DEF L, g
<1>4. IsFiniteSet(L)
  BY <1>1, FS_Surjection DEF LabelInv
<1> QED BY <1>2, <1>3, <1>4, FS_UNION

\* churn_check names a section only for a label rewritten twice or a check gone
\* (selfcheck.rs:239-332), and never one that has held still for the window, for any
\* sections, windows, outages and retention.
THEOREM SteadyStaysQuiet == Spec => []SteadyIsQuiet
<1> DEFINE I == LagInv /\ KeptInv /\ LabelInv /\ SteadyInv
<1>1. Init => I
  <2>1. Init => RowsKept /\ RawKept
    BY DEF Init, RowsKept, RawKept
  <2>2. Init => LabelInv
    BY FS_EmptySet DEF Init, LabelInv
  <2> QED BY <2>1, <2>2, LagInit, SteadyInit DEF KeptInv, LagInv
<1>2. I /\ [Next]_vars => I'
  BY LagStep, KeptStep, LabelStep, SteadyStep
<1>3. I => SteadyIsQuiet
  <2> SUFFICES ASSUME I, Churning,
                      \/ /\ \A c \in Checks : ~(Cardinality(Versions(c)) > 2)
                         /\ ChecksOf(Seen) \subseteq ChecksOf(Newest.labels)
                      \/ ~(now - changedAt <= ChurnDays) /\ ~(downAt >= changedAt)
               PROVE  FALSE
    BY DEF SteadyIsQuiet
  <2> USE DEF LagInv, DayInv, Types, SteadyInv
  <2>0. ASSUME NEW c PROVE IsFiniteSet(Versions(c)) /\ Cardinality(Versions(c)) \in Nat
    BY VersionsFinite, FS_CardinalityType
  <2>1. /\ Shown = Cardinality(Newest.labels) /\ Newest \in report
        /\ Shown \in Nat /\ Cardinality(Seen) \in Nat
    <3>1. report # {} /\ Shown = Cardinality(Newest.labels)
      BY DEF Churning, Shown
    <3>2. Newest \in report
      BY <3>1, NewestFacts
    <3>3. Cardinality(Newest.labels) \in Nat
      BY <3>2, OneEachCounts DEF LabelInv
    <3> QED BY <3>1, <3>2, <3>3, SeenFinite, FS_CardinalityType
  <2>3. CASE /\ \A c \in Checks : ~(Cardinality(Versions(c)) > 2)
             /\ ChecksOf(Seen) \subseteq ChecksOf(Newest.labels)
    <3> DEFINE S == ChecksOf(Newest.labels)
    <3>1. OneEach(Newest.labels)
      BY <2>1 DEF LabelInv
    <3>2. S \subseteq Checks /\ IsFiniteSet(S) /\ Cardinality(S) = Shown
      BY <2>1, <3>1, OneEachCounts
    <3>3. ASSUME NEW l \in Seen PROVE \E c \in S : l \in Versions(c)
      <4>1. PICK r \in report : l \in r.labels
        BY DEF Seen
      <4>2. l[1] \in S
        BY <2>3 DEF ChecksOf
      <4> QED BY <4>1, <4>2 DEF Versions
    <3>4. ASSUME NEW c \in S PROVE Cardinality(Versions(c)) <= 2
      <4>1. c \in Checks
        BY <3>2
      <4>2. ~(Cardinality(Versions(c)) > 2)
        BY <2>3, <4>1
      <4> QED BY <2>0, <4>2
    <3>5. Cardinality(Seen) <= 2 * Shown
      <4>1. Seen \subseteq UNION {Versions(c) : c \in S}
        BY <3>3
      <4>2. \A c \in S : IsFiniteSet(Versions(c))
        BY <2>0
      <4> HIDE DEF S
      <4> QED BY <3>2, <3>4, <4>1, <4>2, TwoEach
    <3> QED BY <2>1, <3>5 DEF Churning
  <2>4. CASE ~(now - changedAt <= ChurnDays) /\ ~(downAt >= changedAt)
    <3>1. ASSUME NEW r \in report, r.got >= now - ChurnDays
          PROVE  r.at > changedAt /\ r.labels = Current
      <4>1. r.at \in Nat /\ r.got \in Nat /\ r.at <= r.got /\ now \in Nat /\ downAt \in Int
        BY DEF LagInv, DayInv, Types
      <4>2. r.got > changedAt
        BY <2>4, <3>1, <4>1, DaysAssumption DEF SteadyInv
      <4>3. r.at = r.got
        BY <2>4, <4>1, <4>2 DEF SteadyInv
      <4> QED BY <4>2, <4>3 DEF SteadyInv
    <3>2. Seen \subseteq Current
      BY <3>1 DEF Seen
    <3>3. CASE Seen = {}
      BY <2>1, <3>3, FS_EmptySet DEF Churning
    <3>4. CASE Seen # {}
      <4>1. PICK r \in report : r.got >= now - ChurnDays
        BY <3>4 DEF Seen
      <4>2. r.at <= Newest.at /\ r.at > changedAt
        BY <3>1, <4>1, NewestFacts
      <4>3. r.at \in Nat /\ Newest.at \in Nat /\ changedAt \in Int
        BY <2>1 DEF LagInv, DayInv, Types, SteadyInv
      <4>4. Newest.labels = Current
        BY <2>1, <4>2, <4>3 DEF SteadyInv
      <4>5. IsFiniteSet(Newest.labels)
        BY <2>1, OneEachCounts DEF LabelInv
      <4>6. Cardinality(Seen) <= Shown
        BY <2>1, <3>2, <4>4, <4>5, FS_Subset
      <4> QED BY <2>1, <4>6 DEF Churning
    <3> QED BY <3>3, <3>4
  <2> QED BY <2>3, <2>4
<1> QED BY <1>1, <1>2, <1>3, PTL DEF Spec
============================================================================
