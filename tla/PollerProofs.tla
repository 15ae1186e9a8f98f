---------------------------- MODULE PollerProofs ----------------------------
(***************************************************************************)
(* What the phone remembers, for any answers of the server.  The invariant *)
(* says where the fingerprint last told is kept: in the preference while   *)
(* the worker decides, in poll()'s result once it has acted.               *)
(***************************************************************************)
EXTENDS Poller, TLAPS

\* Where told is kept: a death of the process is what separates the two.
TellingInv ==
  /\ pc \in {"idle", "fetched", "acted"}
  /\ deaths \in Nat
  /\ deaths = 0 /\ pc # "acted" => last = told
  /\ deaths = 0 /\ pc = "acted" => mark = told
  /\ pc = "acted" => mark = told \/ mark = last

\* The fingerprint of nothing is the empty one (Problems.kt:60-71, "").
LEMMA FingerprintOfNothing == Fingerprint({}) = {}
  BY DEF Fingerprint

\* step() in the three cases of Alerting.kt:33-37.
LEMMA StepCases ==
  ASSUME NEW alerting, NEW before
  PROVE  \/ alerting = {} /\ Step(alerting, before) = "CLEAR"
         \/ /\ alerting # {} /\ Fingerprint(alerting) = before
            /\ Step(alerting, before) = "QUIET"
         \/ /\ alerting # {} /\ Fingerprint(alerting) # before
            /\ Step(alerting, before) = "FIRE"
  BY DEF Step

LEMMA TellingInit == Init => TellingInv
  BY DEF Init, TellingInv

\* Acting leaves the new mark where the phone's last words are, or unchanged.
LEMMA ActTells ==
  ASSUME TellingInv, Act
  PROVE  /\ mark' = told' \/ mark' = last
         /\ deaths = 0 => mark' = told'
         /\ last' = last /\ deaths' = deaths /\ pc' = "acted"
<1>0. last' = last /\ deaths' = deaths /\ pc' = "acted" /\ (deaths = 0 => last = told)
  BY DEF Act, TellingInv, prefs
<1>1. CASE Alerting = {} /\ Step(Alerting, last) = "CLEAR"
  <2>1. told' = {}
    BY <1>1 DEF Act
  <2>2. mark' = Fingerprint({})
    BY <1>1 DEF Act, Remembered
  <2> QED BY <1>0, <2>1, <2>2, FingerprintOfNothing
<1>2. CASE Step(Alerting, last) = "QUIET"
  <2>1. told' = told /\ mark' = last
    BY <1>2 DEF Act, Remembered
  <2> QED BY <1>0, <2>1
<1>3. CASE Step(Alerting, last) = "FIRE"
  <2>1. CASE permitted
    <3>1. told' = Fingerprint(Alerting) /\ mark' = Fingerprint(Alerting)
      BY <1>3, <2>1 DEF Act, Remembered
    <3> QED BY <1>0, <3>1
  <2>2. CASE ~permitted
    <3>1. told' = told /\ mark' = last
      BY <1>3, <2>2 DEF Act, Remembered
    <3> QED BY <1>0, <3>1
  <2> QED BY <2>1, <2>2
<1> QED BY <1>1, <1>2, <1>3, StepCases

LEMMA TellingNext == TellingInv /\ [Next]_vars => TellingInv'
<1> SUFFICES ASSUME TellingInv, [Next]_vars PROVE TellingInv'
  OBVIOUS
<1>1. ASSUME NEW board \in Boards, FleetChanges(board) PROVE TellingInv'
  BY <1>1 DEF TellingInv, FleetChanges, worker, prefs
<1>2. CASE Fetch
  BY <1>2 DEF TellingInv, Fetch, prefs
<1>3. CASE Act
  BY <1>3, ActTells DEF TellingInv
<1>4. CASE Remember
  BY <1>4 DEF TellingInv, Remember
<1>5. CASE Flush
  BY <1>5 DEF TellingInv, Flush, worker
<1>6. CASE Die
  BY <1>6 DEF TellingInv, Die
<1>7. CASE SetPermission
  BY <1>7 DEF TellingInv, SetPermission, worker, prefs
<1>8. CASE Dismiss
  BY <1>8 DEF TellingInv, Dismiss, worker, prefs
<1>9. CASE UNCHANGED vars
  BY <1>9 DEF TellingInv, vars, worker, prefs
<1> QED BY <1>1, <1>2, <1>3, <1>4, <1>5, <1>6, <1>7, <1>8, <1>9 DEF Next

THEOREM TellingIsInvariant == Spec => []TellingInv
  BY TellingInit, TellingNext, PTL DEF Spec

\* While its process lives, the phone is quiet only about the set it told last
\* (Alerting.kt:15: "what is remembered is what was DELIVERED").
THEOREM QuietMeansTold == Spec => []QuietOnlyIfToldAlive
<1>1. TellingInv => QuietOnlyIfToldAlive
  <2> SUFFICES ASSUME TellingInv, deaths = 0, pc = "fetched",
                      Step(Alerting, last) = "QUIET"
               PROVE  told = Fingerprint(Alerting)
    BY DEF QuietOnlyIfToldAlive, QuietOnlyIfTold
  <2>1. last = told
    BY DEF TellingInv
  <2>2. Fingerprint(Alerting) = last
    BY StepCases
  <2> QED BY <2>1, <2>2
<1> QED BY <1>1, TellingIsInvariant, PTL

\* Whatever dies, the phone only ever remembers what it told, or had told when
\* the preference was last written (Watch.kt:109, Alerting.kt:15).
THEOREM MarksWereTold == Spec => MarkWasTold
<1>1. TellingInv /\ [Next]_vars => [last' # last => last' = told \/ last' = disk]_vars
  <2> SUFFICES ASSUME TellingInv, Next, last' # last
               PROVE  last' = told \/ last' = disk
    BY DEF vars, prefs
  <2>1. Remember \/ Die
    BY DEF Next, FleetChanges, Fetch, Act, Flush, SetPermission, Dismiss, prefs
  <2>2. CASE Remember
    BY <2>2 DEF Remember, TellingInv
  <2>3. CASE Die
    BY <2>3 DEF Die
  <2> QED BY <2>1, <2>2, <2>3
<1> QED BY <1>1, TellingIsInvariant, PTL DEF Spec, MarkWasTold

\* While its process lives, the phone never posts a set twice running: it would
\* "teach you to swipe" (Alerting.kt:24).
THEOREM NeverTwice == Spec => NoRepeats
<1>1. TellingInv /\ [Next]_vars
      => [told' # {} /\ shade' # shade /\ shade' # {} /\ deaths = 0
            => Fingerprint(shade') # told]_vars
  <2> SUFFICES ASSUME TellingInv, Next, shade' # shade, shade' # {}, deaths = 0
               PROVE  Fingerprint(shade') # told
    BY DEF vars
  <2>1. Act
    BY DEF Next, FleetChanges, Fetch, Remember, Flush, Die, SetPermission, Dismiss
  <2>2. Step(Alerting, last) = "FIRE"
    BY <2>1, StepCases DEF Act
  <2>3. shade' = Alerting
    BY <2>1, <2>2 DEF Act
  <2>4. last = told
    BY <2>1 DEF Act, TellingInv
  <2> QED BY <2>2, <2>3, <2>4, StepCases
<1> QED BY <1>1, TellingIsInvariant, PTL DEF Spec, NoRepeats

\* What a poll can fetch, it can fingerprint.
LEMMA AlertingMarks ==
  ASSUME got \in Boards
  PROVE  Alerting \in SUBSET UNION Boards /\ Fingerprint(Alerting) \in Marks
<1>1. Alerting \in SUBSET UNION Boards
  BY DEF Alerting, Notifiable
<1> QED BY <1>1 DEF Marks

\* The type invariant, for any set of answers and any number of deaths.
THEOREM PollerTypes == Spec => []TypeOK
<1>1. Init => TypeOK
  <2>1. {} \in Marks
    <3>1. {} \in SUBSET UNION Boards
      OBVIOUS
    <3> QED BY <3>1, FingerprintOfNothing DEF Marks
  <2> QED BY <2>1, NoneAssumption, DeathsAssumption DEF Init, TypeOK
<1>2. TypeOK /\ [Next]_vars => TypeOK'
  <2> SUFFICES ASSUME TypeOK, [Next]_vars PROVE TypeOK'
    OBVIOUS
  <2>1. ASSUME NEW board \in Boards, FleetChanges(board) PROVE TypeOK'
    BY <2>1 DEF TypeOK, FleetChanges, worker, prefs
  <2>2. CASE Fetch
    BY <2>2, NoneAssumption DEF TypeOK, Fetch, prefs
  <2>3. CASE Act
    <3>1. got \in Boards
      BY <2>3 DEF TypeOK, Act
    <3>2. Alerting \in SUBSET UNION Boards /\ Fingerprint(Alerting) \in Marks
      BY <3>1, AlertingMarks
    <3>3. {} \in Marks
      BY FingerprintOfNothing DEF Marks
    <3>4. shade' \in SUBSET UNION Boards
      <4>1. shade' = {} \/ shade' = shade \/ shade' = Alerting
        BY <2>3, StepCases DEF Act
      <4> QED BY <4>1, <3>2 DEF TypeOK
    <3>5. told' \in Marks
      <4>1. told' = {} \/ told' = told \/ told' = Fingerprint(Alerting)
        BY <2>3, StepCases DEF Act
      <4> QED BY <4>1, <3>2, <3>3 DEF TypeOK
    <3>6. mark' \in Marks
      <4>1. mark' = Fingerprint(Alerting) \/ mark' = last
        BY <2>3, StepCases DEF Act, Remembered
      <4> QED BY <4>1, <3>2 DEF TypeOK
    <3>7. /\ fleet' = fleet /\ got' = got /\ last' = last /\ disk' = disk
          /\ permitted' = permitted /\ deaths' = deaths /\ pc' = "acted"
      BY <2>3 DEF Act, prefs
    <3> QED BY <3>1, <3>4, <3>5, <3>6, <3>7, NoneAssumption DEF TypeOK
  <2>4. CASE Remember
    BY <2>4, NoneAssumption DEF TypeOK, Remember
  <2>5. CASE Flush
    BY <2>5 DEF TypeOK, Flush, worker
  <2>6. CASE Die
    BY <2>6, DeathsAssumption DEF TypeOK, Die
  <2>7. CASE SetPermission
    BY <2>7 DEF TypeOK, SetPermission, worker, prefs
  <2>8. CASE Dismiss
    BY <2>8 DEF TypeOK, Dismiss, worker, prefs
  <2>9. CASE UNCHANGED vars
    BY <2>9 DEF TypeOK, vars, worker, prefs
  <2> QED BY <2>1, <2>2, <2>3, <2>4, <2>5, <2>6, <2>7, <2>8, <2>9 DEF Next
<1> QED BY <1>1, <1>2, PTL DEF Spec
============================================================================
