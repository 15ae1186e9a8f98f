-------------------------- MODULE DashboardProofs --------------------------
(***************************************************************************)
(* What a tab of the dashboard shows, for any refresh period and any       *)
(* number of mutes: proofs about Dashboard.                                *)
(***************************************************************************)
EXTENDS Dashboard, TLAPS

-----------------------------------------------------------------------------
(* Types.                                                                  *)

\* A value is held from the first answer on, and a stamp with it.
HasAnswer ==
  /\ from # "none" <=> value # None
  /\ value # None => stamp # None
  /\ ago = None <=> stamp = None
  /\ shown = "answer" => value # None

\* A mute that was stored and not yet heard of is on the server.
MutedIsStored == job = "muted" => world.mutes > 0

TypeInv == TypeOK /\ HasAnswer /\ MutedIsStored

LEMMA OlderFacts ==
  ASSUME NEW age \in Ages
  PROVE  /\ Older(age) \in Ages /\ Older(age) >= age
         /\ Older(age) <= age + 1
  BY PeriodAssumption DEF Older, Ages, Old

LEMMA OlderMonotone ==
  ASSUME NEW a \in Ages, NEW b \in Ages, a >= b
  PROVE  Older(a) >= Older(b)
  BY PeriodAssumption DEF Older, Ages, Old

LEMMA AgesFacts == /\ 0 \in Ages /\ Old \in Ages /\ Ages \subseteq Nat
                   /\ None \notin Ages /\ None \notin Answer /\ None \notin View
  BY PeriodAssumption, NoneAssumption DEF Ages, Old

LEMMA ResolveTypes ==
  ASSUME TypeInv, NEW seen \in View, NEW age \in {0, Old},
         NEW origin \in {"network", "copy"}, Resolve(seen, age, origin)
  PROVE  /\ value' \in Answer \cup {None} /\ value' # None
         /\ from' \in {"none", "network", "copy"} /\ from' # "none"
         /\ shown' \in {"default", "answer", "error"}
         /\ stamp' \in Ages \cup {None} /\ stamp' # None
         /\ ago' \in Ages \cup {None} /\ ago' # None
         /\ load' \in {"none", "sent", "read"} /\ reply' \in View
<1>1. Empty \in View
  BY PeriodAssumption DEF Empty, View
<1> QED BY <1>1, AgesFacts DEF Resolve, Answer

LEMMA TypeInit == Init => TypeInv
<1> SUFFICES ASSUME Init PROVE TypeInv
  OBVIOUS
<1>1. Empty \in View /\ world \in View
  BY PeriodAssumption DEF Init, Empty, View
<1>2. Refresh \in 0..Refresh /\ 0 \in 0..Late
  BY PeriodAssumption DEF Late
<1> QED BY <1>1, <1>2 DEF Init, TypeInv, TypeOK, HasAnswer, MutedIsStored

LEMMA TypeStep == TypeInv /\ [Next]_vars => TypeInv'
<1> SUFFICES ASSUME TypeInv, [Next]_vars PROVE TypeInv'
  OBVIOUS
<1> USE DEF TypeInv, store, timers, request
<1>1. CASE NetChanges
  BY <1>1 DEF NetChanges, TypeOK, HasAnswer, MutedIsStored
<1>2. CASE CheckFlips
  <2>1. world' \in View /\ world'.mutes = world.mutes
    BY <1>2 DEF CheckFlips, TypeOK, View
  <2> QED BY <1>2, <2>1 DEF CheckFlips, TypeOK, HasAnswer, MutedIsStored
<1>3. CASE ServerReads
  BY <1>3 DEF ServerReads, TypeOK, HasAnswer, MutedIsStored
<1>4. CASE Lands
  <2>1. Resolve(reply, 0, "network") /\ reply \in View
    BY <1>4 DEF Lands, TypeOK
  <2> QED BY <1>4, <2>1, ResolveTypes DEF Lands, TypeOK, HasAnswer, MutedIsStored
<1>5. CASE FallsBack
  <2>1. Resolve(cache, Old, "copy") /\ cache \in View /\ world \in View
    BY <1>5 DEF FallsBack, TypeOK
  <2> QED BY <1>5, <2>1, ResolveTypes DEF FallsBack, TypeOK, HasAnswer, MutedIsStored
<1>6. CASE Fails
  BY <1>6 DEF Fails, TypeOK, HasAnswer, MutedIsStored
<1>7. CASE IntervalFires
  <2>1. Refresh \in 0..Refresh
    BY PeriodAssumption
  <2> QED BY <1>7, <2>1 DEF IntervalFires, Reload, NoReload, TypeOK, HasAnswer, MutedIsStored
<1>8. CASE Hide
  <2>1. visible' \in BOOLEAN
    BY <1>8 DEF Hide
  <2> QED BY <1>8, <2>1 DEF Hide, TypeOK, HasAnswer, MutedIsStored
<1>9. CASE Show
  BY <1>9 DEF Show, Reload, NoReload, TypeOK, HasAnswer, MutedIsStored
<1>10. CASE PressRefresh
  BY <1>10 DEF PressRefresh, Reload, TypeOK, HasAnswer, MutedIsStored
<1>11. CASE Reopen
  <2>1. Empty \in View /\ Refresh \in 0..Refresh /\ 0 \in 0..Late
    BY PeriodAssumption DEF Empty, View, Late
  <2> QED BY <1>11, <2>1 DEF Reopen, TypeOK, HasAnswer, MutedIsStored
<1>12. CASE SubmitMute \/ SubmitUnmute \/ SaveFails
  BY <1>12 DEF SubmitMute, SubmitUnmute, SaveFails, TypeOK, HasAnswer, MutedIsStored
<1>13. CASE MuteStored
  <2>1. world' \in View /\ world'.mutes > 0
    BY <1>13, PeriodAssumption DEF MuteStored, TypeOK, View
  <2> QED BY <1>13, <2>1 DEF MuteStored, TypeOK, HasAnswer, MutedIsStored
<1>14. CASE MuteHeard
  BY <1>14 DEF MuteHeard, Question, TypeOK, HasAnswer, MutedIsStored
<1>15. CASE UnmuteStored
  <2>1. world' \in View
    BY <1>15, PeriodAssumption DEF UnmuteStored, TypeOK, View
  <2> QED BY <1>15, <2>1 DEF UnmuteStored, TypeOK, HasAnswer, MutedIsStored
<1>16. CASE UnmuteHeard
  BY <1>16 DEF UnmuteHeard, Reload, TypeOK, HasAnswer, MutedIsStored
<1>17. CASE Tick
  <2>1. timer' \in 0..Refresh
    BY <1>17, PeriodAssumption DEF Tick, TypeOK
  <2>2. value' \in Answer \cup {None} /\ (value' = None <=> value = None)
    <3>1. CASE value = None
      BY <1>17, <3>1 DEF Tick
    <3>2. CASE value # None
      <4>1. value \in Answer /\ value' = [value EXCEPT !.age = Older(value.age)]
        BY <1>17, <3>2 DEF Tick, TypeOK
      <4>2. Older(value.age) \in Ages
        BY <4>1, OlderFacts DEF Answer
      <4>3. value' \in Answer
        BY <4>1, <4>2 DEF Answer
      <4> QED BY <3>2, <4>3, AgesFacts
    <3> QED BY <3>1, <3>2
  <2>3. stamp' \in Ages \cup {None} /\ (stamp' = None <=> stamp = None)
    BY <1>17, OlderFacts, AgesFacts DEF Tick, TypeOK
  <2>4. lag' \in 0..Late
    BY <1>17 DEF Tick, TypeOK, Late
  <2> QED BY <1>17, <2>1, <2>2, <2>3, <2>4 DEF Tick, TypeOK, HasAnswer, MutedIsStored
<1>18. CASE UNCHANGED vars
  BY <1>18 DEF vars, TypeOK, HasAnswer, MutedIsStored
<1>19. CASE TickerFires
  <2>1. lag' \in 0..Late
    BY <1>19 DEF TickerFires, Late
  <2> QED BY <1>19, <2>1 DEF TickerFires, TypeOK, HasAnswer, MutedIsStored
<1> QED BY <1>1, <1>2, <1>3, <1>4, <1>5, <1>6, <1>7, <1>8, <1>9, <1>10, <1>11, <1>12,
           <1>13, <1>14, <1>15, <1>16, <1>17, <1>18, <1>19 DEF Next, LoadStep

\* The type invariant of the tab, its worker and its requests.
THEOREM DashboardTypes == Spec => []TypeOK
<1>1. TypeInv => TypeOK
  BY DEF TypeInv
<1> QED BY <1>1, TypeInit, TypeStep, PTL DEF Spec

-----------------------------------------------------------------------------
(* The age of what is shown.                                               *)

\* The data of the store after a step that neither ends a load nor lets time pass.
SameStore == UNCHANGED <<value, from, shown, stamp>>

\* Which steps change the store, and how.
LEMMA StoreSteps ==
  ASSUME TypeInv, [Next]_vars
  PROVE  \/ SameStore
         \/ Lands
         \/ FallsBack
         \/ from' = from /\ value' = value /\ stamp' = stamp /\ shown' = "error"
         \/ from' = "none" /\ shown' = "default"
         \/ Tick
  BY DEF Next, LoadStep, vars, store, request, SameStore, NetChanges, CheckFlips,
         ServerReads, Fails, IntervalFires, TickerFires, Hide, Show, PressRefresh, Reopen, SubmitMute,
         MuteStored, MuteHeard, SubmitUnmute, UnmuteStored, UnmuteHeard, SaveFails

\* No answer of the server is older than the stamp beside it says.
StampInv == from = "network" => stamp # None /\ stamp >= value.age

LEMMA StampStep == TypeInv /\ StampInv /\ [Next]_vars => StampInv'
<1> SUFFICES ASSUME TypeInv, StampInv, [Next]_vars, from' = "network"
             PROVE  stamp' # None /\ stamp' >= value'.age
  BY DEF StampInv
<1>1. CASE Lands
  BY <1>1, AgesFacts DEF Lands, Resolve
<1>2. CASE Tick
  <2>1. /\ from = "network" /\ value \in Answer /\ value # None /\ stamp \in Ages
        /\ stamp >= value.age
    BY <1>2 DEF Tick, StampInv, TypeInv, TypeOK, HasAnswer
  <2>2. stamp' = Older(stamp) /\ value' = [value EXCEPT !.age = Older(value.age)]
    BY <1>2, <2>1, AgesFacts DEF Tick
  <2>3. value.age \in Ages /\ value'.age = Older(value.age)
    BY <2>1, <2>2 DEF Answer
  <2>4. Older(stamp) >= Older(value.age) /\ Older(stamp) \in Ages
    BY <2>1, <2>3, OlderMonotone, OlderFacts
  <2> QED BY <2>2, <2>3, <2>4, AgesFacts
<1>3. CASE SameStore \/ UNCHANGED <<from, value, stamp>>
  BY <1>3 DEF SameStore, StampInv
<1>4. CASE FallsBack
  BY <1>4 DEF FallsBack, Resolve
<1> QED BY <1>1, <1>2, <1>3, <1>4, StoreSteps

\* Until the interval fires, a visible answer is younger by what is left of it.
FreshInv ==
  visible /\ ~IsLoading /\ shown = "answer" /\ from = "network" =>
    value.age + timer <= 2 * Refresh

\* The age shown is the stamp's when the ticker fires, and one turn of it behind
\* after the next.
AgoInv ==
  /\ lag = 0 => ago = stamp
  /\ lag = 1 /\ stamp # None => stamp <= ago + 1

\* A tab whose ticker was held up has just shown itself, with a young answer or
\* while it reloads.
LateInv ==
  lag = Late /\ visible /\ ~IsLoading /\ shown = "answer" /\ from = "network" =>
    stamp <= Refresh

AgeInv == TypeInv /\ StampInv /\ AgoInv /\ LateInv /\ FreshInv

LEMMA AgoStep == TypeInv /\ AgoInv /\ [Next]_vars => AgoInv'
<1> SUFFICES ASSUME TypeInv, AgoInv, [Next]_vars PROVE AgoInv'
  OBVIOUS
<1> USE DEF AgoInv
<1>1. CASE Lands \/ FallsBack
  BY <1>1 DEF Lands, FallsBack, Resolve
<1>2. CASE Tick
  <2>1. lag \in {0, 1, 2} /\ (lag' = 1 => lag = 0) /\ lag' # 0 /\ ago' = ago
    BY <1>2 DEF Tick, TypeInv, TypeOK, Late
  <2>2. ASSUME lag' = 1, stamp' # None PROVE stamp' <= ago' + 1
    <3>1. stamp \in Ages /\ ago = stamp /\ stamp' = Older(stamp)
      BY <1>2, <2>1, <2>2 DEF Tick, TypeInv, TypeOK
    <3> QED BY <2>1, <3>1, OlderFacts
  <2> QED BY <2>1, <2>2
<1>3. CASE TickerFires
  BY <1>3 DEF TickerFires
<1>4. CASE Reopen
  BY <1>4 DEF Reopen
<1>5. CASE UNCHANGED <<lag, ago, stamp>>
  BY <1>5
<1>6. CASE NetChanges \/ CheckFlips \/ ServerReads \/ Fails \/ IntervalFires \/ Hide \/ Show
  BY <1>5, <1>6 DEF NetChanges, CheckFlips, ServerReads, Fails, IntervalFires, Hide, Show,
                    store, timers
<1>7. CASE PressRefresh \/ SubmitMute \/ MuteStored \/ MuteHeard \/ SubmitUnmute \/ UnmuteStored
           \/ UnmuteHeard \/ SaveFails \/ UNCHANGED vars
  BY <1>5, <1>7 DEF PressRefresh, SubmitMute, MuteStored, MuteHeard, SubmitUnmute,
                    UnmuteStored, UnmuteHeard, SaveFails, vars, store, timers
<1> QED BY <1>1, <1>2, <1>3, <1>4, <1>6, <1>7 DEF Next, LoadStep

\* A visible tab that does not load now did not before, or has just shown itself
\* with a young answer, or its load has ended.
LEMMA LoadSteps ==
  ASSUME TypeInv, [Next]_vars, visible', ~IsLoading', shown' = "answer", from' = "network"
  PROVE  \/ Lands
         \/ Tick /\ visible /\ ~IsLoading
         \/ SameStore /\ timer' = timer /\ lag' \in {lag, 0} /\ visible /\ ~IsLoading
         \/ Show /\ SameStore /\ timer' = timer /\ ~(stamp > Refresh)
<1> USE DEF TypeInv, store, timers, request, SameStore, IsLoading
<1>1. CASE NetChanges \/ CheckFlips \/ SubmitMute \/ SubmitUnmute \/ SaveFails \/ MuteStored \/ UnmuteStored
  BY <1>1 DEF NetChanges, CheckFlips, SubmitMute, SubmitUnmute, SaveFails, MuteStored, UnmuteStored
<1>2. CASE LoadStep
  BY <1>2 DEF LoadStep, ServerReads, FallsBack, Resolve, Fails
<1>3. CASE IntervalFires \/ PressRefresh \/ UnmuteHeard \/ MuteHeard \/ Reopen
  BY <1>3 DEF IntervalFires, PressRefresh, UnmuteHeard, MuteHeard, Reopen, Reload, NoReload
<1>4. CASE Hide
  BY <1>4 DEF Hide
<1>5. CASE Show
  <2>1. stamp # None /\ stamp \in Ages
    BY <1>5 DEF Show, HasAnswer, TypeOK
  <2>2. CASE stamp > Refresh
    BY <1>5, <2>1, <2>2 DEF Show, Reload
  <2> QED BY <1>5, <2>1, <2>2 DEF Show
<1>6. CASE Tick
  BY <1>6 DEF Tick
<1>7. CASE UNCHANGED vars
  BY <1>7 DEF vars
<1>8. CASE TickerFires
  BY <1>8 DEF TickerFires
<1> QED BY <1>1, <1>2, <1>3, <1>4, <1>5, <1>6, <1>7, <1>8 DEF Next

LEMMA LateStep == AgeInv /\ [Next]_vars => LateInv'
<1> SUFFICES ASSUME AgeInv, [Next]_vars, lag' = Late,
                    visible', ~IsLoading', shown' = "answer", from' = "network"
             PROVE  stamp' <= Refresh
  BY DEF LateInv
<1>1. CASE Lands
  BY <1>1, PeriodAssumption DEF Lands, Resolve
<1>2. CASE Tick /\ visible /\ ~IsLoading
  BY <1>2 DEF Tick, Late
<1>3. CASE SameStore /\ timer' = timer /\ lag' \in {lag, 0} /\ visible /\ ~IsLoading
  BY <1>3 DEF SameStore, AgeInv, LateInv, Late
<1>4. CASE Show /\ SameStore /\ timer' = timer /\ ~(stamp > Refresh)
  <2>1. stamp \in Nat
    BY <1>4, AgesFacts DEF SameStore, AgeInv, TypeInv, TypeOK, HasAnswer
  <2> QED BY <1>4, <2>1, PeriodAssumption DEF SameStore
<1> QED BY <1>1, <1>2, <1>3, <1>4, LoadSteps DEF AgeInv

LEMMA FreshStep == AgeInv /\ [Next]_vars => FreshInv'
<1> SUFFICES ASSUME AgeInv, [Next]_vars,
                    visible', ~IsLoading', shown' = "answer", from' = "network"
             PROVE  value'.age + timer' <= 2 * Refresh
  BY DEF FreshInv
<1>1. timer \in 0..Refresh /\ Refresh \in Nat
  BY PeriodAssumption DEF AgeInv, TypeInv, TypeOK
<1>2. from = "network" => value \in Answer /\ value.age \in Nat /\ stamp \in Nat
  BY AgesFacts DEF AgeInv, TypeInv, TypeOK, HasAnswer, Answer
<1>3. CASE Lands
  <2>1. value'.age = 0 /\ timer' = timer
    BY <1>3 DEF Lands, Resolve, timers
  <2> QED BY <1>1, <2>1
<1>4. CASE Tick /\ visible /\ ~IsLoading
  <2>1. /\ from = "network" /\ shown = "answer" /\ value # None
        /\ timer' = timer - 1
        /\ value' = [value EXCEPT !.age = Older(value.age)]
    BY <1>4, <1>2, AgesFacts DEF Tick
  <2>2. value.age + timer <= 2 * Refresh
    BY <1>4, <2>1 DEF AgeInv, FreshInv
  <2>3. value'.age = Older(value.age) /\ value.age \in Ages
    BY <1>2, <2>1 DEF Answer
  <2>4. Older(value.age) <= value.age + 1 /\ Older(value.age) \in Nat
    BY <2>3, OlderFacts, AgesFacts
  <2> QED BY <1>1, <1>2, <2>1, <2>2, <2>3, <2>4
<1>5. CASE SameStore /\ timer' = timer /\ lag' \in {lag, 0} /\ visible /\ ~IsLoading
  BY <1>5 DEF SameStore, AgeInv, FreshInv
<1>6. CASE Show /\ SameStore /\ timer' = timer /\ ~(stamp > Refresh)
  <2>1. from = "network" /\ value' = value
    BY <1>6 DEF SameStore
  <2>2. stamp >= value.age
    BY <2>1 DEF AgeInv, StampInv
  <2> QED BY <1>1, <1>2, <1>6, <2>1, <2>2
<1> QED BY <1>3, <1>4, <1>5, <1>6, LoadSteps DEF AgeInv

LEMMA AgeInit == Init => AgeInv
<1>1. Init => StampInv /\ AgoInv /\ LateInv /\ FreshInv
  BY DEF Init, StampInv, AgoInv, LateInv, FreshInv, IsLoading
<1> QED BY <1>1, TypeInit DEF AgeInv

LEMMA AgeStep == AgeInv /\ [Next]_vars => AgeInv'
<1>1. AgeInv /\ [Next]_vars => TypeInv' /\ StampInv' /\ AgoInv'
  BY TypeStep, StampStep, AgoStep DEF AgeInv
<1> QED BY <1>1, LateStep, FreshStep DEF AgeInv

\* "checked 3m ago" (problems-store.ts:32-40,55) makes an answer of the server look
\* younger than it is by one turn of the ticker at most, and by a period at most in
\* a tab that was hidden and whose ticker has not fired yet.
THEOREM StampsAreTrue == Spec => []StampIsTrue
<1>1. AgeInv => StampIsTrue
  <2> SUFFICES ASSUME AgeInv, from = "network"
               PROVE  /\ lag # Late => value.age <= ago + 1
                      /\ visible /\ ~IsLoading /\ shown = "answer" => value.age <= ago + Refresh
    BY DEF StampIsTrue
  <2>1. value.age \in Nat /\ stamp \in Nat /\ ago \in Nat /\ value.age <= stamp
    BY AgesFacts DEF AgeInv, TypeInv, TypeOK, HasAnswer, StampInv, Answer
  <2>2. lag \in {0, 1, Late} /\ Refresh \in Nat /\ Refresh >= 1
    BY PeriodAssumption DEF AgeInv, TypeInv, TypeOK, Late
  <2>3. lag # Late => value.age <= ago + 1
    BY <2>1, <2>2, AgesFacts, NoneAssumption DEF AgeInv, AgoInv
  <2>4. CASE lag = Late
    BY <2>1, <2>2, <2>4 DEF AgeInv, LateInv
  <2> QED BY <2>1, <2>2, <2>3, <2>4
<1> QED BY <1>1, AgeInit, AgeStep, PTL DEF Spec

\* What a visible tab shows as the server's answer is at most two periods old
\* (problems-store.ts:52-62), whatever the period.
THEOREM VisibleIsFresh == Spec => []FreshWhileVisible
<1>1. AgeInv => FreshWhileVisible
  <2> SUFFICES ASSUME AgeInv, visible, ~IsLoading, shown = "answer", from = "network"
               PROVE  value.age <= 2 * Refresh
    BY DEF FreshWhileVisible
  <2>1. value.age + timer <= 2 * Refresh
    BY DEF AgeInv, FreshInv
  <2>2. value \in Answer
    BY DEF AgeInv, TypeInv, TypeOK, HasAnswer
  <2>3. value.age \in Nat
    BY <2>2, AgesFacts DEF Answer
  <2>4. timer \in Nat /\ Refresh \in Nat
    BY PeriodAssumption DEF AgeInv, TypeInv, TypeOK
  <2> QED BY <2>1, <2>3, <2>4
<1> QED BY <1>1, AgeInit, AgeStep, PTL DEF Spec

-----------------------------------------------------------------------------
(* A mute that was heard shows.                                            *)

\* A mute that stands is on the server, and in every answer the server reads
\* for a load that was asked after it.
AskedInv ==
  /\ asked # "none" => world.mutes > 0
  /\ asked = "anew" /\ load = "read" => reply.mutes > 0

MuteInv == TypeInv /\ AskedInv /\ MuteShowsUnlessOvertaken

LEMMA AskedStep == TypeInv /\ AskedInv /\ [Next]_vars => AskedInv'
<1> SUFFICES ASSUME TypeInv, AskedInv, [Next]_vars PROVE AskedInv'
  OBVIOUS
<1> USE DEF AskedInv, store, timers, request
<1>1. world \in View /\ MutedIsStored
  BY DEF TypeInv, TypeOK
<1>2. CASE NetChanges \/ TickerFires \/ Hide \/ SubmitMute \/ SubmitUnmute \/ SaveFails
  BY <1>2 DEF NetChanges, TickerFires, Hide, SubmitMute, SubmitUnmute, SaveFails
<1>3. CASE CheckFlips
  BY <1>1, <1>3 DEF CheckFlips, View
<1>4. CASE LoadStep
  BY <1>4 DEF LoadStep, ServerReads, Lands, FallsBack, Fails, Resolve
<1>5. CASE IntervalFires \/ Show \/ PressRefresh \/ UnmuteHeard
  BY <1>5 DEF IntervalFires, Show, PressRefresh, UnmuteHeard, Reload, NoReload, IsLoading
<1>6. CASE Reopen
  BY <1>6 DEF Reopen
<1>7. CASE MuteStored
  BY <1>1, <1>7, PeriodAssumption DEF MuteStored, View
<1>8. CASE MuteHeard
  BY <1>1, <1>8 DEF MuteHeard, Question, IsLoading, MutedIsStored
<1>9. CASE UnmuteStored
  BY <1>9 DEF UnmuteStored
<1>10. CASE Tick
  BY <1>10 DEF Tick
<1>11. CASE UNCHANGED vars
  BY <1>11 DEF vars
<1> QED BY <1>2, <1>3, <1>4, <1>5, <1>6, <1>7, <1>8, <1>9, <1>10, <1>11 DEF Next

LEMMA ShowsStep == MuteInv /\ [Next]_vars => MuteShowsUnlessOvertaken'
<1> SUFFICES ASSUME MuteInv, [Next]_vars,
                    asked' = "anew", ~IsLoading', shown' = "answer", from' = "network"
             PROVE  Data'.mutes > 0
  BY DEF MuteShowsUnlessOvertaken
<1>1. AskedInv /\ HasAnswer
  BY DEF MuteInv, TypeInv
<1>2. CASE Lands
  <2>1. value' = [seen |-> reply, age |-> 0] /\ value' # None /\ asked = "anew" /\ load = "read"
    BY <1>2, ResolveTypes DEF Lands, Resolve, MuteInv, TypeInv, TypeOK
  <2> QED BY <1>1, <2>1 DEF AskedInv, Data
<1>3. CASE ~Lands
  <2>1. asked = "anew" /\ ~IsLoading /\ shown = "answer" /\ from = "network"
        /\ value.seen = value'.seen /\ value' # None /\ value # None
    <3> USE DEF store, request, IsLoading
    <3>1. CASE LoadStep \/ Reopen \/ TickerFires \/ Hide \/ NetChanges \/ CheckFlips
      BY <1>1, <1>3, <3>1 DEF LoadStep, ServerReads, FallsBack, Fails, Resolve, Reopen,
                              TickerFires, Hide, NetChanges, CheckFlips, HasAnswer
    <3>2. CASE IntervalFires \/ Show \/ PressRefresh \/ UnmuteHeard
      BY <1>1, <3>2 DEF IntervalFires, Show, PressRefresh, UnmuteHeard, Reload, NoReload, HasAnswer
    <3>3. CASE SubmitMute \/ MuteStored \/ MuteHeard \/ SubmitUnmute \/ UnmuteStored \/ SaveFails
      BY <1>1, <3>3 DEF SubmitMute, MuteStored, MuteHeard, SubmitUnmute, UnmuteStored,
                        SaveFails, HasAnswer
    <3>4. CASE Tick
      <4>1. value # None /\ value \in Answer /\ value' = [value EXCEPT !.age = Older(value.age)]
        BY <1>1, <3>4 DEF Tick, HasAnswer, MuteInv, TypeInv, TypeOK
      <4>2. value'.seen = value.seen /\ value' # None
        BY <4>1, <3>4, TypeStep DEF Answer, MuteInv, TypeInv, HasAnswer
      <4> QED BY <3>4, <4>1, <4>2 DEF Tick
    <3>5. CASE UNCHANGED vars
      BY <1>1, <3>5 DEF vars, HasAnswer
    <3> QED BY <3>1, <3>2, <3>3, <3>4, <3>5 DEF Next
  <2>2. Data.mutes > 0
    BY <2>1 DEF MuteInv, MuteShowsUnlessOvertaken
  <2> QED BY <2>1, <2>2 DEF Data
<1> QED BY <1>2, <1>3

\* Once a mute was heard, the next answer of the server shows it, unless its load
\* was already under way then (problems.ts:127-131).
THEOREM MutesShow == Spec => []MuteShowsUnlessOvertaken
<1>1. Init => MuteInv
  <2>1. Init => AskedInv /\ MuteShowsUnlessOvertaken
    BY DEF Init, AskedInv, MuteShowsUnlessOvertaken
  <2> QED BY <2>1, TypeInit DEF MuteInv
<1>2. MuteInv /\ [Next]_vars => MuteInv'
  BY TypeStep, AskedStep, ShowsStep DEF MuteInv
<1>3. MuteInv => MuteShowsUnlessOvertaken
  BY DEF MuteInv
<1> QED BY <1>1, <1>2, <1>3, PTL DEF Spec
============================================================================
