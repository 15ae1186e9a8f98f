----------------------------- MODULE Dashboard -----------------------------
(***************************************************************************)
(* The problems page in one browser tab: the shared store that re-asks     *)
(* /api/problems on a timer and when the tab is shown again, the service   *)
(* worker that answers from its copy when the network is too slow, and the *)
(* page's requests to mute and unmute, with one check on the page.         *)
(*                                                                         *)
(* Time is counted in ticks of the 10 s at which the page looks at the     *)
(* clock, Refresh of which make one period.  A request that is answered at *)
(* all is answered within its tick, except a load of a worker that has no  *)
(* copy yet, which waits for the network.                                  *)
(***************************************************************************)
EXTENDS Integers

CONSTANTS
  Refresh,    \* REFRESH_MS in ticks
  MaxMutes,   \* bound: live mutes of the check
  None

ASSUME PeriodAssumption == Refresh \in Nat \ {0} /\ MaxMutes \in Nat \ {0}

\* Bound: ages are counted up to here, past every limit a property mentions.
Old  == 2 * Refresh + 1
Ages == 0..Old
Older(age) == IF age = Old THEN Old ELSE age + 1

\* Bound: the age of nowMs from which the ticker has missed its turn.
Late == 2

\* What the server knows of the check, and the page shows of it.
View   == [failing: BOOLEAN, mutes: 0..MaxMutes]
Answer == [seen: View, age: Ages]
Empty  == [failing |-> FALSE, mutes |-> 0]

ASSUME NoneAssumption == None \notin Nat \cup View \cup Answer

VARIABLES
  net,      \* the server as the worker finds it: "up", "slow" (past 3 s), "down"
  world,    \* the check and its mutes, on the server
  cache,    \* the worker's copy of the last answer
  load,     \* the page's load: "none", "sent", or "read" and on its way back
  reply,    \* what the server read for it
  value,    \* the answer the page holds
  from,     \* where it came from: "none", "network", "copy"
  shown,    \* "default", "answer", "error": the resource's status when settled
  stamp,    \* age of fetchedAt
  ago,      \* the age the page shows: how far nowMs is past fetchedAt, at least 0
  timer,    \* ticks until the refresh interval fires
  lag,      \* age of nowMs, Late once the ticker has missed its turn
  visible,
  job,      \* a mute or unmute being saved: "none", "mute", "muted" and not yet
            \* heard of, "unmute", "unmuted"
  asked     \* a mute of this page was heard and stands: the page asked "anew"
            \* after it, or was "overtaken" by a load already under way

store   == <<value, from, shown, stamp, ago>>
timers  == <<timer, lag>>
request == <<load, reply>>
vars    == <<net, world, cache, request, store, timers, visible, job, asked>>

-----------------------------------------------------------------------------
(* What the page makes of its data.                                        *)

Data == IF value = None THEN Empty ELSE value.seen

IsLoading == load # "none"

\* The rows with a Mute and an Unmute button.
RowShown   == shown # "error" /\ Data.failing /\ Data.mutes = 0
MutedShown == shown # "error" /\ Data.failing /\ Data.mutes > 0

Init ==
  /\ net \in {"up", "slow", "down"}
  /\ world \in [failing: BOOLEAN, mutes: {0}]
  /\ cache = None
  /\ load = "sent" /\ reply = Empty /\ value = None /\ from = "none" /\ shown = "default"
  /\ stamp = None /\ ago = None /\ timer = Refresh /\ lag = 0
  /\ visible \in BOOLEAN
  /\ job = "none" /\ asked = "none"

-----------------------------------------------------------------------------
(* The server and the way to it.                                           *)

NetChanges ==
  /\ net' \in {"up", "slow", "down"} \ {net}
  /\ UNCHANGED <<world, cache, request, store, timers, visible, job, asked>>

CheckFlips ==
  /\ world' = [world EXCEPT !.failing = ~@]
  /\ UNCHANGED <<net, cache, request, store, timers, visible, job, asked>>

-----------------------------------------------------------------------------
(* The store: data.reload() and how a load ends.                           *)

\* data.reload(): a load under way is not restarted.
Reload ==
  /\ load'  = IF IsLoading THEN load ELSE "sent"
  /\ asked' = IF ~IsLoading /\ asked = "overtaken" THEN "anew" ELSE asked
  /\ reply' = reply

NoReload == UNCHANGED <<request, asked>>

\* The effect on a status of "resolved", and the data with it. nowMs is not ahead
\* of the stamp, so the page shows an age of 0 until the ticker sets it again.
Resolve(seen, age, origin) ==
  /\ value' = [seen |-> seen, age |-> age] /\ from' = origin /\ shown' = "answer"
  /\ stamp' = 0 /\ ago' = 0
  /\ load' = "none" /\ reply' = Empty

\* The handler reads its tables; the answer is on its way.
ServerReads ==
  /\ load = "sent" /\ net # "down"
  /\ load' = "read" /\ reply' = world
  /\ UNCHANGED <<net, world, cache, store, timers, visible, job, asked>>

\* The answer arrives; the worker keeps a copy.
Lands ==
  /\ load = "read"
  /\ Resolve(reply, 0, "network")
  /\ cache' = reply
  /\ UNCHANGED <<net, world, timers, visible, job, asked>>

\* No answer within 3 s, or no network: the worker serves its copy, whose age
\* nobody knows.  A request that is only slow may still be answered, and the
\* copy replaced by that.
FallsBack ==
  /\ IsLoading /\ net # "up" /\ cache # None
  /\ Resolve(cache, Old, "copy")
  /\ cache' \in IF net = "slow" THEN {cache, world} ELSE {cache}
  /\ UNCHANGED <<net, world, timers, visible, job, asked>>

\* Mutant: the stamp is set whenever a load ends.
FailsStamping ==
  /\ load = "sent"
  /\ net = "down" => cache = None
  /\ load' = "none" /\ shown' = "error" /\ stamp' = 0 /\ ago' = 0
  /\ UNCHANGED <<net, world, cache, reply, value, from, timers, visible, job, asked>>

\* An error response, which the worker passes on, or no network and no copy.
Fails ==
  /\ load = "sent"
  /\ net = "down" => cache = None
  /\ load' = "none" /\ shown' = "error"
  /\ UNCHANGED <<net, world, cache, reply, value, from, stamp, ago, timers, visible,
                 job, asked>>

-----------------------------------------------------------------------------
(* When the store re-asks.                                                 *)

\* Mutant: the interval asks only while hidden.
IntervalFiresHidden ==
  /\ timer = 0
  /\ timer' = Refresh
  /\ IF visible THEN NoReload ELSE Reload
  /\ UNCHANGED <<net, world, cache, store, lag, visible, job>>

IntervalFires ==
  /\ timer = 0
  /\ timer' = Refresh
  /\ IF visible THEN Reload ELSE NoReload
  /\ UNCHANGED <<net, world, cache, store, lag, visible, job>>

\* tick: nowMs is set, and the age shown with it.
TickerFires ==
  /\ lag > 0
  /\ lag' = 0 /\ ago' = stamp
  /\ UNCHANGED <<net, world, cache, request, value, from, shown, stamp, timer, visible,
                 job, asked>>

Hide ==
  /\ visible
  /\ visible' = FALSE
  /\ UNCHANGED <<net, world, cache, request, store, timers, job, asked>>

\* Mutant: coming back goes by the age that is shown.
ShowByTicker ==
  /\ ~visible
  /\ visible' = TRUE
  /\ IF ago # None /\ ago > Refresh THEN Reload ELSE NoReload
  /\ UNCHANGED <<net, world, cache, store, timers, job>>

\* onVisible.
Show ==
  /\ ~visible
  /\ visible' = TRUE
  /\ IF stamp # None /\ stamp > Refresh THEN Reload ELSE NoReload
  /\ UNCHANGED <<net, world, cache, store, timers, job>>

\* The Refresh button, disabled while loading.
PressRefresh ==
  /\ visible /\ ~IsLoading
  /\ Reload
  /\ UNCHANGED <<net, world, cache, store, timers, visible, job>>

\* The app is closed, or updates itself, and is opened again: nothing but the
\* worker's copy is kept.
Reopen ==
  /\ load' = "sent" /\ reply' = Empty /\ value' = None /\ from' = "none" /\ shown' = "default"
  /\ stamp' = None /\ ago' = None /\ timer' = Refresh /\ lag' = 0 /\ visible' = TRUE
  /\ job' = "none" /\ asked' = "none"
  /\ UNCHANGED <<net, world, cache>>

-----------------------------------------------------------------------------
(* The page's requests.                                                    *)

\* submitMute, from the row's form, with a reason typed; saving() admits one at
\* a time.  (unmute has no such guard; the model has one request out in all.)
SubmitMute ==
  /\ visible /\ RowShown /\ job = "none"
  /\ job' = "mute"
  /\ UNCHANGED <<net, world, cache, request, store, timers, visible, asked>>

MuteStored ==
  /\ job = "mute" /\ net # "down" /\ world.mutes < MaxMutes
  /\ world' = [world EXCEPT !.mutes = @ + 1]
  /\ job' = "muted"
  /\ UNCHANGED <<net, cache, request, store, timers, visible, asked>>

\* Whether the reload after a mute asks anew.
Question == IF IsLoading THEN "overtaken" ELSE "anew"

\* Mutant: the page is left to the next refresh.
MuteHeardQuietly ==
  /\ job = "muted"
  /\ job' = "none" /\ asked' = Question
  /\ UNCHANGED <<net, world, cache, request, store, timers, visible>>

\* submitMute: next.
MuteHeard ==
  /\ job = "muted"
  /\ job' = "none" /\ asked' = Question
  /\ load' = IF IsLoading THEN load ELSE "sent"
  /\ UNCHANGED <<net, world, cache, reply, store, timers, visible>>

\* unmute.
SubmitUnmute ==
  /\ visible /\ MutedShown /\ job = "none"
  /\ job' = "unmute"
  /\ UNCHANGED <<net, world, cache, request, store, timers, visible, asked>>

\* A mute that is already gone is a 404, hence SaveFails.
UnmuteStored ==
  /\ job = "unmute" /\ net # "down" /\ world.mutes > 0
  /\ world' = [world EXCEPT !.mutes = @ - 1]
  /\ job' = "unmuted" /\ asked' = "none"
  /\ UNCHANGED <<net, cache, request, store, timers, visible>>

UnmuteHeard ==
  /\ job = "unmuted"
  /\ job' = "none"
  /\ Reload
  /\ UNCHANGED <<net, world, cache, store, timers, visible>>

\* submitMute and unmute: error, whether the request was refused or only its
\* answer was lost.
SaveFails ==
  /\ job # "none"
  /\ job' = "none"
  /\ UNCHANGED <<net, world, cache, request, store, timers, visible, asked>>

-----------------------------------------------------------------------------
\* Time passes once what is due has been done: a visible tab's timers fire on
\* time (a hidden one's may be held up), and the page's load has ended unless
\* the worker has nothing to serve instead.
Tick ==
  /\ visible => timer > 0 /\ lag = 0
  /\ IsLoading => load = "sent" /\ cache = None /\ net # "up"
  /\ timer' \in IF visible THEN {timer - 1} ELSE {timer, timer - 1} \cap Nat
  /\ value' = IF value = None THEN None ELSE [value EXCEPT !.age = Older(@)]
  /\ stamp' = IF stamp = None THEN None ELSE Older(stamp)
  /\ lag' = IF lag = Late THEN Late ELSE lag + 1
  /\ UNCHANGED <<net, world, cache, request, from, shown, ago, visible, job, asked>>

LoadStep == ServerReads \/ Lands \/ FallsBack \/ Fails

Next ==
  \/ NetChanges \/ CheckFlips
  \/ LoadStep
  \/ IntervalFires \/ TickerFires \/ Hide \/ Show \/ PressRefresh \/ Reopen
  \/ SubmitMute \/ MuteStored \/ MuteHeard
  \/ SubmitUnmute \/ UnmuteStored \/ UnmuteHeard \/ SaveFails
  \/ Tick

Spec == Init /\ [][Next]_vars

\* Time goes on, the browser fires the intervals, and a request ends, answered
\* or not.
FairSpec ==
  /\ Spec
  /\ WF_vars(Tick) /\ WF_vars(IntervalFires) /\ WF_vars(TickerFires) /\ WF_vars(LoadStep)

-----------------------------------------------------------------------------
(* Properties.                                                             *)

TypeOK ==
  /\ net \in {"up", "slow", "down"} /\ world \in View
  /\ cache \in View \cup {None}
  /\ load \in {"none", "sent", "read"} /\ reply \in View
  /\ value \in Answer \cup {None} /\ from \in {"none", "network", "copy"}
  /\ shown \in {"default", "answer", "error"} /\ stamp \in Ages \cup {None}
  /\ ago \in Ages \cup {None}
  /\ timer \in 0..Refresh /\ lag \in 0..Late /\ visible \in BOOLEAN
  /\ job \in {"none", "mute", "muted", "unmute", "unmuted"}
  /\ asked \in {"none", "anew", "overtaken"}

\* "A status app left open must not quietly go stale" (problems-store.ts:47):
\* what a visible tab shows as the server's answer, and is not just reloading, is
\* at most two periods old: one passed while it was hidden, and one until the
\* interval fires.
FreshWhileVisible ==
  visible /\ ~IsLoading /\ shown = "answer" /\ from = "network" =>
    value.age <= 2 * Refresh

\* "checked 3m ago" (problems-store.ts:32) makes an answer of the server look at
\* most one turn of the ticker younger than it is, across reloads, failures and time
\* in the background. Until the ticker first fires in a tab that is shown again it
\* may be off by more, by a period at most if the page is not just reloading.  (Of
\* the worker's copy it says when the copy was served.)
StampIsTrue ==
  from = "network" =>
    /\ lag # Late => value.age <= ago + 1
    /\ visible /\ ~IsLoading /\ shown = "answer" => value.age <= ago + Refresh

\* "The client must re-ask, not guess" (problems.spec.ts:97): once a mute
\* was heard, the next answer of the server to arrive shows the check muted,
\* unless the load it belongs to was already under way when the mute was heard.
MuteShowsUnlessOvertaken ==
  asked = "anew" /\ ~IsLoading /\ shown = "answer" /\ from = "network" =>
    Data.mutes > 0

\* A tab that stays visible, with the server within reach, ends up with no answer
\* on the page but what the server has, however the loads, copies and errors before
\* went.  (An error page may stay as long as the server answers with errors.)
Converges ==
  <>[](visible /\ net = "up") /\ <>[][world' = world]_vars =>
    <>[](shown = "answer" => Data = world)
============================================================================
