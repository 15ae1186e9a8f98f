------------------------------- MODULE Poller -------------------------------
(***************************************************************************)
(* The phone: every half hour a worker fetches /api/problems, compares the *)
(* part worth waking somebody for with the fingerprint it remembers, and   *)
(* clears, leaves or posts the one notification of the app.                *)
(*   idle -> fetched (Fetch) -> acted (Act) -> idle (Remember)             *)
(* The remembered fingerprint is a preference: an edit is in memory at     *)
(* once and on disk later, and a process that dies keeps what was on disk. *)
(***************************************************************************)
EXTENDS FiniteSets, Integers

CONSTANTS
  Boards,       \* the answers of /api/problems that occur
  None,
  MaxDeaths     \* bound: deaths of the app's process

VARIABLES
  fleet,        \* what /api/problems would answer now
  pc,           \* the worker's progress
  got,          \* the answer it fetched
  mark,         \* the fingerprint poll() returned, to be remembered
  last,         \* preference KEY_LAST_FINGERPRINT, in memory
  disk,         \* the same, as written
  permitted,    \* POST_NOTIFICATIONS granted
  shade,        \* what the posted notification says, {} when there is none
  told,         \* what the phone last said: a posted set, or that all is clear
  deaths

worker == <<pc, got, mark>>
prefs  == <<last, disk>>
vars   == <<fleet, worker, prefs, permitted, shade, told, deaths>>

Entry == [what: STRING, kind: {"check", "stale", "returned"},
          verdict: {"fail", "warn", "none"}, confirmed: BOOLEAN]

ASSUME BoardsAssumption == \A b \in Boards : b \subseteq Entry /\ IsFiniteSet(b)
ASSUME DeathsAssumption == MaxDeaths \in Nat

-----------------------------------------------------------------------------
\* Failures seen twice, silent producers, returned ones; no warnings.
Notifiable(board) ==
  {e \in board : e.kind # "check" \/ (e.verdict # "warn" /\ e.confirmed)}

\* The identities in a set of entries; "" for no entry is the set {}.
Fingerprint(entries) == {<<e.kind, e.what, e.verdict>> : e \in entries}

Alerting == Notifiable(got)

\* Every fingerprint there can be.
Marks == {Fingerprint(b) : b \in SUBSET UNION Boards}

ASSUME NoneAssumption == None \notin Boards /\ None \notin Marks

\* Mutant: the remembered fingerprint is not consulted.
StepAlways(alerting, before) ==
  IF alerting = {} /\ before = before THEN "CLEAR" ELSE "FIRE"

\* What a poll should do, given the fingerprint last remembered.
Step(alerting, before) ==
  CASE alerting = {} -> "CLEAR"
    [] alerting # {} /\ Fingerprint(alerting) = before -> "QUIET"
    [] alerting # {} /\ Fingerprint(alerting) # before -> "FIRE"

\* Mutant: what was computed is remembered, delivered or not.
RememberedAnyway(step, delivered, now, before) ==
  IF step = "QUIET" THEN before ELSE now

\* Mutant: recovery is not recorded.
RememberedFires(step, delivered, now, before) ==
  IF step = "FIRE" /\ delivered THEN now ELSE before

\* The fingerprint to remember after acting.
Remembered(step, delivered, now, before) ==
  CASE step = "CLEAR" -> now
    [] step = "QUIET" -> before
    [] step = "FIRE" -> IF delivered THEN now ELSE before

-----------------------------------------------------------------------------
Init ==
  /\ fleet \in Boards
  /\ pc = "idle" /\ got = None /\ mark = None
  /\ last = {} /\ disk = {}
  /\ permitted \in BOOLEAN
  /\ shade = {} /\ told = {} /\ deaths = 0

\* The server's answer changes.
FleetChanges(board) ==
  /\ fleet' = board
  /\ UNCHANGED <<worker, prefs, permitted, shade, told, deaths>>

\* A poll that reaches the server; one that does not is retried later.
Fetch ==
  /\ pc = "idle"
  /\ pc' = "fetched" /\ got' = fleet
  /\ UNCHANGED <<fleet, mark, prefs, permitted, shade, told, deaths>>

\* poll(): decide on the remembered fingerprint and act on the notification.
Act ==
  /\ pc = "fetched"
  /\ LET step      == Step(Alerting, last)
         delivered == step = "FIRE" => permitted
     IN /\ shade' = CASE step = "CLEAR" -> {}
                      [] step = "QUIET" -> shade
                      [] step = "FIRE"  -> IF delivered THEN Alerting ELSE shade
        /\ told' = CASE step = "CLEAR" -> {}
                     [] step = "QUIET" -> told
                     [] step = "FIRE"  -> IF delivered THEN Fingerprint(Alerting) ELSE told
        /\ mark' = Remembered(step, delivered, Fingerprint(Alerting), last)
  /\ pc' = "acted"
  /\ UNCHANGED <<fleet, got, prefs, permitted, deaths>>

\* prefs.edit: in memory.
Remember ==
  /\ pc = "acted"
  /\ last' = mark
  /\ pc' = "idle" /\ got' = None /\ mark' = None
  /\ UNCHANGED <<fleet, disk, permitted, shade, told, deaths>>

\* The edit reaches the disk.
Flush ==
  /\ disk # last
  /\ disk' = last
  /\ UNCHANGED <<fleet, worker, last, permitted, shade, told, deaths>>

\* The system kills the app's process; the notification stays.
Die ==
  /\ deaths < MaxDeaths
  /\ deaths' = deaths + 1
  /\ pc' = "idle" /\ got' = None /\ mark' = None
  /\ last' = disk
  /\ UNCHANGED <<fleet, disk, permitted, shade, told>>

\* The user grants or denies POST_NOTIFICATIONS.
SetPermission ==
  /\ permitted' = ~permitted
  /\ UNCHANGED <<fleet, worker, prefs, shade, told, deaths>>

\* The user swipes the notification away, or taps it.
Dismiss ==
  /\ shade # {}
  /\ shade' = {}
  /\ UNCHANGED <<fleet, worker, prefs, permitted, told, deaths>>

Next ==
  \/ \E board \in Boards : FleetChanges(board)
  \/ Fetch \/ Act \/ Remember \/ Flush
  \/ Die
  \/ SetPermission
  \/ Dismiss

Spec == Init /\ [][Next]_vars

\* The work is periodic and the phone is online again and again; preferences
\* are written in the end.
Fairness == WF_vars(Fetch) /\ WF_vars(Act) /\ WF_vars(Remember) /\ WF_vars(Flush)

FairSpec == Spec /\ Fairness

-----------------------------------------------------------------------------
(* Properties.                                                             *)

\* The type invariant.
TypeOK ==
  /\ fleet \in Boards
  /\ pc \in {"idle", "fetched", "acted"}
  /\ got \in Boards \cup {None} /\ (got = None) = (pc = "idle")
  /\ mark \in Marks \cup {None} /\ (mark # None) = (pc = "acted")
  /\ last \in Marks /\ disk \in Marks /\ told \in Marks
  /\ shade \in SUBSET UNION Boards
  /\ permitted \in BOOLEAN /\ deaths \in 0..MaxDeaths

\* The phone is never quiet about a problem set it has not told since it last
\* said that all was clear ("what is remembered is what was DELIVERED, never
\* what was merely computed", Alerting.kt:15).
QuietOnlyIfTold ==
  pc = "fetched" /\ Step(Alerting, last) = "QUIET" => told = Fingerprint(Alerting)

\* So it is as long as the app's process does not die.
QuietOnlyIfToldAlive == deaths = 0 => QuietOnlyIfTold

\* A death can make the phone repeat itself or, at worst, stay quiet about a
\* set it did tell at some time: what it remembers is what it said, or what it
\* had said when it last wrote it down.
MarkWasTold ==
  [][last' # last => last' = told \/ last' = disk]_vars

\* While its process lives, the phone never posts the same set twice without
\* an all-clear between ("saying it again teaches you to swipe").
NoRepeats ==
  [][told' # {} /\ shade' # shade /\ shade' # {} /\ deaths = 0
       => Fingerprint(shade') # told]_vars

\* Once the fleet stays as it is and notifications are allowed, the phone has
\* said exactly what is worth saying, and shows nothing when that is nothing, as
\* long as its process did not die.
EventuallyTold ==
  \A board \in Boards :
    <>[](fleet = board /\ permitted /\ deaths = 0)
      => <>[](/\ told = Fingerprint(Notifiable(board))
              /\ Notifiable(board) = {} => shade = {})
============================================================================
