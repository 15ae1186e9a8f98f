---------------------------- MODULE BoardReader ----------------------------
(***************************************************************************)
(* repo::problems: four queries on the pool, one after the other and with  *)
(* no transaction around them, put together into one answer.  Anything the *)
(* rest of the service does can come between two of them.                  *)
(*   idle -> rows -> mutes -> retirements -> idle, with the answer         *)
(***************************************************************************)
EXTENDS Board

VARIABLES
  pc,      \* the query that was answered last
  seen,    \* what the queries have returned so far
  wrong,   \* producers in trouble at every instant since the read began
  calm     \* no report, retirement or un-retirement since it began

reader == <<pc, seen>>
readerVars == <<vars, pc, seen, wrong, calm>>

\* The fail and warn rows of the newest reports.
ReadRows ==
  /\ pc = "idle"
  /\ pc' = "rows"
  /\ seen' = [rows |-> ProblemRows]
  /\ UNCHANGED vars

\* Mutant: expired mutes are fetched too.
ReadMutesAll ==
  /\ pc = "rows"
  /\ pc' = "mutes"
  /\ seen' = [rows |-> seen.rows, asof |-> now,
              live |-> {mutes[m] : m \in {k \in MuteIds : mutes[k] # None}}]
  /\ UNCHANGED vars

\* The live mutes: the overlay of the rows, and the candidates for lapsing.
ReadMutes ==
  /\ pc = "rows"
  /\ pc' = "mutes"
  /\ seen' = [rows |-> seen.rows, asof |-> now,
              live |-> {mutes[m] : m \in Live(mutes)}]
  /\ UNCHANGED vars

ReadRetirements ==
  /\ pc = "mutes"
  /\ pc' = "retirements"
  /\ seen' = [rows |-> seen.rows, asof |-> seen.asof, live |-> seen.live,
              gone |-> retired]
  /\ UNCHANGED vars

\* What the reader answers if the overview query runs now.
Answer == Assemble(seen.rows, seen.live, seen.gone, Overview)

\* The overview query, and the answer.
ReadOverview ==
  /\ pc = "retirements"
  /\ pc' = "idle" /\ seen' = None
  /\ UNCHANGED vars

ReadStep == ReadRows \/ ReadMutes \/ ReadRetirements \/ ReadOverview

\* What the answer is judged by.
Witness ==
  /\ wrong' = IF pc' = "idle" THEN {}
              ELSE (IF pc = "idle" THEN Trouble(View) ELSE wrong) \cap Trouble(View)'
  /\ calm' = (pc' = "idle" \/ pc = "idle" \/ (calm /\ UNCHANGED <<ledger, retired>>))

ReaderInit == Init /\ pc = "idle" /\ seen = None /\ wrong = {} /\ calm = TRUE

ReaderNext == ((Next /\ UNCHANGED reader) \/ ReadStep) /\ Witness

ReaderSpec == ReaderInit /\ [][ReaderNext]_readerVars

\* Time passes, and somebody keeps asking.
ReaderFairSpec ==
  /\ ReaderSpec
  /\ WF_readerVars(Tick /\ UNCHANGED reader /\ Witness)
  /\ WF_readerVars(ReadStep /\ Witness)

-----------------------------------------------------------------------------
(* Properties.                                                             *)

\* A producer that is in trouble at every instant of a read is in its answer,
\* although the four queries see four instants: the view is "what's wrong right
\* now" (types.rs, Problems).
SteadyTroubleIsShown ==
  pc = "retirements" => wrong \subseteq Trouble(Answer)

\* So it is when no report arrives and no retirement changes during the read,
\* for all that mutes, sweeps and the clock do between the queries.
CalmTroubleIsShown ==
  pc = "retirements" /\ calm => wrong \subseteq Trouble(Answer)

\* Silence is noticed by whoever keeps asking: the newest report of a producer
\* is succeeded by another, or the producer is retired, or the producer ends up
\* listed as stale ("a monitor's worst failure mode is a dead producer looking
\* green", design.md), as long as the bounded clock lets the report grow old.
SilenceIsNoticed ==
  \A p \in Producers, i \in Ids :
    [](/\ newest[p] = i /\ retired[p] = None
       /\ Freshness(MaxTime - ledger[i].at, Interval[i]) # "fresh"
       => <>(\/ newest[p] # i \/ retired[p] # None
             \/ pc = "retirements" /\ p \in Answer.stale))
============================================================================
