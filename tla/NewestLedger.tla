---------------------------- MODULE NewestLedger ----------------------------
(***************************************************************************)
(* What the write path of fleetwatch promises, with no transactions,       *)
(* handlers, spools or retries: a ledger of reports in which each report   *)
(* appears once, whole, and at one instant; at that instant, and at no     *)
(* other, the newest report of its producer and the producer's failing     *)
(* runs are what the ledger says they are.                                 *)
(***************************************************************************)
EXTENDS Integers

CONSTANTS Producers, Ids, Times, Labels, CheckLists, None

VARIABLES
  ledger,   \* the reports, by id
  newest,   \* each producer's newest report, None before its first
  open      \* each producer's open failing runs: when each label's began

vars == <<ledger, newest, open>>

Row == [prod: Producers, at: Times, checks: CheckLists]

Failing(checks) == {c.label : c \in {d \in checks : d.verdict \in {"fail", "warn"}}}

Of(table, p) == {i \in Ids : table[i] # None /\ table[i].prod = p}

Later(table, i, j) ==
  table[i].at > table[j].at \/ (table[i].at = table[j].at /\ i > j)

\* n is the newest report of p.
IsNewest(table, p, n) ==
  IF Of(table, p) = {}
  THEN n = None
  ELSE n \in Of(table, p) /\ \A i \in Of(table, p) \ {n} : Later(table, n, i)

Init ==
  /\ ledger = [i \in Ids |-> None]
  /\ newest = [p \in Producers |-> None]
  /\ open = [p \in Producers |-> [l \in Labels |-> None]]

\* A report enters the ledger.  A report that is older than the newest one
\* changes nothing else; the newest one continues the runs it still shows
\* failing, starts the others it shows failing, and ends the rest.
Store(i, row) ==
  /\ ledger[i] = None
  /\ ledger' = [ledger EXCEPT ![i] = row]
  /\ newest' \in [Producers -> Ids \cup {None}]
  /\ \A p \in Producers : IsNewest(ledger', p, newest'[p])
  /\ open' = [open EXCEPT ![row.prod] =
       IF newest'[row.prod] # i
       THEN @
       ELSE [l \in Labels |-> IF l \notin Failing(row.checks) THEN None
                              ELSE IF @[l] = None THEN row.at ELSE @[l]]]

Next == \E i \in Ids, row \in Row : Store(i, row)

Spec == Init /\ [][Next]_vars
=============================================================================
