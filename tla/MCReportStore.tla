--------------------------- MODULE MCReportStore ---------------------------
(* Instances of ReportStore small enough for TLC.                          *)
EXTENDS ReportStore, TLC

CONSTANTS p1, p2, disk, tls, h1, h2

OneProducer  == {p1}
TwoProducers == {p1, p2}
ThreeIds     == {1, 2, 3}
MsStamps     == {1000, 2000}   \* whole milliseconds
UsStamps     == {1001, 2000}   \* one that its column cuts off
OneLabel     == {disk}
TwoLabels    == {disk, tls}

C(l, v) == [label |-> l, verdict |-> v]

OneFailure == {{C(disk, "fail")}}

\* One report shows a label both failing and passing, in two sections; one
\* passes it and fails another, which the first does not mention.
TwoLabelLists == {{C(disk, "fail"), C(disk, "pass")},
                  {C(disk, "pass"), C(tls, "fail")}}

TwoHandlers == {h1, h2}
GoodForms   == {"ok"}
AllForms    == {"ok", "malformed", "wide"}
Nobody      == {}
TheLast     == {3}     \* the id that wins a tie

\* Handlers are interchangeable.
Symmetry == Permutations(Handlers)
============================================================================
