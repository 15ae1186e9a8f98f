------------------------------- MODULE MCPool -------------------------------
(* Two connections for two ingests of one producer, a view of two           *)
(* statements and a probe. A client that asks again sends the same report.  *)
EXTENDS Pool

CONSTANTS first, other, page, probe, firstId, otherId, pointer

TheIngests == {first, other}
TheViews == {page}
ThePings == {probe}
TheRows == {firstId, otherId, pointer}
TheReportRow == [r \in TheIngests |-> IF r = first THEN firstId ELSE otherId]
ThePointerRow == [r \in TheIngests |-> pointer]
============================================================================
