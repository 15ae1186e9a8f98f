------------------------------ MODULE MCBoard ------------------------------
(* Instances of Board small enough for TLC.                                 *)
EXTENDS Board, TLC

CONSTANTS p1, disk, tls, m1, m2

OneProducer == {p1}
Nothing     == {}
OneId       == {1}
TwoIds      == {1, 2}
OneLabel    == {disk}
TwoLabels   == {disk, tls}
OneMute     == {m1}
TwoMutes    == {m1, m2}

C(l, v) == [label |-> l, verdict |-> v]

OneLabelLists == {{C(disk, "fail")}, {C(disk, "pass")}}
FailAndWarn   == {{C(disk, "fail"), C(tls, "fail")}, {C(disk, "warn"), C(tls, "pass")}}

TwoLabelLists == {{C(disk, "fail"), C(tls, "fail")},
                  {C(disk, "warn"), C(tls, "pass")},
                  {C(disk, "pass")}}

\* One report says how often its producer runs, the other does not.
FirstDeclares == [i \in TwoIds |-> IF i = 1 THEN 2 ELSE None]
Undeclared    == [i \in TwoIds |-> None]

ShortAndLong == {0, 100}    \* both out of range
Shortest     == {0}

Symmetry == Permutations(MuteIds)
============================================================================
