------------------------------ MODULE MCSignIn ------------------------------
(* Two tabs of one browser, on different pages.                             *)
EXTENDS SignIn

CONSTANTS t1, t2, slash, history

TwoTabs    == {t1, t2}
TwoPaths   == {slash, history}
SixNonces  == 1..6
TwoSessions == 1..2   \* a login makes one at the most
=============================================================================
