----------------------------- MODULE MCPoller ------------------------------
(* Instances of Poller small enough for TLC.                                *)
EXTENDS Poller

E(w, k, v, c) == [what |-> w, kind |-> k, verdict |-> v, confirmed |-> c]

Fail    == E("disk", "check", "fail", TRUE)
New     == E("tls", "check", "fail", FALSE)
Warning == E("tls", "check", "warn", TRUE)
Silent  == E("mac", "stale", "none", TRUE)
Back    == E("mac", "returned", "none", TRUE)

SomeBoards == {{}, {Fail}, {Fail, Silent}, {Back, New}, {Warning}}
============================================================================
