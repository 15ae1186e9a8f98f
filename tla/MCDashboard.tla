---------------------------- MODULE MCDashboard ----------------------------
(* Dashboard with a refresh every two turns of the ticker and at most one    *)
(* mute of the check at a time.                                              *)
EXTENDS Dashboard
============================================================================
