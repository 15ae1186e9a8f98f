--------------------------- MODULE MCBoardReader ---------------------------
(* Instances of BoardReader small enough for TLC.                           *)
EXTENDS BoardReader, MCBoard
============================================================================
