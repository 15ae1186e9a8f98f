----------------------------- MODULE MCArrivals -----------------------------
(* Six days of a daily producer with a section of up to two checks, which    *)
(* are interchangeable, and two changes of it.                               *)
EXTENDS Arrivals, TLC

CONSTANTS disk, backup

TheChecks == {disk, backup}

Interchangeable == Permutations(TheChecks)
============================================================================
