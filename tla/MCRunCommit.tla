---------------------------- MODULE MCRunCommit ----------------------------
(* A small instance of RunCommit for TLC: two runs with rising marks.         *)
EXTENDS RunCommit

MCRuns == 1..2
MCRisingMark == <<1, 2>>
=============================================================================
