---------------------------- MODULE MCLoopTiming ----------------------------
(***************************************************************************)
(* Samples of a quarter of a second, so that four of them cross a second:  *)
(* work that ends well before, just before, at, just after and well after  *)
(* the deadline.                                                           *)
(***************************************************************************)
EXTENDS LoopTiming

MCWorkTimes == {100000000, 249999300, 250000000, 250000400, 250001700, 600000000}
MCLatencies == {0, 300, 60000000}
MCStartTimes == {[sec |-> 1, nsec |-> 0], [sec |-> 0, nsec |-> 300000400]}
=============================================================================
