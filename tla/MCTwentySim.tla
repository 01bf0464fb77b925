---------------------------- MODULE MCTwentySim ----------------------------
(***************************************************************************)
(* Times of two or three samples in place of 20 to 42, and limits that two *)
(* samples of the largest error reach: saturation at both limits, errors   *)
(* that jump across zero and errors that rise while the output is limited. *)
(***************************************************************************)
EXTENDS TwentySim

MCDerivative == [yaw |-> 1, pitch |-> 2]
MCIntegral == [yaw |-> 2, pitch |-> 1]
MCOutputMin == [yaw |-> -5, pitch |-> -3]
MCOutputMax == [yaw |-> 5, pitch |-> 3]
MCTargets == [yaw |-> {2}, pitch |-> {1}]
MCPositions == [yaw |-> {0, 2, 3}, pitch |-> {0, 1, 2}]
=============================================================================
