---------------------------- MODULE MCJiwyMain ----------------------------
(***************************************************************************)
(* The whole program on a rig whose axes cross their travel of five counts *)
(* in three to five samples, with a sample limit that some drives exceed   *)
(* and two camera frames.                                                  *)
(***************************************************************************)
EXTENDS JiwyMain

MCCountAtStop == [yaw |-> -1, pitch |-> 4]

Push(d) == [direction |-> d, enable |-> 1, pwm |-> PwmMax]
MCStaleCommands ==
  {StopCommand, [yaw |-> Push(POSITIVE), pitch |-> Push(NEGATIVE)]}
MCGarbageCounts == {-1, 7}

\* Beyond full scale, below half a tick, and nothing.
MCOutputs == {[yaw |-> 4 * PwmMax + 2, pitch |-> 1], [yaw |-> -9, pitch |-> 0]}
MCHoldTargets == {[yaw |-> 1, pitch |-> 1], [yaw |-> 2, pitch |-> 2]}
MCErrors == {[yaw |-> -2, pitch |-> 4]}
=============================================================================
