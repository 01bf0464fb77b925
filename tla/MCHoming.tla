------------------------------ MODULE MCHoming ------------------------------
(***************************************************************************)
(* A small rig for homing: a travel of five counts, crossed in three to    *)
(* five samples, and a sample limit that some drives exceed.               *)
(***************************************************************************)
EXTENDS Homing

MCCountAtStop == [yaw |-> -1, pitch |-> 4]

Push(d) == [direction |-> d, enable |-> 1, pwm |-> PwmMax]
MCStaleCommands ==
  {StopCommand, [yaw |-> Push(POSITIVE), pitch |-> Push(NEGATIVE)]}
MCGarbageCounts == {-1, 7}
=============================================================================
