------------------------------- MODULE MCFpga -------------------------------
(***************************************************************************)
(* Frames of direction, enable and three bits of duty: a drive and a stop, *)
(* and two counts, that differ in every bit, so that one bit of the wrong  *)
(* word shows.  The last five bits of a frame that goes on after the stop  *)
(* may be a drive for the whole period.                                    *)
(***************************************************************************)
EXTENDS Fpga

MCWords == {<<1, 1, 0, 0, 1>>, <<0, 0, 1, 1, 0>>}
MCCounts == {[i \in 1 .. FrameBits |-> 1], Zero}
=============================================================================
