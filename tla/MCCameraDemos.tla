--------------------------- MODULE MCCameraDemos ---------------------------
(***************************************************************************)
(* Frames with two objects at different places, with a speck below the     *)
(* limit and with nothing; queues of one frame, so that each can be full.  *)
(***************************************************************************)
EXTENDS CameraDemos

MCFrames == {{<<1, 2>>, <<1, 3>>}, {<<4, 6>>, <<6, 6>>}, {<<2, 2>>}, {}}
=============================================================================
