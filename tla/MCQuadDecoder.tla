--------------------------- MODULE MCQuadDecoder ---------------------------
(***************************************************************************)
(* A three bit counter that wraps within the shaft's range.                *)
(***************************************************************************)
EXTENDS QuadDecoder

MCPositions == -5 .. 6
=============================================================================
