--------------------------- MODULE MCBlobTracker ---------------------------
(***************************************************************************)
(* Every frame of three by three pixels: blobs in the corners, across rows,*)
(* rings and lines.                                                        *)
(***************************************************************************)
EXTENDS BlobTracker

MCFrames == SUBSET Pixels
=============================================================================
