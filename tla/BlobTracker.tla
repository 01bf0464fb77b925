---------------------------- MODULE BlobTracker ----------------------------
(***************************************************************************)
(* vision_blob_tracker_process_rgb: the blobs of a frame, the choice among *)
(* them in find_green_blob and the lock on the object in                   *)
(* smooth_blob_detection.  Places are in fractions of a pixel (Scale to    *)
(* one), to which the code's doubles are rounded.                          *)
(***************************************************************************)
EXTENDS BlobFill, FiniteSetsExt

CONSTANTS
  Scale,       \* fractions per pixel
  PixelWeight, \* Scale^2 / VISION_TRACK_DISTANCE_WEIGHT
  MinPixels,   \* JIWY_VISION_MIN_GREEN_PIXELS
  MinSide,     \* JIWY_VISION_BLOB_MIN_WIDTH, JIWY_VISION_BLOB_MIN_HEIGHT
  MaxAspect,   \* JIWY_VISION_BLOB_MAX_ASPECT_PERCENT
  MinFill,     \* JIWY_VISION_BLOB_MIN_FILL_PERCENT
  MaxJump,     \* JIWY_VISION_TRACK_MAX_JUMP_PIXELS, in fractions
  ResetFrames  \* JIWY_VISION_TRACK_RESET_LOST_FRAMES

ASSUME TrackerAssumption ==
  /\ {Scale, PixelWeight, MinPixels, MinSide, ResetFrames} \subseteq Nat \ {0}
  /\ {MaxAspect, MinFill, MaxJump} \subseteq Nat

VARIABLES
  have,     \* have_filtered_object
  filtered, \* filtered_object_x, filtered_object_y
  lost,     \* lost_frames
  best,     \* the detection, NoBlob while it is not valid
  working,  \* a frame is being processed
  valid     \* observer: the valid blobs of this frame so far, in scan order

lockVars == <<have, filtered, lost>>
vars == <<fillVars, lockVars, best, working, valid>>

Places == (0 .. (Width - 1) * Scale) \X (0 .. (Height - 1) * Scale)
NoBlob == [size |-> 0, place |-> <<0, 0>>]
Blob == [size : 1 .. PixelCount, place : Places]

TypeOK ==
  /\ FillTypeOK
  /\ have \in BOOLEAN /\ filtered \in Places /\ lost \in 0 .. ResetFrames
  /\ working \in BOOLEAN
  /\ best \in Blob \cup {NoBlob} /\ valid \in Seq(Blob)

\* vision_blob_tracker_init
Init ==
  /\ FillInit
  /\ have = FALSE /\ filtered = <<0, 0>> /\ lost = 0
  /\ best = NoBlob /\ working = FALSE /\ valid = <<>>

Frame ==
  /\ ~working /\ working' = TRUE
  /\ NewFrame
  /\ best' = NoBlob /\ valid' = <<>>
  /\ UNCHANGED lockVars

(***************************************************************************)
(* The choice                                                              *)
(***************************************************************************)
BlobWidth == blob.maxX - blob.minX + 1
BlobHeight == blob.maxY - blob.minY + 1

\* blob_shape_is_valid
ShapeIsValid ==
  LET size == Cardinality(blob.pixels)
      short == Lesser(BlobWidth, BlobHeight)
      long == Greater(BlobWidth, BlobHeight)
  IN  /\ size >= MinPixels /\ short >= MinSide
      /\ long * 100 <= short * MaxAspect
      /\ size * 100 >= BlobWidth * BlobHeight * MinFill

\* object_x, object_y: the mean of the pixels.
Found ==
  LET size == Cardinality(blob.pixels)
      Mean(F(_)) == (Scale * MapThenSumSet(F, blob.pixels)) \div size
  IN  [size |-> size, place |-> <<Mean(X), Mean(Y)>>]

\* tracking_locked
Locked == have /\ lost < ResetFrames

Distance2(p, q) == (p[1] - q[1]) * (p[1] - q[1]) + (p[2] - q[2]) * (p[2] - q[2])

\* score_blob, times PixelWeight
Score(b) ==
  PixelWeight * b.size - (IF Locked THEN Distance2(b.place, filtered) ELSE 0)

TooFar(b) == Locked /\ Distance2(b.place, filtered) > MaxJump * MaxJump

Better(b) == best = NoBlob \/ Score(b) > Score(best)

ExtractBlob ==
  /\ Skip \/ BeginFill \/ FillPixel
  /\ UNCHANGED <<lockVars, best, working, valid>>

\* The rest of the loop body, for a blob that was extracted.
Consider ==
  /\ EndFill
  /\ best' = IF ShapeIsValid /\ ~TooFar(Found) /\ Better(Found) THEN Found ELSE best
  /\ valid' = IF ShapeIsValid THEN Append(valid, Found) ELSE valid
  /\ UNCHANGED <<lockVars, working>>

(***************************************************************************)
(* smooth_blob_detection                                                   *)
(***************************************************************************)
Chosen == working /\ Scanned

\* Mutant of Lose: the lock is kept for ever.
LoseNothing ==
  /\ Chosen /\ best = NoBlob
  /\ lost' = IF lost < ResetFrames - 1 THEN lost + 1 ELSE lost
  /\ working' = FALSE
  /\ UNCHANGED <<have, filtered, best, valid, fillVars>>

\* lost_frames only matters up to the reset, and is kept up to there.
Lose ==
  /\ Chosen /\ best = NoBlob
  /\ lost' = IF lost < ResetFrames THEN lost + 1 ELSE lost
  /\ have' = (have /\ lost' < ResetFrames)
  /\ working' = FALSE
  /\ UNCHANGED <<filtered, best, valid, fillVars>>

Between(m, n) == Lesser(m, n) .. Greater(m, n)

\* The weight alpha is clamped to 0..1, so the filtered place moves some of the
\* way to the blob, and all the way when there was no lock.
Follow ==
  /\ Chosen /\ best # NoBlob
  /\ filtered' \in IF have
                   THEN Between(filtered[1], best.place[1])
                          \X Between(filtered[2], best.place[2])
                   ELSE {best.place}
  /\ have' = TRUE /\ lost' = 0
  /\ working' = FALSE
  /\ UNCHANGED <<best, valid, fillVars>>

Next == Frame \/ ExtractBlob \/ Consider \/ Lose \/ Follow

\* Frames keep coming from a running camera, and each is processed.
Spec == Init /\ [][Next]_vars /\ WF_vars(Next)

\* An object that jumped out of the lock's reach is found again: when from some
\* time on every frame has a valid blob, frames with a detection keep coming.
LostObjectIsFound ==
  <>[](Chosen => valid # <<>>) => []<>(Chosen /\ best # NoBlob)
=============================================================================
