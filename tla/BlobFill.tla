------------------------------ MODULE BlobFill ------------------------------
(***************************************************************************)
(* find_green_blob's scan of the green mask, with extract_blob's flood     *)
(* fill of each blob it meets.  Pixels are numbered row by row, as in the  *)
(* mask, and the queue has room for as many numbers as there are pixels.   *)
(* What becomes of a blob is in BlobTracker.                               *)
(***************************************************************************)
EXTENDS Integers, Sequences

CONSTANTS
  Width, Height, \* the frame
  Frames         \* the sets of green pixels a frame may have

PixelCount == Width * Height
Pixels == 0 .. PixelCount - 1

ASSUME FrameAssumption == /\ Width \in Nat \ {0} /\ Height \in Nat \ {0}
                          /\ Frames \subseteq SUBSET Pixels

VARIABLES
  green,   \* observer: the green pixels of this frame
  mask,    \* green_mask, as the set of pixels it marks
  scan,    \* start_index
  filling, \* extract_blob runs
  queue,   \* component_queue up to tail
  head,    \* head
  blob     \* the BlobRun: the pixels it summed and its bounds

fillVars == <<green, mask, scan, filling, queue, head, blob>>

\* The sums of a BlobRun are kept as the set of pixels they are taken over.
EmptyBlob == [pixels |-> {}, minX |-> Width, minY |-> Height, maxX |-> 0, maxY |-> 0]

FillTypeOK ==
  /\ green \in SUBSET Pixels /\ mask \in SUBSET green
  /\ scan \in 0 .. PixelCount
  /\ filling \in BOOLEAN
  /\ queue \in Seq(Pixels) /\ head \in 0 .. Len(queue)
  /\ blob.pixels \in SUBSET green

\* Before the first frame.
FillInit ==
  /\ green = {} /\ mask = {}
  /\ scan = PixelCount /\ filling = FALSE
  /\ queue = <<>> /\ head = 0
  /\ blob = EmptyBlob

\* build_green_mask of a camera frame
NewFrame ==
  /\ green' \in Frames /\ mask' = green'
  /\ scan' = 0 /\ filling' = FALSE
  /\ queue' = <<>> /\ head' = 0
  /\ blob' = EmptyBlob

X(p) == p % Width
Y(p) == p \div Width

Lesser(m, n) == IF m < n THEN m ELSE n
Greater(m, n) == IF m > n THEN m ELSE n

\* The scan skips a pixel that is not green, or was taken by an earlier blob.
Skip ==
  /\ ~filling /\ scan < PixelCount /\ scan \notin mask
  /\ scan' = scan + 1
  /\ UNCHANGED <<green, mask, filling, queue, head, blob>>

\* Mutant of BeginFill: the first pixel stays in the mask.
BeginFillUnmarked ==
  /\ ~filling /\ scan \in mask
  /\ filling' = TRUE
  /\ queue' = <<scan>> /\ head' = 0
  /\ blob' = EmptyBlob
  /\ UNCHANGED <<green, mask, scan>>

BeginFill ==
  /\ ~filling /\ scan \in mask
  /\ filling' = TRUE
  /\ mask' = mask \ {scan}
  /\ queue' = <<scan>> /\ head' = 0
  /\ blob' = EmptyBlob
  /\ UNCHANGED <<green, scan>>

\* Mutant of Neighbours: no test for the first and last column.
NeighboursWrap(p) == <<p - 1, p + 1, p - Width, p + Width>>

\* The neighbours the code looks at, in its order; -1 for one outside the frame.
Neighbours(p) ==
  << IF X(p) > 0 THEN p - 1 ELSE -1,
     IF X(p) + 1 < Width THEN p + 1 ELSE -1,
     IF Y(p) > 0 THEN p - Width ELSE -1,
     IF Y(p) + 1 < Height THEN p + Width ELSE -1 >>

Widened(b, p) ==
  [b EXCEPT !.pixels = @ \cup {p},
            !.minX = Lesser(@, X(p)), !.maxX = Greater(@, X(p)),
            !.minY = Lesser(@, Y(p)), !.maxY = Greater(@, Y(p))]

\* One of the four tests: a green neighbour leaves the mask and joins the queue.
Looked(taken, q) ==
  IF q \in taken.mask
  THEN [mask |-> taken.mask \ {q}, queue |-> Append(taken.queue, q)]
  ELSE taken

\* One turn of the while loop: take a pixel, queue its green neighbours.
FillPixel ==
  /\ filling /\ head < Len(queue)
  /\ LET p == queue[head + 1]
         n == Neighbours(p)
         start == [mask |-> mask, queue |-> queue]
         taken == Looked(Looked(Looked(Looked(start, n[1]), n[2]), n[3]), n[4])
     IN  /\ blob' = Widened(blob, p)
         /\ queue' = taken.queue /\ mask' = taken.mask
  /\ head' = head + 1
  /\ UNCHANGED <<green, scan, filling>>

Filled == filling /\ head = Len(queue)

\* Mutant of EndFill: the scan goes on one pixel further.
EndFillSkips ==
  /\ Filled
  /\ filling' = FALSE
  /\ scan' = IF scan + 2 < PixelCount THEN scan + 2 ELSE PixelCount
  /\ UNCHANGED <<green, mask, queue, head, blob>>

EndFill ==
  /\ Filled
  /\ filling' = FALSE /\ scan' = scan + 1
  /\ UNCHANGED <<green, mask, queue, head, blob>>

Scanned == ~filling /\ scan = PixelCount

\* component_queue has room for pixel_count entries and tail is never tested:
\* it suffices since no pixel is queued twice.
QueueFits == /\ Len(queue) <= PixelCount
             /\ \A i, j \in DOMAIN queue : queue[i] = queue[j] => i = j

(***************************************************************************)
(* What a blob is, without a fill: a component of the green pixels.        *)
(***************************************************************************)
Adjacent(p, q) ==
  \/ Y(p) = Y(q) /\ X(p) - X(q) \in {-1, 1}
  \/ X(p) = X(q) /\ Y(p) - Y(q) \in {-1, 1}

Touches(S, T) == \E p \in S, q \in T : Adjacent(p, q)

IsComponent(S) ==
  /\ S \subseteq green
  /\ ~Touches(S, green \ S)
  /\ \A T \in SUBSET S : T \in {{}, S} \/ Touches(T, S \ T)

\* Each blob is one component of the frame, the one of the pixel the scan met,
\* and its bounds are those of its pixels.
BlobIsComponent ==
  Filled =>
    /\ scan \in blob.pixels /\ IsComponent(blob.pixels)
    /\ {blob.minX, blob.maxX} \subseteq {X(p) : p \in blob.pixels}
    /\ {blob.minY, blob.maxY} \subseteq {Y(p) : p \in blob.pixels}
    /\ \A p \in blob.pixels : /\ blob.minX <= X(p) /\ X(p) <= blob.maxX
                              /\ blob.minY <= Y(p) /\ Y(p) <= blob.maxY

\* The scan misses no green pixel: what it has passed was taken by some blob.
NothingMissed == \A p \in mask : p > scan \/ (p = scan /\ ~filling)
=============================================================================
