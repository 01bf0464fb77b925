------------------------- MODULE BlobTrackerProofs -------------------------
(***************************************************************************)
(* The flood fill for a frame of any size and with any green pixels: the   *)
(* queue fits, each blob is a component, and no green pixel is missed.     *)
(***************************************************************************)
EXTENDS BlobTracker, FiniteSetTheorems, SequenceTheorems, TLAPS

(***************************************************************************)
(* The pixels of a row, and those above and below.                         *)
(***************************************************************************)
LEMMA DivMod ==
  ASSUME NEW m \in Nat \ {0}, NEW a \in Nat
  PROVE  /\ a % m \in 0 .. m - 1
         /\ a \div m \in Nat
         /\ a = m * (a \div m) + (a % m)
BY Z3

LEMMA DivModUnique ==
  ASSUME NEW m \in Nat \ {0}, NEW k \in Nat, NEW r \in 0 .. m - 1
  PROVE  /\ (m * k + r) % m = r
         /\ (m * k + r) \div m = k
BY Z3

LEMMA PixelPlace ==
  ASSUME NEW p \in Pixels
  PROVE  /\ X(p) \in 0 .. Width - 1 /\ Y(p) \in 0 .. Height - 1
         /\ p = Width * Y(p) + X(p)
<1>1. p \in Nat /\ p < Width * Height
  BY FrameAssumption DEF Pixels, PixelCount
<1>2. X(p) \in 0 .. Width - 1 /\ Y(p) \in Nat /\ p = Width * Y(p) + X(p)
  BY <1>1, FrameAssumption, DivMod DEF X, Y
<1>3. Y(p) < Height
  BY <1>1, <1>2, FrameAssumption, Z3
<1> QED
  BY <1>2, <1>3, FrameAssumption

LEMMA PlacePixel ==
  ASSUME NEW x \in 0 .. Width - 1, NEW y \in Nat
  PROVE  X(Width * y + x) = x /\ Y(Width * y + x) = y
BY FrameAssumption, DivModUnique DEF X, Y

LEMMA AdjacentSymmetric ==
  ASSUME NEW p \in Pixels, NEW q \in Pixels
  PROVE  Adjacent(p, q) <=> Adjacent(q, p)
<1>1. X(p) \in Int /\ Y(p) \in Int /\ X(q) \in Int /\ Y(q) \in Int
  BY PixelPlace
<1> QED
  BY <1>1 DEF Adjacent

NeighbourSet(p) ==
  {Neighbours(p)[1], Neighbours(p)[2], Neighbours(p)[3], Neighbours(p)[4]}

\* The four tests, on numbers of pixels, look at the pixels beside, above and
\* below and at no other: not at the end of the row before or the next one's start.
LEMMA NeighboursAreAdjacent ==
  ASSUME NEW p \in Pixels, NEW q \in Pixels
  PROVE  Adjacent(p, q) <=> q \in NeighbourSet(p)
<1> DEFINE xp == X(p)
           yp == Y(p)
           xq == X(q)
           yq == Y(q)
<1>1. /\ xp \in 0 .. Width - 1 /\ yp \in 0 .. Height - 1 /\ p = Width * yp + xp
      /\ xq \in 0 .. Width - 1 /\ yq \in 0 .. Height - 1 /\ q = Width * yq + xq
      /\ Width \in Nat \ {0} /\ Height \in Nat \ {0}
  BY PixelPlace, FrameAssumption
<1>2. p \in Nat /\ q \in Nat
  BY FrameAssumption DEF Pixels
<1>3. q \in NeighbourSet(p) <=>
        \/ xp > 0 /\ q = p - 1
        \/ xp + 1 < Width /\ q = p + 1
        \/ yp > 0 /\ q = p - Width
        \/ yp + 1 < Height /\ q = p + Width
  BY <1>1, <1>2 DEF NeighbourSet, Neighbours
<1>4. Adjacent(p, q) <=> \/ yp = yq /\ xp - xq \in {-1, 1}
                         \/ xp = xq /\ yp - yq \in {-1, 1}
  BY DEF Adjacent
<1>5. \A x \in 0 .. Width - 1, y \in Nat : q = Width * y + x => xq = x /\ yq = y
  BY PlacePixel
<1> HIDE DEF xp, yp, xq, yq
<1>6. /\ Width * (yp + 1) = Width * yp + Width
      /\ Width * (yp - 1) = Width * yp - Width
  BY <1>1
<1>7. ASSUME Adjacent(p, q) PROVE q \in NeighbourSet(p)
  <2>1. CASE yp = yq /\ xq = xp - 1
    BY <1>1, <1>3, <2>1
  <2>2. CASE yp = yq /\ xq = xp + 1
    BY <1>1, <1>3, <2>2
  <2>3. CASE xp = xq /\ yq = yp - 1
    BY <1>1, <1>3, <1>6, <2>3
  <2>4. CASE xp = xq /\ yq = yp + 1
    BY <1>1, <1>3, <1>6, <2>4
  <2> QED
    BY <1>1, <1>4, <1>7, <2>1, <2>2, <2>3, <2>4
<1>8. ASSUME q \in NeighbourSet(p) PROVE Adjacent(p, q)
  <2>1. CASE xp > 0 /\ q = p - 1
    <3>1. xp - 1 \in 0 .. Width - 1 /\ yp \in Nat /\ q = Width * yp + (xp - 1)
      BY <1>1, <2>1
    <3>2. xq = xp - 1 /\ yq = yp
      BY <1>5, <3>1
    <3> QED
      BY <1>1, <1>4, <3>2
  <2>2. CASE xp + 1 < Width /\ q = p + 1
    <3>1. xp + 1 \in 0 .. Width - 1 /\ yp \in Nat /\ q = Width * yp + (xp + 1)
      BY <1>1, <2>2
    <3>2. xq = xp + 1 /\ yq = yp
      BY <1>5, <3>1
    <3> QED
      BY <1>1, <1>4, <3>2
  <2>3. CASE yp > 0 /\ q = p - Width
    <3>1. yp - 1 \in Nat /\ q = Width * (yp - 1) + xp
      BY <1>1, <1>6, <2>3
    <3>2. xq = xp /\ yq = yp - 1
      BY <1>1, <1>5, <3>1
    <3> QED
      BY <1>1, <1>4, <3>2
  <2>4. CASE yp + 1 < Height /\ q = p + Width
    <3>1. yp + 1 \in Nat /\ q = Width * (yp + 1) + xp
      BY <1>1, <1>6, <2>4
    <3>2. xq = xp /\ yq = yp + 1
      BY <1>1, <1>5, <3>1
    <3> QED
      BY <1>1, <1>4, <3>2
  <2> QED
    BY <1>3, <1>8, <2>1, <2>2, <2>3, <2>4
<1> QED
  BY <1>7, <1>8

(***************************************************************************)
(* The queue.  What a fill has queued is connected from the first pixel on *)
(* since each pixel joins it as the neighbour of one that is in it.        *)
(***************************************************************************)
Connected(S) == \A T \in SUBSET S : T \in {{}, S} \/ Touches(T, S \ T)

LEMMA ConnectedGrows ==
  ASSUME NEW S \in SUBSET Pixels, Connected(S), NEW p \in S, NEW q \in Pixels, Adjacent(p, q)
  PROVE  Connected(S \cup {q})
<1> SUFFICES ASSUME NEW T \in SUBSET (S \cup {q}), T # {}, T # S \cup {q}
             PROVE  Touches(T, (S \cup {q}) \ T)
  BY DEF Connected
<1>1. Adjacent(q, p)
  BY AdjacentSymmetric
<1>2. T \ {q} \in {{}, S} \/ Touches(T \ {q}, S \ (T \ {q}))
  BY DEF Connected
<1>3. CASE q \in S
  BY <1>3 DEF Connected
<1>4. CASE q \notin S /\ T \ {q} = {}
  BY <1>1, <1>4 DEF Touches
<1>5. CASE q \notin S /\ T \ {q} = S
  BY <1>5 DEF Touches
<1>6. CASE q \notin S /\ Touches(T \ {q}, S \ (T \ {q}))
  BY <1>6 DEF Touches
<1> QED
  BY <1>2, <1>3, <1>4, <1>5, <1>6

Members(s) == {s[i] : i \in 1 .. Len(s)}

\* What a mask m and a queue s may have become while the neighbours are looked at.
Grown(m, s) ==
  /\ s \in Seq(Pixels) /\ m \subseteq mask
  /\ \A i, j \in 1 .. Len(s) : s[i] = s[j] => i = j
  /\ Members(s) \cap m = {}
  /\ Members(s) \cup m = Members(queue) \cup mask
  /\ Len(queue) <= Len(s) /\ \A i \in 1 .. Len(queue) : s[i] = queue[i]
  /\ Connected(Members(s))

LEMMA AppendIs ==
  ASSUME NEW s \in Seq(Pixels), NEW q \in Pixels
  PROVE  /\ Append(s, q) \in Seq(Pixels) /\ Len(Append(s, q)) = Len(s) + 1
         /\ \A i \in 1 .. Len(s) : Append(s, q)[i] = s[i]
         /\ Append(s, q)[Len(s) + 1] = q
         /\ Members(Append(s, q)) = Members(s) \cup {q}
<1>1. /\ Append(s, q) \in Seq(Pixels) /\ Len(Append(s, q)) = Len(s) + 1
      /\ \A i \in 1 .. Len(s) : Append(s, q)[i] = s[i]
      /\ Append(s, q)[Len(s) + 1] = q
      /\ Len(s) \in Nat
  BY AppendProperties, LenProperties
<1>2. Members(Append(s, q)) = Members(s) \cup {q}
  <2>1. ASSUME NEW r \in Members(Append(s, q)) PROVE r \in Members(s) \cup {q}
    BY <1>1, <2>1 DEF Members
  <2>2. ASSUME NEW r \in Members(s) \cup {q} PROVE r \in Members(Append(s, q))
    BY <1>1, <2>2 DEF Members
  <2> QED
    BY <2>1, <2>2
<1> QED
  BY <1>1, <1>2

LEMMA LookedKeeps ==
  ASSUME mask \subseteq Pixels, queue \in Seq(Pixels), NEW m, NEW s, Grown(m, s),
         NEW p \in Members(queue), NEW q, q \in mask => Adjacent(p, q)
  PROVE  LET taken == Looked([mask |-> m, queue |-> s], q)
         IN  /\ Grown(taken.mask, taken.queue)
             /\ taken = [mask |-> taken.mask, queue |-> taken.queue]
             /\ taken.mask \subseteq m /\ q \notin taken.mask
<1> DEFINE taken == Looked([mask |-> m, queue |-> s], q)
<1>1. CASE q \notin m
  <2>1. taken = [mask |-> m, queue |-> s]
    BY <1>1 DEF Looked
  <2> QED
    BY <1>1, <2>1
<1>2. CASE q \in m
  <2>1. /\ taken = [mask |-> m \ {q}, queue |-> Append(s, q)]
        /\ taken.mask = m \ {q} /\ taken.queue = Append(s, q)
    BY <1>2 DEF Looked
  <2>2. /\ s \in Seq(Pixels) /\ Len(s) \in Nat /\ q \in Pixels /\ q \in mask
        /\ q \notin Members(s) /\ Adjacent(p, q)
    BY <1>2, LenProperties DEF Grown
  <2>3. /\ Append(s, q) \in Seq(Pixels) /\ Len(Append(s, q)) = Len(s) + 1
        /\ \A i \in 1 .. Len(s) : Append(s, q)[i] = s[i]
        /\ Append(s, q)[Len(s) + 1] = q
        /\ Members(Append(s, q)) = Members(s) \cup {q}
    BY <2>2, AppendIs
  <2>4. \A i, j \in 1 .. Len(s) + 1 : Append(s, q)[i] = Append(s, q)[j] => i = j
    <3>1. \A i \in 1 .. Len(s) : s[i] # q
      BY <2>2 DEF Members
    <3>2. \A i, j \in 1 .. Len(s) : s[i] = s[j] => i = j
      BY DEF Grown
    <3>3. \A i \in 1 .. Len(s) + 1 : i = Len(s) + 1 \/ i \in 1 .. Len(s)
      BY <2>2
    <3> QED
      BY <2>3, <3>1, <3>2, <3>3
  <2>5. /\ Members(Append(s, q)) \cap (m \ {q}) = {}
        /\ Members(Append(s, q)) \cup (m \ {q}) = Members(queue) \cup mask
    BY <1>2, <2>3 DEF Grown
  <2>6. /\ Len(queue) <= Len(s) + 1
        /\ \A i \in 1 .. Len(queue) : Append(s, q)[i] = queue[i]
    BY <2>2, <2>3, LenProperties DEF Grown
  <2>7. Connected(Members(s) \cup {q})
    <3>1. p \in Members(s)
      BY LenProperties DEF Grown, Members
    <3>2. Members(s) \in SUBSET Pixels
      BY <2>2, ElementOfSeq DEF Members
    <3> QED
      BY <2>2, <3>1, <3>2, ConnectedGrows DEF Grown
  <2> QED
    BY <2>1, <2>3, <2>4, <2>5, <2>6, <2>7 DEF Grown
<1> QED
  BY <1>1, <1>2

(***************************************************************************)
(* The scan.                                                               *)
(***************************************************************************)
\* No pixel is queued twice, nor queued while it is in the mask.
QueuedOnce ==
  /\ \A i, j \in 1 .. Len(queue) : queue[i] = queue[j] => i = j
  /\ Members(queue) \cap mask = {}

\* The blobs taken so far, and the one that is being taken with what is left, are
\* apart from the rest.
Left == mask \cup IF filling THEN Members(queue) ELSE {}
Apart == ~Touches(Left, green \ Left)

Bounds(b, S) ==
  /\ b \in [pixels : {S}, minX : Nat, minY : Nat, maxX : Nat, maxY : Nat]
  /\ \A p \in S : /\ b.minX <= X(p) /\ X(p) <= b.maxX
                  /\ b.minY <= Y(p) /\ Y(p) <= b.maxY
  /\ IF S = {} THEN b = EmptyBlob
     ELSE /\ {b.minX, b.maxX} \subseteq {X(p) : p \in S}
          /\ {b.minY, b.maxY} \subseteq {Y(p) : p \in S}

\* The fill: the pixels taken from the queue have no neighbour in the mask any more.
Popped == {queue[i] : i \in 1 .. head}

Filling ==
  /\ scan \in Members(queue) /\ Members(queue) \subseteq green
  /\ Connected(Members(queue))
  /\ ~Touches(Popped, mask)
  /\ Bounds(blob, Popped)

FillInv ==
  /\ FillTypeOK /\ QueuedOnce /\ Apart /\ NothingMissed
  /\ filling => Filling

LEMMA FrameSize ==
  /\ PixelCount \in Nat
  /\ \A p : p \in Pixels <=> p \in Nat /\ p < PixelCount
  /\ Frames \subseteq SUBSET Pixels
<1>1. PixelCount \in Nat
  BY FrameAssumption DEF PixelCount
<1> QED
  BY <1>1, FrameAssumption DEF Pixels

\* An empty queue and an untouched mask.
LEMMA EmptyQueueInv ==
  ASSUME FillTypeOK, queue = <<>>, ~filling, mask = green,
         scan = 0 \/ green = {}
  PROVE  FillInv
<1>1. Members(queue) = {}
  BY DEF Members
<1>2. QueuedOnce
  BY <1>1 DEF QueuedOnce
<1>3. Apart
  BY DEF Apart, Left, Touches
<1>4. NothingMissed
  BY FrameAssumption DEF NothingMissed, FillTypeOK, Pixels
<1> QED
  BY <1>2, <1>3, <1>4 DEF FillInv

LEMMA FillInitInv == FillInit => FillInv
<1> SUFFICES ASSUME FillInit PROVE FillInv
  OBVIOUS
<1>1. FillTypeOK
  <2>1. EmptyBlob.pixels = {} /\ <<>> \in Seq(Pixels) /\ Len(<<>>) = 0
    BY EmptySeq DEF EmptyBlob
  <2>2. PixelCount \in 0 .. PixelCount /\ 0 \in 0 .. 0
    BY FrameSize
  <2> QED
    BY <2>1, <2>2 DEF FillInit, FillTypeOK
<1> QED
  BY <1>1, EmptyQueueInv DEF FillInit

LEMMA NewFrameKeeps ==
  ASSUME NewFrame
  PROVE  FillInv'
<1>1. FillTypeOK'
  <2>1. EmptyBlob.pixels = {} /\ <<>> \in Seq(Pixels) /\ Len(<<>>) = 0
    BY EmptySeq DEF EmptyBlob
  <2>2. 0 \in 0 .. PixelCount /\ 0 \in 0 .. 0 /\ green' \in SUBSET Pixels
    BY FrameSize DEF NewFrame
  <2> QED
    BY <2>1, <2>2 DEF NewFrame, FillTypeOK
<1>2. queue' = <<>> /\ ~filling' /\ mask' = green' /\ scan' = 0
  BY DEF NewFrame
<1>3. Members(queue') = {}
  BY <1>2 DEF Members
<1>4. QueuedOnce'
  BY <1>2, <1>3 DEF QueuedOnce
<1>5. Apart'
  BY <1>2 DEF Apart, Left, Touches
<1>6. NothingMissed'
  BY <1>1, <1>2, FrameAssumption DEF NothingMissed, FillTypeOK, Pixels
<1> QED
  BY <1>1, <1>2, <1>4, <1>5, <1>6 DEF FillInv

LEMMA SkipKeeps ==
  ASSUME FillInv, Skip
  PROVE  FillInv'
<1>1. /\ scan \in Nat /\ PixelCount \in Nat /\ scan < PixelCount
      /\ mask \subseteq Nat /\ scan \notin mask
      /\ UNCHANGED <<green, mask, filling, queue, head, blob>> /\ ~filling
      /\ scan' = scan + 1
  BY FrameAssumption DEF FillInv, FillTypeOK, Skip, PixelCount, Pixels
<1>2. FillTypeOK'
  BY <1>1 DEF FillInv, FillTypeOK
<1>3. NothingMissed'
  BY <1>1 DEF FillInv, NothingMissed
<1>4. QueuedOnce' /\ Apart'
  BY <1>1 DEF FillInv, QueuedOnce, Apart, Left
<1> QED
  BY <1>1, <1>2, <1>3, <1>4 DEF FillInv

\* The first pixel of a fill.
LEMMA BeginFillKeeps ==
  ASSUME FillInv, BeginFill
  PROVE  FillInv'
<1>1. /\ scan \in mask /\ mask \subseteq green /\ green \subseteq Pixels
      /\ mask' = mask \ {scan} /\ queue' = <<scan>> /\ head' = 0
      /\ blob' = EmptyBlob /\ ~filling /\ filling' = TRUE
      /\ UNCHANGED <<green, scan>>
  BY DEF FillInv, FillTypeOK, BeginFill
<1>2. Len(queue') = 1 /\ queue' \in Seq(Pixels) /\ queue'[1] = scan
      /\ Members(queue') = {scan}
  BY <1>1 DEF Members
<1>3. FillTypeOK'
  <2>1. EmptyBlob.pixels = {}
    BY DEF EmptyBlob
  <2>2. mask' \in SUBSET green' /\ head' \in 0 .. Len(queue')
    BY <1>1, <1>2
  <2> QED
    BY <1>1, <1>2, <2>1, <2>2 DEF FillInv, FillTypeOK
<1>4. QueuedOnce'
  BY <1>1, <1>2 DEF QueuedOnce
<1>5. Apart'
  <2>1. Left' = Left
    BY <1>1, <1>2 DEF Left
  <2> QED
    BY <1>1, <2>1 DEF FillInv, Apart, Touches
<1>6. NothingMissed'
  BY <1>1, FrameAssumption DEF FillInv, NothingMissed, Pixels
<1>7. Filling'
  <2>1. Popped' = {}
    BY <1>1 DEF Popped
  <2>2. Connected({scan})
    BY DEF Connected
  <2>3. Bounds(EmptyBlob, {})
    BY FrameAssumption DEF Bounds, EmptyBlob
  <2> QED
    BY <1>1, <1>2, <2>1, <2>2, <2>3 DEF Filling, Touches
<1> QED
  BY <1>3, <1>4, <1>5, <1>6, <1>7 DEF FillInv

\* The end of a fill: all it queued has been popped, so it left no neighbour.
LEMMA EndFillKeeps ==
  ASSUME FillInv, EndFill
  PROVE  FillInv'
<1>1. /\ filling /\ filling' = FALSE /\ scan' = scan + 1
      /\ UNCHANGED <<green, mask, queue, head, blob>>
      /\ head = Len(queue) /\ queue \in Seq(Pixels)
      /\ mask \subseteq green /\ green \subseteq Pixels
      /\ Members(queue) \subseteq green /\ scan \in Members(queue)
  BY DEF FillInv, FillTypeOK, EndFill, Filled, Filling
<1>2. scan \in Nat /\ scan < PixelCount /\ PixelCount \in Nat
  BY <1>1, FrameSize
<1>3. Popped = Members(queue)
  BY <1>1 DEF Popped, Members
<1>4. FillTypeOK'
  <2>1. scan' \in 0 .. PixelCount
    BY <1>1, <1>2
  <2> QED
    BY <1>1, <2>1 DEF FillInv, FillTypeOK
<1>5. QueuedOnce'
  BY <1>1 DEF FillInv, QueuedOnce
<1>6. Apart'
  <2> SUFFICES ASSUME NEW p \in mask, NEW q \in green \ mask, Adjacent(p, q)
               PROVE  FALSE
    BY <1>1 DEF Apart, Left, Touches
  <2>1. Adjacent(q, p)
    BY <1>1, AdjacentSymmetric
  <2>2. q \notin Members(queue)
    BY <1>1, <1>3, <2>1 DEF FillInv, Filling, Touches
  <2> QED
    BY <1>1, <2>2 DEF FillInv, Apart, Left, Touches
<1>7. NothingMissed'
  BY <1>1, <1>2, FrameAssumption DEF FillInv, NothingMissed, Pixels
<1> QED
  BY <1>1, <1>4, <1>5, <1>6, <1>7 DEF FillInv

(***************************************************************************)
(* One turn of the fill.                                                   *)
(***************************************************************************)
LEMMA FourLooks ==
  ASSUME FillInv, filling, head < Len(queue)
  PROVE  LET n == Neighbours(queue[head + 1])
             start == [mask |-> mask, queue |-> queue]
             taken == Looked(Looked(Looked(Looked(start, n[1]), n[2]), n[3]), n[4])
         IN  /\ Grown(taken.mask, taken.queue)
             /\ NeighbourSet(queue[head + 1]) \cap taken.mask = {}
<1> DEFINE p == queue[head + 1]
           n == Neighbours(p)
           start == [mask |-> mask, queue |-> queue]
           one == Looked(start, n[1])
           two == Looked(one, n[2])
           three == Looked(two, n[3])
           four == Looked(three, n[4])
<1>1. /\ queue \in Seq(Pixels) /\ mask \subseteq Pixels
      /\ p \in Members(queue) /\ p \in Pixels
  <2>1. head + 1 \in 1 .. Len(queue) /\ queue \in Seq(Pixels)
    BY LenProperties DEF FillInv, FillTypeOK
  <2> QED
    BY <2>1, ElementOfSeq DEF FillInv, FillTypeOK, Members
<1>2. Grown(mask, queue)
  BY <1>1, LenProperties DEF FillInv, QueuedOnce, Filling, Grown
<1>3. \A q : q \in mask /\ q \in NeighbourSet(p) => Adjacent(p, q)
  BY <1>1, NeighboursAreAdjacent
<1>4. /\ n[1] \in NeighbourSet(p) /\ n[2] \in NeighbourSet(p)
      /\ n[3] \in NeighbourSet(p) /\ n[4] \in NeighbourSet(p)
      /\ NeighbourSet(p) = {n[1], n[2], n[3], n[4]}
  BY DEF NeighbourSet
<1> HIDE DEF p, n
<1>5. /\ Grown(one.mask, one.queue) /\ one = [mask |-> one.mask, queue |-> one.queue]
      /\ n[1] \notin one.mask
  BY <1>1, <1>2, <1>3, <1>4, LookedKeeps
<1> HIDE DEF one
<1>6. /\ Grown(two.mask, two.queue) /\ two = [mask |-> two.mask, queue |-> two.queue]
      /\ two.mask \subseteq one.mask /\ n[2] \notin two.mask
  BY <1>1, <1>3, <1>4, <1>5, LookedKeeps
<1> HIDE DEF two
<1>7. /\ Grown(three.mask, three.queue)
      /\ three = [mask |-> three.mask, queue |-> three.queue]
      /\ three.mask \subseteq two.mask /\ n[3] \notin three.mask
  BY <1>1, <1>3, <1>4, <1>6, LookedKeeps
<1> HIDE DEF three
<1>8. /\ Grown(four.mask, four.queue)
      /\ four.mask \subseteq three.mask /\ n[4] \notin four.mask
  BY <1>1, <1>3, <1>4, <1>7, LookedKeeps
<1>9. NeighbourSet(p) \cap four.mask = {}
  BY <1>4, <1>5, <1>6, <1>7, <1>8
<1> QED
  BY <1>8, <1>9 DEF four, three, two, one, n, p

LEMMA WidenedBounds ==
  ASSUME NEW S \in SUBSET Pixels, NEW b, Bounds(b, S), NEW p \in Pixels
  PROVE  Bounds(Widened(b, p), S \cup {p})
<1> DEFINE w == Widened(b, p)
<1>1. /\ X(p) \in 0 .. Width - 1 /\ Y(p) \in 0 .. Height - 1
      /\ \A q \in S : X(q) \in Nat /\ Y(q) \in Nat
      /\ Width \in Nat /\ Height \in Nat
  BY PixelPlace, FrameAssumption
<1>2. /\ b \in [pixels : {S}, minX : Nat, minY : Nat, maxX : Nat, maxY : Nat]
      /\ b.pixels = S
      /\ b.minX \in Nat /\ b.minY \in Nat /\ b.maxX \in Nat /\ b.maxY \in Nat
  BY DEF Bounds
<1>3. /\ w.pixels = S \cup {p}
      /\ w.minX = Lesser(b.minX, X(p)) /\ w.maxX = Greater(b.maxX, X(p))
      /\ w.minY = Lesser(b.minY, Y(p)) /\ w.maxY = Greater(b.maxY, Y(p))
      /\ w = [pixels |-> w.pixels, minX |-> w.minX, minY |-> w.minY,
              maxX |-> w.maxX, maxY |-> w.maxY]
  <2> DEFINE left == Lesser(b.minX, X(p))
             right == Greater(b.maxX, X(p))
             top == Lesser(b.minY, Y(p))
             bottom == Greater(b.maxY, Y(p))
  <2>1. w = [b EXCEPT !.pixels = S \cup {p}, !.minX = left, !.maxX = right,
                      !.minY = top, !.maxY = bottom]
    BY <1>2 DEF Widened
  <2> HIDE DEF left, right, top, bottom, w
  <2>2. w = [pixels |-> S \cup {p}, minX |-> left, minY |-> top,
             maxX |-> right, maxY |-> bottom]
    BY <1>2, <2>1
  <2>3. /\ w.pixels = S \cup {p} /\ w.minX = left /\ w.maxX = right
        /\ w.minY = top /\ w.maxY = bottom
    BY <2>2
  <2> QED
    BY <2>2, <2>3 DEF left, right, top, bottom
<1>4. /\ w.minX \in Nat /\ w.minX <= b.minX /\ w.minX <= X(p) /\ w.minX \in {b.minX, X(p)}
      /\ w.minY \in Nat /\ w.minY <= b.minY /\ w.minY <= Y(p) /\ w.minY \in {b.minY, Y(p)}
      /\ w.maxX \in Nat /\ w.maxX >= b.maxX /\ w.maxX >= X(p) /\ w.maxX \in {b.maxX, X(p)}
      /\ w.maxY \in Nat /\ w.maxY >= b.maxY /\ w.maxY >= Y(p) /\ w.maxY \in {b.maxY, Y(p)}
  BY <1>1, <1>2, <1>3 DEF Lesser, Greater
<1>5. CASE S = {}
  <2>1. b = EmptyBlob
    BY <1>5 DEF Bounds
  <2>2. w.minX = X(p) /\ w.maxX = X(p) /\ w.minY = Y(p) /\ w.maxY = Y(p)
    BY <1>1, <1>3, <2>1 DEF EmptyBlob, Lesser, Greater
  <2> QED
    BY <1>1, <1>3, <1>4, <1>5, <2>2 DEF Bounds
<1>6. CASE S # {}
  <2>1. w \in [pixels : {S \cup {p}}, minX : Nat, minY : Nat, maxX : Nat, maxY : Nat]
    BY <1>3, <1>4
  <2>2. \A q \in S \cup {p} : /\ w.minX <= X(q) /\ X(q) <= w.maxX
                              /\ w.minY <= Y(q) /\ Y(q) <= w.maxY
    BY <1>1, <1>2, <1>4 DEF Bounds
  <2>3. /\ {w.minX, w.maxX} \subseteq {X(q) : q \in S \cup {p}}
        /\ {w.minY, w.maxY} \subseteq {Y(q) : q \in S \cup {p}}
    BY <1>4, <1>6 DEF Bounds
  <2> QED
    BY <1>6, <2>1, <2>2, <2>3 DEF Bounds
<1> QED
  BY <1>5, <1>6

LEMMA FillPixelKeeps ==
  ASSUME FillInv, FillPixel
  PROVE  FillInv'
<1> DEFINE p == queue[head + 1]
           Queue2 == Members(queue')
<1>1. /\ filling /\ filling' = filling /\ head < Len(queue) /\ head' = head + 1
      /\ UNCHANGED <<green, scan>> /\ blob' = Widened(blob, p)
      /\ Grown(mask', queue') /\ NeighbourSet(p) \cap mask' = {}
  BY FourLooks DEF FillPixel
<1>2. /\ queue \in Seq(Pixels) /\ Len(queue) \in Nat /\ head \in Nat
      /\ mask \subseteq green /\ green \subseteq Pixels /\ p \in Pixels
      /\ p \in Members(queue) /\ head + 1 \in 1 .. Len(queue)
      /\ Members(queue) \subseteq green
  <2>1. queue \in Seq(Pixels) /\ Len(queue) \in Nat /\ head \in Nat
    BY LenProperties DEF FillInv, FillTypeOK
  <2>2. head + 1 \in 1 .. Len(queue)
    BY <1>1, <2>1
  <2> QED
    BY <1>1, <2>1, <2>2, ElementOfSeq DEF FillInv, FillTypeOK, Filling, Members
<1>3. /\ queue' \in Seq(Pixels) /\ Len(queue') \in Nat /\ mask' \subseteq mask
      /\ Len(queue) <= Len(queue')
      /\ \A i \in 1 .. Len(queue) : queue'[i] = queue[i]
      /\ Queue2 \cup mask' = Members(queue) \cup mask /\ Queue2 \cap mask' = {}
      /\ \A i, j \in 1 .. Len(queue') : queue'[i] = queue'[j] => i = j
      /\ Connected(Queue2)
  BY <1>1, LenProperties DEF Grown
<1>4. Members(queue) \subseteq Queue2
  BY <1>2, <1>3 DEF Members
<1>5. Popped' = Popped \cup {p} /\ Popped \subseteq Members(queue)
  <2>1. /\ Popped' = {queue'[i] : i \in 1 .. head + 1}
        /\ \A i \in 1 .. head + 1 : i \in 1 .. Len(queue) /\ (i \in 1 .. head \/ i = head + 1)
    BY <1>1, <1>2 DEF Popped
  <2>2. \A i \in 1 .. head + 1 : queue'[i] = queue[i]
    BY <1>3, <2>1
  <2>3. Popped' \subseteq Popped \cup {p}
    BY <2>1, <2>2 DEF Popped
  <2>4. Popped \cup {p} \subseteq Popped'
    <3>1. \A i \in 1 .. head + 1 : queue[i] \in Popped'
      BY <2>1, <2>2
    <3>2. head + 1 \in 1 .. head + 1 /\ \A i \in 1 .. head : i \in 1 .. head + 1
      BY <1>2
    <3> QED
      BY <3>1, <3>2 DEF Popped
  <2>5. Popped \subseteq Members(queue)
    BY <1>2, <2>1 DEF Popped, Members
  <2> QED
    BY <2>3, <2>4, <2>5
<1>6. Bounds(blob', Popped') /\ blob'.pixels = Popped'
  <2>1. Bounds(blob, Popped) /\ Popped \subseteq Pixels
    BY <1>1, <1>2, <1>5 DEF FillInv, Filling
  <2>2. Bounds(Widened(blob, p), Popped \cup {p})
    BY <1>2, <2>1, WidenedBounds
  <2> QED
    BY <1>1, <1>5, <2>2 DEF Bounds
<1>7. FillTypeOK'
  <2>1. head' \in 0 .. Len(queue') /\ mask' \in SUBSET green'
    BY <1>1, <1>2, <1>3
  <2>2. blob'.pixels \in SUBSET green'
    BY <1>1, <1>2, <1>5, <1>6
  <2> QED
    BY <1>1, <1>3, <2>1, <2>2 DEF FillInv, FillTypeOK
<1>8. QueuedOnce'
  BY <1>3 DEF QueuedOnce
<1>9. Apart'
  <2>1. Left' = Left
    BY <1>1, <1>3 DEF Left
  <2> QED
    BY <1>1, <2>1 DEF FillInv, Apart, Touches
<1>10. NothingMissed'
  BY <1>1, <1>3 DEF FillInv, NothingMissed
<1>11. Filling'
  <2>1. ~Touches(Popped', mask')
    <3> SUFFICES ASSUME NEW q \in Popped \cup {p}, NEW r \in mask', Adjacent(q, r)
                 PROVE  FALSE
      BY <1>5 DEF Touches
    <3>1. r \in mask /\ r \in Pixels
      BY <1>2, <1>3
    <3>2. CASE q \in Popped
      BY <1>1, <3>1, <3>2 DEF FillInv, Filling, Touches
    <3>3. CASE q = p
      BY <1>1, <1>2, <3>1, <3>3, NeighboursAreAdjacent
    <3> QED
      BY <3>2, <3>3
  <2>2. scan' \in Queue2 /\ Queue2 \subseteq green'
    BY <1>1, <1>2, <1>3, <1>4 DEF FillInv, Filling
  <2> QED
    BY <1>3, <1>6, <2>1, <2>2 DEF Filling
<1> QED
  BY <1>7, <1>8, <1>9, <1>10, <1>11 DEF FillInv

LEMMA FillInvHolds == Spec => []FillInv
<1>1. Init => FillInv
  BY FillInitInv DEF Init
<1>2. FillInv /\ [Next]_vars => FillInv'
  <2> SUFFICES ASSUME FillInv, [Next]_vars PROVE FillInv'
    OBVIOUS
  <2>1. CASE UNCHANGED fillVars
    BY <2>1 DEF fillVars, FillInv, FillTypeOK, QueuedOnce, Apart, Left, NothingMissed,
                Filling, Popped
  <2>2. CASE Frame \/ ExtractBlob \/ Consider
    BY <2>2, NewFrameKeeps, SkipKeeps, BeginFillKeeps, FillPixelKeeps, EndFillKeeps
    DEF Frame, ExtractBlob, Consider
  <2>3. CASE Lose \/ Follow \/ UNCHANGED vars
    BY <2>1, <2>3 DEF Lose, Follow, vars
  <2> QED
    BY <2>2, <2>3 DEF Next
<1> QED
  BY <1>1, <1>2, PTL DEF Spec

\* component_queue, which has an entry for each pixel and whose tail is never
\* tested, is long enough for every frame: no pixel is queued twice.
THEOREM QueueHasRoom == Spec => []QueueFits
<1>1. FillInv => QueueFits
  <2> SUFFICES ASSUME FillInv PROVE QueueFits
    OBVIOUS
  <2>1. /\ queue \in Seq(Pixels) /\ Len(queue) \in Nat
        /\ \A i, j \in 1 .. Len(queue) : queue[i] = queue[j] => i = j
        /\ DOMAIN queue = 1 .. Len(queue) /\ queue \in [1 .. Len(queue) -> Pixels]
    BY LenProperties DEF FillInv, FillTypeOK, QueuedOnce
  <2>2. /\ IsFiniteSet(Pixels) /\ Cardinality(Pixels) = PixelCount
        /\ IsFiniteSet(1 .. Len(queue)) /\ Cardinality(1 .. Len(queue)) = Len(queue)
    <3>1. PixelCount \in Nat
      BY FrameSize
    <3>2. /\ IsFiniteSet(0 .. PixelCount - 1)
          /\ Cardinality(0 .. PixelCount - 1) = PixelCount
      <4>1. Cardinality(0 .. PixelCount - 1)
              = IF 0 > PixelCount - 1 THEN 0 ELSE PixelCount - 1 - 0 + 1
        BY <3>1, FS_Interval
      <4> QED
        BY <3>1, <4>1, FS_Interval
    <3>3. /\ IsFiniteSet(1 .. Len(queue))
          /\ Cardinality(1 .. Len(queue)) = Len(queue)
      <4>1. Cardinality(1 .. Len(queue))
              = IF 1 > Len(queue) THEN 0 ELSE Len(queue) - 1 + 1
        BY <2>1, FS_Interval
      <4> QED
        BY <2>1, <4>1, FS_Interval
    <3> QED
      BY <3>2, <3>3 DEF Pixels
  <2>3. ~(PixelCount < Len(queue))
    BY <2>1, <2>2, FS_PigeonHole
  <2> QED
    BY <2>1, <2>3, FrameSize DEF QueueFits
<1> QED
  BY <1>1, FillInvHolds, PTL

\* Each blob that extract_blob returns is one connected component of the green
\* pixels, the one of the pixel it was called for, whatever the frame: nothing of
\* it is left to be taken for a second blob, and it joins nothing across the end of
\* a row.
THEOREM BlobsAreComponents == Spec => []BlobIsComponent
<1>1. FillInv => BlobIsComponent
  <2> SUFFICES ASSUME FillInv, Filled PROVE BlobIsComponent
    BY DEF BlobIsComponent
  <2>1. Filling /\ head = Len(queue) /\ green \subseteq Pixels
    BY DEF FillInv, FillTypeOK, Filled
  <2>2. Popped = Members(queue) /\ blob.pixels = Members(queue)
    BY <2>1 DEF Popped, Members, Filling, Bounds
  <2>3. IsComponent(Members(queue))
    <3>1. ~Touches(Members(queue), green \ Members(queue))
      <4> SUFFICES ASSUME NEW p \in Members(queue), NEW q \in green \ Members(queue),
                          Adjacent(p, q)
                   PROVE  FALSE
        BY DEF Touches
      <4>1. q \notin mask
        BY <2>1, <2>2 DEF Filling, Touches
      <4> QED
        BY <4>1 DEF FillInv, Filled, Apart, Left, Touches
    <3> QED
      BY <2>1, <3>1 DEF Filling, Connected, IsComponent
  <2>4. Members(queue) # {}
    BY <2>1 DEF Filling
  <2> QED
    BY <2>1, <2>2, <2>3, <2>4 DEF Filling, Bounds, BlobIsComponent
<1> QED
  BY <1>1, FillInvHolds, PTL

\* No green pixel is passed over: what the scan has passed belongs to a blob that
\* was taken.
THEOREM ScanMissesNothing == Spec => []NothingMissed
BY FillInvHolds, PTL DEF FillInv
=============================================================================
