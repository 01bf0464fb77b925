------------------------- MODULE QuadDecoderProofs -------------------------
(***************************************************************************)
(* CountFollows for a counter of any width and a shaft of any range.       *)
(***************************************************************************)
EXTENDS QuadDecoder, TLAPS

LEMMA ModUnique ==
  ASSUME NEW m \in Nat \ {0}, NEW q \in Int, NEW r \in 0 .. m - 1
  PROVE  (m * q + r) % m = r
BY Z3

LEMMA ModSplit ==
  ASSUME NEW m \in Nat \ {0}, NEW a \in Int
  PROVE  /\ a % m \in 0 .. m - 1
         /\ a \div m \in Int
         /\ a = m * (a \div m) + (a % m)
BY Z3

\* A remainder is its own remainder.
LEMMA ModSmall ==
  ASSUME NEW m \in Nat \ {0}, NEW r \in 0 .. m - 1
  PROVE  r % m = r
BY Z3

\* A counter that wraps keeps the remainder of what it counts.
LEMMA WrapUp ==
  ASSUME NEW m \in Nat \ {0}, NEW a \in Int
  PROVE  ((a % m) + 1) % m = (a + 1) % m
<1> DEFINE q == a \div m
           r == a % m
<1>1. q \in Int /\ r \in 0 .. m - 1 /\ a = m * q + r
  BY ModSplit
<1> HIDE DEF q, r
<1>2. CASE r + 1 < m
  <2>1. r + 1 \in 0 .. m - 1
    BY <1>1, <1>2
  <2>2. a + 1 = m * q + (r + 1)
    BY <1>1
  <2>3. (a + 1) % m = r + 1
    BY <2>1, <2>2, <1>1, ModUnique
  <2>4. (r + 1) % m = r + 1
    BY <2>1, Z3
  <2> QED
    BY <2>3, <2>4 DEF r
<1>3. CASE r + 1 = m
  <2>1. a + 1 = m * (q + 1) + 0
    BY <1>1, <1>3
  <2>2. (a + 1) % m = 0
    <3>1. q + 1 \in Int /\ 0 \in 0 .. m - 1
      BY <1>1
    <3> QED
      BY <2>1, <3>1, ModUnique
  <2>3. (r + 1) % m = 0
    BY <1>3, Z3
  <2> QED
    BY <2>2, <2>3 DEF r
<1> QED
  BY <1>1, <1>2, <1>3

LEMMA WrapDown ==
  ASSUME NEW m \in Nat \ {0}, NEW a \in Int
  PROVE  ((a % m) - 1) % m = (a - 1) % m
<1> DEFINE q == a \div m
           r == a % m
<1>1. q \in Int /\ r \in 0 .. m - 1 /\ a = m * q + r
  BY ModSplit
<1> HIDE DEF q, r
<1>2. CASE r > 0
  <2>1. r - 1 \in 0 .. m - 1
    BY <1>1, <1>2
  <2>2. a - 1 = m * q + (r - 1)
    BY <1>1
  <2>3. (a - 1) % m = r - 1
    BY <2>1, <2>2, <1>1, ModUnique
  <2>4. (r - 1) % m = r - 1
    BY <2>1, Z3
  <2> QED
    BY <2>3, <2>4 DEF r
<1>3. CASE r = 0
  <2>1. a - 1 = m * (q - 1) + (m - 1)
    BY <1>1, <1>3
  <2>2. (a - 1) % m = m - 1
    <3>1. q - 1 \in Int /\ m - 1 \in 0 .. m - 1
      BY <1>1
    <3> QED
      BY <2>1, <3>1, ModUnique
  <2>3. (r - 1) % m = m - 1
    <3>1. r - 1 = m * (-1) + (m - 1) /\ m - 1 \in 0 .. m - 1 /\ -1 \in Int
      BY <1>3
    <3> QED
      BY <3>1, ModUnique
  <2> QED
    BY <2>2, <2>3 DEF r
<1> QED
  BY <1>1, <1>2, <1>3

(***************************************************************************)
(* Phases                                                                  *)
(***************************************************************************)
LEMMA PhaseCases ==
  ASSUME NEW p \in Int
  PROVE  \/ p % 4 = 0 /\ Phase(p) = S00 /\ Phase(p + 1) = S10 /\ Phase(p - 1) = S01
         \/ p % 4 = 1 /\ Phase(p) = S10 /\ Phase(p + 1) = S11 /\ Phase(p - 1) = S00
         \/ p % 4 = 2 /\ Phase(p) = S11 /\ Phase(p + 1) = S01 /\ Phase(p - 1) = S10
         \/ p % 4 = 3 /\ Phase(p) = S01 /\ Phase(p + 1) = S00 /\ Phase(p - 1) = S11
<1>1. p % 4 \in {0, 1, 2, 3}
  BY Z3
<1>2. /\ p % 4 = 0 => (p + 1) % 4 = 1 /\ (p - 1) % 4 = 3
      /\ p % 4 = 1 => (p + 1) % 4 = 2 /\ (p - 1) % 4 = 0
      /\ p % 4 = 2 => (p + 1) % 4 = 3 /\ (p - 1) % 4 = 1
      /\ p % 4 = 3 => (p + 1) % 4 = 0 /\ (p - 1) % 4 = 2
  BY Z3
<1> QED
  BY <1>1, <1>2 DEF Phase

\* One quarter line up or down is an up step or a down step of the decoder, and
\* no movement is neither.
LEMMA PhaseSteps ==
  ASSUME NEW p \in Int
  PROVE  /\ Phase(p) \in Phases
         /\ <<Phase(p), Phase(p + 1)>> \in UpSteps
         /\ <<Phase(p), Phase(p - 1)>> \in DownSteps
         /\ <<Phase(p), Phase(p)>> \notin UpSteps \cup DownSteps
BY PhaseCases DEF Phases, UpSteps, DownSteps, S00, S01, S10, S11

LEMMA StepsDisjoint == UpSteps \cap DownSteps = {}
BY DEF UpSteps, DownSteps, S00, S01, S10, S11

(***************************************************************************)
(* The invariant: the registers are samples of the shaft at three moments  *)
(* that lie no further apart than one quarter line each, and once aligned  *)
(* the count belongs to the oldest of the three.                           *)
(***************************************************************************)
Near(p, q) == p - q \in {-1, 0, 1}

Chain ==
  /\ Near(position, seenAt["sync"])
  /\ Near(seenAt["sync"], seenAt["AB"])
  /\ Near(seenAt["AB"], seenAt["state"])
  /\ ~turned => position = seenAt["sync"]
  /\ turned => still = 0
  /\ still >= 1 => position = seenAt["sync"]
  /\ still >= 2 => seenAt["sync"] = seenAt["AB"]
  /\ still >= 3 => seenAt["AB"] = seenAt["state"]

\* At first sync shows the zero it was initialised with.
SyncSampled ==
  \/ sync = Phase(seenAt["sync"])
  \/ sync = AB /\ seenAt["sync"] = seenAt["AB"]

Follows ==
  aligned => /\ sync = Phase(seenAt["sync"])
             /\ AB = Phase(seenAt["AB"])
             /\ state = Phase(seenAt["state"])
             /\ count = (seenAt["state"] + offset) % Modulus

IInv == TypeOK /\ Chain /\ SyncSampled /\ Follows

LEMMA InitIInv == Init => IInv
<1> SUFFICES ASSUME Init PROVE IInv
  OBVIOUS
<1>1. TypeOK
  <2>1. S00 \in Phases
    BY DEF Phases, S00
  <2>2. count \in 0 .. Modulus - 1
    BY DEF Init
  <2>3. seenAt \in [{"sync", "AB", "state"} -> Positions]
    BY DEF Init
  <2>4. turned \in BOOLEAN /\ aligned \in BOOLEAN
    BY DEF Init
  <2>5. sync \in Phases /\ AB \in Phases /\ state \in Phases
    BY <2>1 DEF Init
  <2>6. /\ position \in Positions /\ count \in 0 .. Modulus - 1
        /\ offset \in Int /\ still \in 0 .. 3
    BY <2>2 DEF Init
  <2> QED
    BY <2>3, <2>4, <2>5, <2>6 DEF TypeOK
<1>2. position \in Int
  BY DecoderAssumption DEF Init
<1>3. Chain
  BY <1>2 DEF Init, Chain, Near
<1>4. SyncSampled /\ Follows
  BY DEF Init, SyncSampled, Follows
<1> QED
  BY <1>1, <1>3, <1>4 DEF IInv

LEMMA TurnIInv == IInv /\ Turn => IInv'
<1> SUFFICES ASSUME IInv, Turn PROVE IInv'
  OBVIOUS
<1> USE DecoderAssumption DEF IInv
<1>1. TypeOK'
  BY DEF Turn, TypeOK, registers, observers
<1>2. /\ position \in Int /\ seenAt["sync"] \in Int
      /\ position' = position - 1 \/ position' = position + 1
      /\ seenAt' = seenAt
  BY DEF Turn, TypeOK, observers
<1>3. Chain'
  <2>1. position = seenAt["sync"] /\ still' = 0 /\ turned'
    BY DEF Turn, Chain
  <2> QED
    BY <1>2, <2>1 DEF Chain, Near
<1>4. (SyncSampled /\ Follows)'
  BY DEF Turn, SyncSampled, Follows, registers, observers
<1> QED
  BY <1>1, <1>3, <1>4

\* What every clock, with or without reset, does to the samples.
LEMMA SynchroniseChain ==
  ASSUME IInv, Synchronise
  PROVE  /\ Chain' /\ SyncSampled'
         /\ position' \in Positions /\ turned' \in BOOLEAN
         /\ sync' \in Phases /\ AB' \in Phases
         /\ seenAt' \in [{"sync", "AB", "state"} -> Positions]
         /\ still' \in 0 .. 3
<1> USE DecoderAssumption DEF IInv
<1>1. /\ position \in Int /\ position \in Positions
      /\ seenAt["sync"] \in Positions /\ seenAt["AB"] \in Positions
      /\ seenAt["sync"] \in Int /\ seenAt["AB"] \in Int
      /\ still \in 0 .. 3
  BY DEF TypeOK
<1>2. /\ seenAt'["sync"] = position
      /\ seenAt'["AB"] = seenAt["sync"]
      /\ seenAt'["state"] = seenAt["AB"]
      /\ position' = position /\ turned' = FALSE
  BY DEF Synchronise
<1>3. still' = IF still < 3 THEN still + 1 ELSE still
  BY DEF Synchronise
<1>4. Near(position, seenAt["sync"]) /\ Near(seenAt["sync"], seenAt["AB"])
  BY DEF Chain
<1>5. /\ still >= 1 => position = seenAt["sync"]
      /\ still >= 2 => seenAt["sync"] = seenAt["AB"]
  BY DEF Chain
<1>6. Chain'
  BY <1>1, <1>2, <1>3, <1>4, <1>5 DEF Chain, Near
<1>7. sync' = Phase(position) /\ AB' = sync
  BY DEF Synchronise
<1>8. SyncSampled'
  BY <1>2, <1>7 DEF SyncSampled
<1>9. sync' \in Phases /\ AB' \in Phases
  BY <1>1, <1>7, PhaseSteps DEF TypeOK
<1>10. seenAt' \in [{"sync", "AB", "state"} -> Positions]
  BY <1>1 DEF Synchronise
<1>11. still' \in 0 .. 3
  BY <1>1, <1>3
<1> QED
  BY <1>1, <1>2, <1>6, <1>8, <1>9, <1>10, <1>11

LEMMA ResetIInv == IInv /\ ResetClock => IInv'
<1> SUFFICES ASSUME IInv, ResetClock PROVE IInv'
  OBVIOUS
<1>1. Synchronise
  BY DEF ResetClock
<1>2. state' \in Phases /\ count' \in 0 .. Modulus - 1
  <2>1. S00 \in Phases
    BY DEF Phases, S00
  <2> QED
    BY <2>1, DecoderAssumption DEF ResetClock
<1>3. /\ ~aligned'
      /\ aligned' \in BOOLEAN
      /\ offset' \in Int
  <2>1. aligned' = FALSE /\ offset' = 0
    BY DEF ResetClock
  <2>2. ~aligned' /\ aligned' \in BOOLEAN
    BY <2>1, Zenon
  <2> QED
    BY <2>1, <2>2
<1>4. /\ position' \in Positions /\ turned' \in BOOLEAN
      /\ sync' \in Phases /\ AB' \in Phases
      /\ seenAt' \in [{"sync", "AB", "state"} -> Positions]
      /\ still' \in 0 .. 3
  BY <1>1, SynchroniseChain
<1>5. TypeOK'
  BY <1>2, <1>3, <1>4 DEF TypeOK
<1> QED
  BY <1>1, <1>3, <1>5, SynchroniseChain DEF IInv, Follows

\* An aligned decoder sees the shaft move by one step or not at all.
LEMMA AlignedClock ==
  ASSUME IInv, Clock, aligned
  PROVE  Follows'
<1> USE DecoderAssumption
<1>1. /\ seenAt["sync"] \in Int /\ seenAt["AB"] \in Int /\ seenAt["state"] \in Int
      /\ offset \in Int /\ Modulus \in Nat \ {0}
  BY DEF IInv, TypeOK
<1>2. /\ sync = Phase(seenAt["sync"])
      /\ AB = Phase(seenAt["AB"])
      /\ state = Phase(seenAt["state"])
      /\ count = (seenAt["state"] + offset) % Modulus
  BY DEF IInv, Follows
<1>3. /\ aligned' /\ offset' = offset
      /\ sync' = Phase(seenAt'["sync"]) /\ AB' = Phase(seenAt'["AB"])
      /\ seenAt'["state"] = seenAt["AB"]
  BY <1>2 DEF Clock, Synchronise
<1>4. Near(seenAt["AB"], seenAt["state"])
  BY DEF IInv, Chain
<1> DEFINE s == seenAt["state"]
<1>5. CASE seenAt["AB"] = s + 1
  <2>1. <<state, AB>> \in UpSteps
    BY <1>1, <1>2, <1>5, PhaseSteps
  <2>2. state' = AB /\ count' = (count + 1) % Modulus
    BY <2>1, StepsDisjoint DEF Clock, Wrapped
  <2>3. (((s + offset) % Modulus) + 1) % Modulus = ((s + offset) + 1) % Modulus
    <3>1. s + offset \in Int
      BY <1>1
    <3> HIDE DEF s
    <3> QED
      BY <1>1, <3>1, WrapUp
  <2>4. (s + offset) + 1 = seenAt["AB"] + offset
    BY <1>1, <1>5
  <2> QED
    BY <1>2, <1>3, <2>2, <2>3, <2>4 DEF Follows
<1>6. CASE seenAt["AB"] = s - 1
  <2>1. <<state, AB>> \in DownSteps
    BY <1>1, <1>2, <1>6, PhaseSteps
  <2>2. state' = AB /\ count' = (count - 1) % Modulus
    BY <2>1, StepsDisjoint DEF Clock, Wrapped
  <2>3. (((s + offset) % Modulus) - 1) % Modulus = ((s + offset) - 1) % Modulus
    <3>1. s + offset \in Int
      BY <1>1
    <3> HIDE DEF s
    <3> QED
      BY <1>1, <3>1, WrapDown
  <2>4. (s + offset) - 1 = seenAt["AB"] + offset
    BY <1>1, <1>6
  <2> QED
    BY <1>2, <1>3, <2>2, <2>3, <2>4 DEF Follows
<1>7. CASE seenAt["AB"] = s
  <2>1. <<state, AB>> \notin UpSteps \cup DownSteps
    BY <1>1, <1>2, <1>7, PhaseSteps
  <2>2. state' = AB /\ count' = count
    BY <1>2, <1>7, <2>1 DEF Clock
  <2> QED
    BY <1>2, <1>3, <1>7, <2>2 DEF Follows
<1> QED
  BY <1>1, <1>4, <1>5, <1>6, <1>7 DEF Near

\* A decoder that aligns takes its offset from where it is.
LEMMA AligningClock ==
  ASSUME IInv, Clock, ~aligned
  PROVE  Follows'
<1> SUFFICES ASSUME aligned' PROVE Follows'
  BY DEF Follows
<1>1. /\ state' = Phase(seenAt["AB"]) /\ AB = state'
      /\ offset' = count' - seenAt["AB"]
  BY DEF Clock
<1>2. /\ sync' = Phase(seenAt'["sync"]) /\ AB' = sync
      /\ seenAt'["AB"] = seenAt["sync"] /\ seenAt'["state"] = seenAt["AB"]
  BY DEF Clock, Synchronise
<1>3. sync = Phase(seenAt["sync"])
  BY <1>1 DEF IInv, SyncSampled
<1>4. count' = (seenAt["AB"] + offset') % Modulus
  <2>1. /\ seenAt["AB"] \in Int /\ count \in 0 .. Modulus - 1
        /\ Modulus \in Nat \ {0}
    BY DecoderAssumption DEF IInv, TypeOK
  <2>2. count' \in 0 .. Modulus - 1
    BY <2>1, Z3 DEF Clock, Wrapped
  <2>3. seenAt["AB"] + offset' = count'
    BY <1>1, <2>1, <2>2
  <2>4. count' % Modulus = count'
    BY <2>1, <2>2, ModSmall
  <2> QED
    BY <2>3, <2>4
<1> QED
  BY <1>1, <1>2, <1>3, <1>4 DEF Follows

LEMMA ClockIInv == IInv /\ Clock => IInv'
<1> SUFFICES ASSUME IInv, Clock PROVE IInv'
  OBVIOUS
<1>1. Synchronise
  BY DEF Clock
<1>2. Follows'
  BY AlignedClock, AligningClock
<1>3. /\ AB \in Phases /\ state \in Phases /\ offset \in Int
      /\ aligned \in BOOLEAN /\ seenAt["AB"] \in Int
      /\ count \in 0 .. Modulus - 1 /\ Modulus \in Nat \ {0}
  BY DecoderAssumption DEF IInv, TypeOK
<1>4. state' \in Phases
  BY <1>3 DEF Clock
<1>5. count' \in 0 .. Modulus - 1
  BY <1>3, Z3 DEF Clock, Wrapped
<1>6. aligned' \in BOOLEAN
  BY <1>3 DEF Clock
<1>7. offset' \in Int
  <2>1. offset' = offset \/ offset' = count' - seenAt["AB"]
    BY DEF Clock
  <2> QED
    BY <1>3, <1>5, <2>1
<1>8. /\ position' \in Positions /\ turned' \in BOOLEAN
      /\ sync' \in Phases /\ AB' \in Phases
      /\ seenAt' \in [{"sync", "AB", "state"} -> Positions]
      /\ still' \in 0 .. 3
  BY <1>1, SynchroniseChain
<1>9. TypeOK'
  BY <1>4, <1>5, <1>6, <1>7, <1>8 DEF TypeOK
<1> QED
  BY <1>1, <1>2, <1>9, SynchroniseChain DEF IInv

LEMMA IInvFollows == IInv => CountFollows
<1> SUFFICES ASSUME IInv, aligned
             PROVE  \E lag \in still - 3 .. 3 - still :
                      count = (position + offset + lag) % Modulus
  BY DEF CountFollows
<1> DEFINE lag == seenAt["state"] - position
<1>1. /\ position \in Int /\ offset \in Int /\ still \in 0 .. 3
      /\ seenAt["sync"] \in Int /\ seenAt["AB"] \in Int /\ seenAt["state"] \in Int
  BY DecoderAssumption DEF IInv, TypeOK
<1>2. lag \in still - 3 .. 3 - still
  BY <1>1 DEF IInv, Chain, Near
<1>3. position + offset + lag = seenAt["state"] + offset
  BY <1>1
<1>4. count = (position + offset + lag) % Modulus
  BY <1>3 DEF IInv, Follows
<1> HIDE DEF lag
<1> QED
  BY <1>2, <1>4

LEMMA SpecIInv == Spec => []IInv
<1>1. IInv /\ [Next]_vars => IInv'
  <2> SUFFICES ASSUME IInv, [Next]_vars PROVE IInv'
    OBVIOUS
  <2>1. CASE Turn
    BY <2>1, TurnIInv
  <2>2. CASE Clock
    BY <2>2, ClockIInv
  <2>3. CASE ResetClock
    BY <2>3, ResetIInv
  <2>4. CASE UNCHANGED vars
    BY <2>4 DEF IInv, TypeOK, Chain, SyncSampled, Follows, Near, vars, registers,
                observers
  <2> QED
    BY <2>1, <2>2, <2>3, <2>4 DEF Next
<1> QED
  BY InitIInv, <1>1, PTL DEF Spec

\* Types, for every width of the counter and range of the shaft.
THEOREM DecoderTypeCorrect == Spec => []TypeOK
<1>1. IInv => TypeOK
  BY DEF IInv
<1> QED
  BY SpecIInv, <1>1, PTL

\* The decoder of lab 13 neither loses nor invents a step: once aligned its count
\* is the position of the shaft, up to a constant and the last three clocks.
THEOREM DecoderFollows == Spec => []CountFollows
BY SpecIInv, IInvFollows, PTL
=============================================================================
