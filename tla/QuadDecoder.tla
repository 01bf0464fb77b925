---------------------------- MODULE QuadDecoder ----------------------------
(***************************************************************************)
(* QuadDecoder.v, one step per FPGA clock, under a shaft that turns by at  *)
(* most a quarter of a line between two clocks, which is slow motion for   *)
(* a clock of some megahertz.                                              *)
(***************************************************************************)
EXTENDS Integers

CONSTANTS
  Modulus,   \* 2^16, the range of count
  Positions  \* where the shaft may be, in quarter lines

ASSUME DecoderAssumption == Modulus \in Nat \ {0} /\ Positions \subseteq Int

VARIABLES
  position,  \* the shaft, in quarter lines
  turned,    \* it turned since the last clock
  sync, AB,  \* the two stages of the input synchronizer
  state,     \* state
  count,     \* count, taken modulo 2^16
  seenAt,    \* observer: where the shaft was when sync, AB and state were sampled
  aligned,   \* observer: state has shown the phase of the shaft since the reset
  offset,    \* observer: count - position, once aligned
  still      \* observer: clocks since the shaft turned, up to three

registers == <<sync, AB, state, count>>
observers == <<seenAt, aligned, offset>>
vars == <<position, turned, registers, observers, still>>

Phases == {0, 1} \X {0, 1}
S00 == <<0, 0>>
S01 == <<0, 1>>
S10 == <<1, 0>>
S11 == <<1, 1>>

\* The levels of A and B: A leads when the shaft turns up.
Phase(p) ==
  CASE p % 4 = 0 -> S00
    [] p % 4 = 1 -> S10
    [] p % 4 = 2 -> S11
    [] p % 4 = 3 -> S01

TypeOK ==
  /\ position \in Positions /\ turned \in BOOLEAN
  /\ sync \in Phases /\ AB \in Phases /\ state \in Phases
  /\ count \in 0 .. Modulus - 1
  /\ seenAt \in [{"sync", "AB", "state"} -> Positions]
  /\ aligned \in BOOLEAN
  /\ offset \in Int
  /\ still \in 0 .. 3

\* At power-up the shaft may be anywhere; count has no initial value.
Init ==
  /\ position \in Positions /\ turned = FALSE
  /\ sync = S00 /\ AB = S00 /\ state = S00
  /\ count \in 0 .. Modulus - 1
  /\ seenAt = [r \in {"sync", "AB", "state"} |-> position]
  /\ aligned = FALSE /\ offset = 0 /\ still = 0

\* The shaft turns, or an edge bounces.
Turn ==
  /\ ~turned /\ turned' = TRUE
  /\ position' \in {position - 1, position + 1} \cap Positions
  /\ still' = 0
  /\ UNCHANGED <<registers, observers>>

\* The pairs <<state, AB>> that count up and down.
UpSteps == {<<S00, S10>>, <<S01, S00>>, <<S10, S11>>, <<S11, S01>>}

\* Mutant of DownSteps: one arm of the case statement is missing.
DownStepsIncomplete == {<<S00, S01>>, <<S01, S11>>, <<S10, S00>>}

DownSteps == {<<S00, S01>>, <<S01, S11>>, <<S10, S00>>, <<S11, S10>>}

Synchronise ==
  /\ sync' = Phase(position) /\ AB' = sync
  /\ seenAt' = [sync |-> position, AB |-> seenAt["sync"], state |-> seenAt["AB"]]
  /\ turned' = FALSE
  /\ still' = IF still < 3 THEN still + 1 ELSE still
  /\ UNCHANGED position

Wrapped(n) == n % Modulus

\* The synchronizer's first samples show the zeros it was initialised with,
\* so the state shows the shaft's phase only from the third clock on.
Clock ==
  /\ Synchronise
  /\ \/ /\ <<state, AB>> \in UpSteps
        /\ count' = Wrapped(count + 1) /\ state' = AB
     \/ /\ <<state, AB>> \in DownSteps
        /\ count' = Wrapped(count - 1) /\ state' = AB
     \/ /\ <<state, AB>> \notin UpSteps \cup DownSteps
        /\ UNCHANGED <<count, state>>
  /\ IF aligned \/ state' # Phase(seenAt["AB"]) \/ AB # state'
     THEN UNCHANGED <<aligned, offset>>
     ELSE aligned' = TRUE /\ offset' = count' - seenAt["AB"]

\* A clock with rst, the reset button.
ResetClock ==
  /\ Synchronise
  /\ count' = 0 /\ state' = S00
  /\ aligned' = FALSE /\ offset' = 0

Next == Turn \/ Clock \/ ResetClock

Spec == Init /\ [][Next]_vars

\* Once aligned the count follows the shaft through every wrap, turn and bounce:
\* it differs from position + offset by no more than the turns of the clocks the
\* decoder has not seen yet, and not at all when the shaft was still for three.
CountFollows ==
  aligned => \E lag \in still - 3 .. 3 - still :
               count = (position + offset + lag) % Modulus
=============================================================================
