------------------------------ MODULE SpiSlave ------------------------------
(***************************************************************************)
(* SPI.v, one step per FPGA clock, with the master's three lines changing  *)
(* between clocks.  A word is a function from bit positions, 1 for the     *)
(* first one sent.  Right-hand sides read the registers before the clock,  *)
(* as nonblocking assignments do.                                          *)
(***************************************************************************)
EXTENDS Naturals

CONSTANTS
  FrameBits, \* 32 in the code
  MaxBits,   \* bound on the bits of one frame (not in the code)
  Words,     \* the commands the master may send
  Counts,    \* the encoder counts the FPGA may show
  MinHold,   \* FPGA clocks between two changes of the master's lines
  Nothing    \* no whole frame waits to be held

Bits == {0, 1}
Word == [1 .. FrameBits -> Bits]
Zero == [i \in 1 .. FrameBits |-> 0]

ASSUME SpiAssumption == /\ FrameBits \in Nat \ {0}
                        /\ MaxBits \in Nat /\ MaxBits >= FrameBits
                        /\ Words \subseteq Word /\ Counts \subseteq Word
                        /\ MinHold \in Nat
                        /\ Nothing \notin Word

VARIABLES
  cs, sck, pico,         \* the master's lines: spi_cs, spi_clk, spi_pico
  quiet,                 \* FPGA clocks since one of them changed, up to MinHold
  sending,               \* the master's shift register: bits to send, then bits sent
  bits, got,             \* bits clocked, and the reply
  csr, clkr, picor,      \* the synchronisers SPI_CSr, SPI_CLKr, SPI_PICOr
  rxShift, txShift, bitCount,
  held,                  \* the registers behind the motor outputs
  counts,                \* {yaw_encoder_count, pitch_encoder_count}
  offered,               \* observer: a whole frame that ended, not yet held
  shown,                 \* observer: the counts shown since the frame began
  spoiled,               \* observer: a reset came in this frame
  since                  \* observer: bits clocked since the later of the frame's
                         \* start and the last reset, up to FrameBits

masterVars == <<cs, sck, pico, sending, bits, got>>
slaveVars == <<csr, clkr, picor, rxShift, txShift, bitCount, held>>
vars == <<masterVars, quiet, slaveVars, counts, offered, shown, spoiled, since>>

TypeOK ==
  /\ cs \in Bits /\ sck \in Bits /\ pico \in Bits
  /\ quiet \in 0 .. MinHold
  /\ sending \in Word /\ got \in Word /\ bits \in 0 .. MaxBits
  /\ csr \in [0 .. 2 -> Bits] /\ clkr \in [0 .. 2 -> Bits]
  /\ picor \in [0 .. 1 -> Bits]
  /\ rxShift \in Word /\ txShift \in Word /\ held \in Word
  /\ bitCount \in 0 .. FrameBits
  /\ counts \in Counts /\ shown \subseteq Counts
  /\ offered \in Word \cup {Nothing}
  /\ spoiled \in BOOLEAN /\ since \in 0 .. FrameBits

Init ==
  /\ cs = 1 /\ sck = 0 /\ pico = 0 /\ quiet = 0
  /\ sending = Zero /\ bits = 0 /\ got = Zero
  /\ csr = [i \in 0 .. 2 |-> 1] /\ clkr = [i \in 0 .. 2 |-> 0]
  /\ picor = [i \in 0 .. 1 |-> 0]
  /\ rxShift = Zero /\ txShift = Zero /\ bitCount = 0 /\ held = Zero
  /\ counts \in Counts
  /\ offered = Nothing /\ shown = {} /\ spoiled = FALSE /\ since = 0

(***************************************************************************)
(* The slave                                                               *)
(***************************************************************************)
Rising(r)  == r[2] = 0 /\ r[1] = 1
Falling(r) == r[2] = 1 /\ r[1] = 0

Active == csr[1] = 0
StartMessage == Falling(csr)

EndMessage == Rising(csr)

Sampled(register, line) ==
  [i \in DOMAIN register |-> IF i = 0 THEN line ELSE register[i - 1]]

ShiftIn(word, bit) ==
  [i \in 1 .. FrameBits |-> IF i < FrameBits THEN word[i + 1] ELSE bit]

Idle == ~Active \/ StartMessage

\* bit_count, which saturates at the length of a frame.
Counted == IF Rising(clkr) /\ bitCount < FrameBits THEN bitCount + 1 ELSE bitCount

\* Mutant of Replied: the counts are loaded until the first bit is counted.
RepliedUnlatched == IF Active /\ Falling(clkr) THEN ShiftIn(txShift, 0)
                    ELSE IF Idle \/ bitCount = 0 THEN counts ELSE txShift

\* The shift on a falling edge is the later assignment, so it wins.
Replied == IF Active /\ Falling(clkr) THEN ShiftIn(txShift, 0)
           ELSE IF Idle THEN counts ELSE txShift

\* Mutant of Committed: incomplete frames are held too.
CommittedAlways == IF EndMessage THEN rxShift ELSE held

Committed == IF EndMessage /\ bitCount = FrameBits THEN rxShift ELSE held

\* The synchronisers are not reset.
Synchronise ==
  /\ csr' = Sampled(csr, cs) /\ clkr' = Sampled(clkr, sck)
  /\ picor' = Sampled(picor, pico)
  /\ quiet' = IF quiet < MinHold THEN quiet + 1 ELSE quiet

Clock ==
  /\ Synchronise
  /\ rxShift' = IF Idle THEN Zero
                ELSE IF Rising(clkr) THEN ShiftIn(rxShift, picor[1]) ELSE rxShift
  /\ bitCount' = IF Idle THEN 0 ELSE Counted
  /\ txShift' = Replied
  /\ held' = Committed
  /\ offered' = IF EndMessage THEN Nothing ELSE offered
  /\ UNCHANGED <<masterVars, counts, shown, spoiled, since>>

\* A clock with rst, the reset button.  A bit that is still in the synchronisers
\* is taken after it.
ResetClock ==
  /\ Synchronise
  /\ rxShift' = Zero /\ bitCount' = 0 /\ txShift' = Zero /\ held' = Zero
  /\ offered' = Nothing /\ spoiled' = TRUE
  /\ since' = IF sck = 1 /\ clkr[1] = 0 THEN 1 ELSE 0
  /\ UNCHANGED <<masterVars, counts, shown>>

\* A decoder counts between two clocks.
Count ==
  /\ counts' \in Counts
  /\ shown' = shown \cup {counts'}
  /\ UNCHANGED <<masterVars, quiet, slaveVars, offered, spoiled, since>>

(***************************************************************************)
(* The master: SPI mode 0.  A change of its lines stays for MinHold clocks *)
(* at least.  The program's transfers are four bytes, a whole frame; one   *)
(* may be cut off, or be longer, and then sends any bits after the word.   *)
(***************************************************************************)
Settled == quiet = MinHold
MasterMoves == quiet' = 0 /\ UNCHANGED <<slaveVars, counts>>

Select ==
  /\ cs = 1 /\ Settled
  /\ cs' = 0
  /\ sending' \in Words
  /\ pico' = sending'[1]
  /\ bits' = 0 /\ since' = 0
  /\ shown' = {counts} /\ spoiled' = FALSE
  /\ MasterMoves
  /\ UNCHANGED <<sck, got, offered>>

\* The rising edge, on which both sides sample.
Rise ==
  /\ cs = 0 /\ sck = 0 /\ Settled /\ bits < MaxBits
  /\ sck' = 1
  /\ sending' = ShiftIn(sending, pico)
  /\ got' = IF bits < FrameBits THEN ShiftIn(got, txShift[1]) ELSE got
  /\ bits' = bits + 1
  /\ since' = IF since < FrameBits THEN since + 1 ELSE since
  /\ MasterMoves
  /\ UNCHANGED <<cs, pico, offered, shown, spoiled>>

Fall ==
  /\ sck = 1 /\ Settled
  /\ sck' = 0
  /\ pico' \in IF bits < FrameBits THEN {sending[1]} ELSE Bits
  /\ MasterMoves
  /\ UNCHANGED <<cs, sending, bits, got, offered, shown, spoiled, since>>

\* The end of a frame, wherever it is.  What the slave may hold is the last
\* FrameBits bits that were sent.
Deselect ==
  /\ cs = 0 /\ sck = 0 /\ Settled
  /\ cs' = 1
  /\ offered' = IF since = FrameBits THEN sending ELSE Nothing
  /\ MasterMoves
  /\ UNCHANGED <<sck, pico, sending, bits, got, shown, spoiled, since>>

Next == Clock \/ ResetClock \/ Count \/ Select \/ Rise \/ Fall \/ Deselect

Spec == Init /\ [][Next]_vars

\* SPI.v: "Only commit a new motor command after a complete 32-bit frame.
\* Incomplete transfers are ignored": the slave implements FrameLink, with
\* aborted frames, longer ones, of which the last FrameBits bits count, and a
\* reset in any clock.
Link == INSTANCE FrameLink WITH Words <- Word
ImplementsLink == Link!LinkSafety

\* The counts a whole frame brings back were shown by the decoders at one
\* moment of that frame: they are neither older than the frame nor mixed from
\* two moments, although the decoders count all the time.
ReplyIsOneFreshSample ==
  cs = 0 /\ bits >= FrameBits /\ ~spoiled => got \in shown
=============================================================================
