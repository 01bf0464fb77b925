----------------------------- MODULE FpgaProofs -----------------------------
(***************************************************************************)
(* The slave implements FrameLink, its replies are fresh samples, and the  *)
(* PWM behind it drives a motor for exactly the duty it was sent, for      *)
(* frames and periods of any length and a master that holds its lines for  *)
(* at least three FPGA clocks, the depth of the synchronisers.             *)
(***************************************************************************)
EXTENDS Fpga, Integers, TLAPS

(***************************************************************************)
(* Type correctness.                                                       *)
(***************************************************************************)
LEMMA ShiftInType ==
  ASSUME NEW word \in Word, NEW bit \in Bits
  PROVE  /\ ShiftIn(word, bit) \in Word
         /\ \A i \in 1 .. FrameBits - 1 : ShiftIn(word, bit)[i] = word[i + 1]
         /\ ShiftIn(word, bit)[FrameBits] = bit
<1>1. /\ FrameBits \in Nat \ {0}
      /\ \A i \in 1 .. FrameBits : word[i] \in Bits
  BY SpiAssumption DEF Word
<1>2. \A i \in 1 .. FrameBits :
        (IF i < FrameBits THEN word[i + 1] ELSE bit) \in Bits
  BY <1>1
<1>3. ShiftIn(word, bit) \in Word
  BY <1>2 DEF ShiftIn, Word
<1>4. \A i \in 1 .. FrameBits :
        ShiftIn(word, bit)[i] = IF i < FrameBits THEN word[i + 1] ELSE bit
  BY DEF ShiftIn
<1> QED
  BY <1>1, <1>3, <1>4

LEMMA SampledIs ==
  ASSUME NEW line \in Bits
  PROVE  /\ \A r \in [0 .. 2 -> Bits] :
              /\ Sampled(r, line) \in [0 .. 2 -> Bits]
              /\ Sampled(r, line)[0] = line
              /\ Sampled(r, line)[1] = r[0] /\ Sampled(r, line)[2] = r[1]
         /\ \A r \in [0 .. 1 -> Bits] :
              /\ Sampled(r, line) \in [0 .. 1 -> Bits]
              /\ Sampled(r, line)[0] = line /\ Sampled(r, line)[1] = r[0]
  BY DEF Sampled

\* What a clock does to the synchronisers.
LEMMA SynchroniseIs ==
  ASSUME TypeOK, Synchronise
  PROVE  /\ csr' \in [0 .. 2 -> Bits] /\ clkr' \in [0 .. 2 -> Bits]
         /\ picor' \in [0 .. 1 -> Bits]
         /\ quiet' \in 0 .. MinHold
         /\ quiet' = IF quiet < MinHold THEN quiet + 1 ELSE quiet
         /\ csr'[0] = cs /\ csr'[1] = csr[0] /\ csr'[2] = csr[1]
         /\ clkr'[0] = sck /\ clkr'[1] = clkr[0] /\ clkr'[2] = clkr[1]
         /\ picor'[0] = pico /\ picor'[1] = picor[0]
<1>1. cs \in Bits /\ sck \in Bits /\ pico \in Bits
  BY DEF TypeOK
<1>2. quiet' \in 0 .. MinHold
  BY SpiAssumption DEF TypeOK, Synchronise
<1> QED
  BY <1>1, <1>2, SampledIs DEF TypeOK, Synchronise

LEMMA ZeroType == Zero \in Word
  BY SpiAssumption DEF Zero, Word, Bits

LEMMA TypeInit == Init => TypeOK
<1> SUFFICES ASSUME Init PROVE TypeOK
  OBVIOUS
<1>1. /\ quiet \in 0 .. MinHold /\ bits \in 0 .. MaxBits
      /\ bitCount \in 0 .. FrameBits /\ since \in 0 .. FrameBits
  BY SpiAssumption DEF Init
<1>2. /\ csr \in [0 .. 2 -> Bits] /\ clkr \in [0 .. 2 -> Bits]
      /\ picor \in [0 .. 1 -> Bits]
  BY DEF Init, Bits
<1> QED
  BY <1>1, <1>2, ZeroType DEF Init, TypeOK, Bits

LEMMA TypeStep == TypeOK /\ [Next]_vars => TypeOK'
<1> SUFFICES ASSUME TypeOK, [Next]_vars PROVE TypeOK'
  OBVIOUS
<1>1. CASE Clock
  <2>1. /\ rxShift' \in Word /\ txShift' \in Word /\ held' \in Word
        /\ bitCount' \in 0 .. FrameBits
    <3>1. picor[1] \in Bits /\ 0 \in Bits /\ counts \in Word
      BY SpiAssumption DEF TypeOK, Bits
    <3>2. /\ ShiftIn(rxShift, picor[1]) \in Word
          /\ ShiftIn(txShift, 0) \in Word
      BY <3>1, ShiftInType DEF TypeOK
    <3>3. rxShift' \in Word /\ txShift' \in Word /\ held' \in Word
      BY <1>1, <3>1, <3>2, ZeroType DEF Clock, Replied, Committed, TypeOK
    <3>4. bitCount' \in 0 .. FrameBits
      BY <1>1, SpiAssumption DEF Clock, Counted, TypeOK
    <3> QED
      BY <3>3, <3>4
  <2> QED
    BY <1>1, <2>1, SynchroniseIs DEF Clock, TypeOK, masterVars
<1>2. CASE ResetClock
  BY <1>2, SynchroniseIs, ZeroType, SpiAssumption DEF ResetClock, TypeOK, masterVars
<1>3. CASE Count
  BY <1>3 DEF Count, TypeOK, masterVars, slaveVars
<1>4. CASE Select
  <2>1. sending' \in Word /\ pico' \in Bits
    BY <1>4, SpiAssumption DEF Select, Word
  <2>2. quiet' \in 0 .. MinHold /\ bits' \in 0 .. MaxBits /\ since' \in 0 .. FrameBits
    BY <1>4, SpiAssumption DEF Select, MasterMoves
  <2> QED
    BY <1>4, <2>1, <2>2
    DEF Select, MasterMoves, TypeOK, slaveVars, Bits
<1>5. CASE Rise
  <2>1. got' \in Word /\ sending' \in Word
    <3>1. txShift[1] \in Bits
      BY SpiAssumption DEF TypeOK, Word
    <3> QED
      BY <1>5, <3>1, ShiftInType DEF Rise, TypeOK
  <2>2. bits' \in 0 .. MaxBits /\ since' \in 0 .. FrameBits
    BY <1>5, SpiAssumption DEF Rise, TypeOK
  <2> QED
    BY <1>5, <2>1, <2>2, SpiAssumption DEF Rise, MasterMoves, TypeOK, slaveVars, Bits
<1>6. CASE Fall
  <2>1. pico' \in Bits
    BY <1>6, SpiAssumption DEF Fall, TypeOK, Word
  <2> QED
    BY <1>6, <2>1, SpiAssumption DEF Fall, MasterMoves, TypeOK, slaveVars, Bits
<1>7. CASE Deselect
  BY <1>7, SpiAssumption DEF Deselect, MasterMoves, TypeOK, slaveVars, Bits
<1>8. CASE UNCHANGED vars
  BY <1>8 DEF vars, masterVars, slaveVars, TypeOK
<1> QED
  BY <1>1, <1>2, <1>3, <1>4, <1>5, <1>6, <1>7, <1>8 DEF Next

\* Every register, line and observer of the slave stays in its type.
THEOREM SlaveTypeCorrect == Spec => []TypeOK
<1> QED
  BY TypeInit, TypeStep, PTL DEF Spec

(***************************************************************************)
(* The master's lines in the synchronisers.  A line stays for three clocks,*)
(* so that when it changes the synchronisers show the lines as they are,   *)
(* and only one of chip select and clock is under way in them.             *)
(***************************************************************************)
Lines ==
  /\ cs = 1 => sck = 0 /\ clkr[2] = 0
  /\ quiet > 0 => csr[0] = cs /\ clkr[0] = sck /\ picor[0] = pico
  /\ quiet > 1 => csr[1] = cs /\ clkr[1] = sck /\ picor[1] = pico
  /\ quiet > 2 => csr[2] = cs /\ clkr[2] = sck
  /\ quiet = 0 => csr[0] = csr[2] /\ clkr[0] = clkr[2]
  /\ quiet < 2 => csr[1] = csr[2] /\ clkr[1] = clkr[2]
  /\ csr[2] # cs => sck = 0 /\ clkr[2] = 0
  /\ sck = 1 => picor[0] = pico /\ picor[1] = pico

LEMMA LinesInit == Init => Lines
  BY DEF Init, Lines

LEMMA LinesStep ==
  ASSUME MinHold >= 3, TypeOK, Lines, [Next]_vars
  PROVE  Lines'
<1>1. CASE Synchronise /\ UNCHANGED masterVars
  BY <1>1, SynchroniseIs, SpiAssumption DEF Lines, TypeOK, masterVars, Bits
<1>2. CASE MasterMoves /\ Settled /\ (Select \/ Rise \/ Fall \/ Deselect)
  <2>1. quiet >= 3 /\ quiet' = 0
    BY <1>2, SpiAssumption DEF Settled, MasterMoves
  <2>2. /\ csr' = csr /\ clkr' = clkr /\ picor' = picor
        /\ csr[0] = cs /\ csr[1] = cs /\ csr[2] = cs
        /\ clkr[0] = sck /\ clkr[1] = sck /\ clkr[2] = sck
        /\ picor[0] = pico /\ picor[1] = pico
    BY <1>2, <2>1 DEF MasterMoves, slaveVars, Lines, TypeOK
  <2> QED
    BY <1>2, <2>1, <2>2 DEF Lines, Select, Rise, Fall, Deselect, TypeOK, Bits
<1>3. CASE Count \/ UNCHANGED vars
  BY <1>3 DEF Count, vars, masterVars, slaveVars, Lines
<1> QED
  BY <1>1, <1>2, <1>3
  DEF Next, Clock, ResetClock, Select, Rise, Fall, Deselect

(***************************************************************************)
(* A frame on its way.  While the slave takes a frame for active it has    *)
(* counted the bits clocked since the frame or the last reset began, but   *)
(* for one whose edge is still in the synchronisers, and holds them at the *)
(* end of rxShift, as the master does at the end of its own register.      *)
(***************************************************************************)
Taking == csr[2] = 0

\* A rising edge of the master's clock that the slave has not met.
InFlight == sck = 1 /\ clkr[2] = 0

\* The last count bits of rxShift are those the master sent last.
Caught(count) ==
  \A i \in 1 .. FrameBits : i > FrameBits - count => rxShift[i] = sending[i]

\* They are those it sent before its last one.
CaughtBefore(count) ==
  \A i \in 2 .. FrameBits : i > FrameBits - count => rxShift[i] = sending[i - 1]

Received ==
  IF InFlight
  THEN /\ since = IF bitCount < FrameBits THEN bitCount + 1 ELSE FrameBits
       /\ CaughtBefore(bitCount)
  ELSE since = bitCount /\ Caught(bitCount)

Whole == since = FrameBits

MasterFrame ==
  /\ cs = 0 => offered = Nothing
  /\ sck = 1 => bits > 0 /\ pico = sending[FrameBits]
  /\ clkr[2] = 1 => bits > 0

SlaveFrame ==
  /\ ~Taking => bitCount = 0
  /\ ~Taking /\ cs = 0 => bits = 0 /\ since = 0
  /\ Taking => Received
  /\ cs = 1 => offered = IF Taking /\ Whole THEN sending ELSE Nothing

FrameInv == MasterFrame /\ SlaveFrame

LEMMA FrameInit == Init => FrameInv
  BY DEF Init, FrameInv, MasterFrame, SlaveFrame, Taking

\* The edges the slave meets, from the lines.
LEMMA Edges ==
  ASSUME TypeOK, Lines
  PROVE  /\ Active <=> csr[1] = 0
         /\ ~Taking <=> csr[2] = 1
         /\ StartMessage <=> ~Taking /\ csr[1] = 0
         /\ EndMessage <=> Taking /\ csr[1] = 1
         /\ EndMessage => cs = 1
         /\ StartMessage => cs = 0 /\ sck = 0 /\ clkr[1] = 0 /\ clkr[2] = 0
         /\ Rising(clkr) => Taking /\ cs = 0 /\ csr[1] = 0 /\ sck = 1 /\ picor[1] = pico
         /\ Falling(clkr) => Taking /\ cs = 0 /\ csr[1] = 0 /\ sck = 0
         /\ sck = 1 /\ clkr[2] = 0 /\ ~Rising(clkr) => clkr[1] = 0
         /\ clkr[2] = 1 /\ ~Falling(clkr) => clkr[1] = 1
         /\ ~(Rising(clkr) /\ Falling(clkr))
  BY SpiAssumption
  DEF TypeOK, Lines, Bits, Active, Taking, StartMessage, EndMessage, Rising, Falling

\* What a clock does to the edges under way.
LEMMA InFlightStep ==
  ASSUME TypeOK, Lines, Synchronise, UNCHANGED masterVars
  PROVE  /\ InFlight' <=> InFlight /\ ~Rising(clkr)
         /\ InFlight' <=> sck = 1 /\ clkr[1] = 0
         /\ Rising(clkr) => InFlight
         /\ Taking' <=> csr[1] = 0
<1>1. clkr'[2] = clkr[1] /\ csr'[2] = csr[1] /\ sck' = sck
  BY SynchroniseIs DEF masterVars
<1>2. /\ clkr[1] \in Bits /\ clkr[2] \in Bits
      /\ Rising(clkr) <=> clkr[2] = 0 /\ clkr[1] = 1
      /\ Falling(clkr) <=> clkr[2] = 1 /\ clkr[1] = 0
  BY DEF TypeOK, Rising, Falling
<1>3. (Rising(clkr) => sck = 1) /\ (Falling(clkr) => sck = 0)
  BY Edges
<1> QED
  BY <1>1, <1>2, <1>3 DEF InFlight, Taking, Bits

LEMMA FrameClock ==
  ASSUME TypeOK, Lines, FrameInv, Clock
  PROVE  FrameInv'
<1>1. /\ Synchronise /\ UNCHANGED masterVars
      /\ UNCHANGED since
      /\ FrameBits \in Nat \ {0} /\ bitCount \in 0 .. FrameBits
  BY SpiAssumption DEF Clock, TypeOK
<1>2. /\ cs' = cs /\ sck' = sck /\ pico' = pico /\ bits' = bits /\ sending' = sending
  BY <1>1 DEF masterVars
<1>3. MasterFrame'
  <2>1. cs = 0 => offered' = Nothing
    BY Edges DEF Clock, FrameInv, MasterFrame
  <2>2. clkr'[2] = 1 => clkr[2] = 1 \/ sck = 1
    BY <1>1, SynchroniseIs, SpiAssumption DEF Lines, TypeOK, Bits
  <2> QED
    BY <1>2, <2>1, <2>2 DEF FrameInv, MasterFrame, TypeOK, Bits
<1>4. ~Taking' => bitCount' = 0
  BY <1>1, SynchroniseIs, Edges DEF Taking, Clock, Idle, TypeOK, Bits
<1>5. ~Taking' /\ cs' = 0 => bits' = 0 /\ since' = 0
  <2>1. ~Taking' /\ cs = 0 => ~Taking
    BY <1>1, SynchroniseIs, Edges DEF Taking, Lines, TypeOK, Bits
  <2> QED
    BY <1>1, <1>2, <2>1 DEF FrameInv, SlaveFrame
<1>6. Taking' => Received'
  <2> SUFFICES ASSUME Taking' PROVE Received'
    OBVIOUS
  <2>1. CASE ~Taking
    <3>1. StartMessage /\ cs = 0 /\ sck = 0
      BY <1>1, <2>1, SynchroniseIs, Edges DEF Taking
    <3>2. bitCount' = 0 /\ since' = 0
      BY <1>1, <2>1, <3>1 DEF Clock, Idle, FrameInv, SlaveFrame
    <3>3. ~InFlight'
      BY <1>2, <3>1 DEF InFlight
    <3> QED
      BY <1>1, <3>2, <3>3 DEF Received, Caught
  <2>2. CASE Taking /\ Rising(clkr)
    <3>1. /\ ~Idle /\ InFlight /\ ~InFlight' /\ picor[1] = sending[FrameBits]
      BY <1>1, <2>2, Edges, InFlightStep DEF Idle, FrameInv, MasterFrame
    <3>2. /\ since = IF bitCount < FrameBits THEN bitCount + 1 ELSE FrameBits
          /\ CaughtBefore(bitCount)
      BY <2>2, <3>1 DEF FrameInv, SlaveFrame, Received
    <3>3. /\ rxShift' = ShiftIn(rxShift, picor[1])
          /\ bitCount' = IF bitCount < FrameBits THEN bitCount + 1 ELSE bitCount
      BY <2>2, <3>1 DEF Clock, Counted
    <3>4. /\ \A i \in 1 .. FrameBits - 1 : rxShift'[i] = rxShift[i + 1]
          /\ rxShift'[FrameBits] = sending[FrameBits]
      <4>1. rxShift \in Word /\ picor[1] \in Bits
        BY DEF TypeOK
      <4> QED
        BY <3>1, <3>3, <4>1, ShiftInType
    <3>5. bitCount' = since /\ bitCount' <= bitCount + 1 /\ bitCount' \in 0 .. FrameBits
      BY <1>1, <3>2, <3>3
    <3>6. ASSUME NEW i \in 1 .. FrameBits, i > FrameBits - bitCount'
          PROVE  rxShift'[i] = sending[i]
      <4>1. CASE i = FrameBits
        BY <3>4, <4>1
      <4>2. CASE i < FrameBits
        <5>1. i \in 1 .. FrameBits - 1 /\ i + 1 \in 2 .. FrameBits
              /\ i + 1 > FrameBits - bitCount
          BY <1>1, <3>5, <3>6, <4>2
        <5>2. rxShift[i + 1] = sending[(i + 1) - 1]
          BY <3>2, <5>1 DEF CaughtBefore
        <5>3. rxShift'[i] = rxShift[i + 1] /\ (i + 1) - 1 = i
          BY <3>4, <5>1
        <5> QED
          BY <5>2, <5>3
      <4> QED
        BY <1>1, <4>1, <4>2
    <3> QED
      BY <1>1, <1>2, <3>1, <3>5, <3>6 DEF Received, Caught
  <2>3. CASE Taking /\ ~Rising(clkr)
    <3>1. ~Idle
      BY <1>1, <2>3, SynchroniseIs, Edges DEF Idle, Taking
    <3>2. /\ rxShift' = rxShift /\ bitCount' = bitCount
          /\ InFlight' = InFlight
      BY <1>1, <2>3, <3>1, InFlightStep DEF Clock, Counted, InFlight
    <3> QED
      BY <1>1, <1>2, <2>3, <3>2
      DEF FrameInv, SlaveFrame, Received, Caught, CaughtBefore
  <2> QED
    BY <2>1, <2>2, <2>3
<1>7. cs' = 1 => offered' = IF Taking' /\ Whole' THEN sending' ELSE Nothing
  <2> SUFFICES ASSUME cs = 1
               PROVE  offered' = IF Taking' /\ Whole THEN sending ELSE Nothing
    BY <1>1, <1>2 DEF Whole
  <2>1. offered = IF Taking /\ Whole THEN sending ELSE Nothing
    BY DEF FrameInv, SlaveFrame
  <2>2. Taking' <=> Taking /\ ~EndMessage
    BY <1>1, SynchroniseIs, Edges DEF Taking, TypeOK, Bits
  <2>3. ~Taking => ~EndMessage
    BY Edges
  <2> QED
    BY <2>1, <2>2, <2>3 DEF Clock
<1> QED
  BY <1>3, <1>4, <1>5, <1>6, <1>7 DEF FrameInv, SlaveFrame

\* A reset loses the bits taken so far, but none that is still under way.
LEMMA FrameReset ==
  ASSUME TypeOK, Lines, FrameInv, ResetClock
  PROVE  FrameInv'
<1>1. /\ Synchronise /\ UNCHANGED masterVars
      /\ bitCount' = 0 /\ offered' = Nothing
      /\ since' = IF sck = 1 /\ clkr[1] = 0 THEN 1 ELSE 0
      /\ FrameBits \in Nat \ {0}
  BY SpiAssumption DEF ResetClock
<1>2. /\ cs' = cs /\ sck' = sck /\ pico' = pico /\ bits' = bits /\ sending' = sending
  BY <1>1 DEF masterVars
<1>3. /\ ~Taking' /\ cs = 0 => ~Taking /\ sck = 0
      /\ clkr'[2] = 1 => clkr[2] = 1 \/ sck = 1
  BY <1>1, SynchroniseIs, Edges, SpiAssumption DEF Taking, Lines, TypeOK, Bits
<1>4. MasterFrame'
  BY <1>1, <1>2, <1>3 DEF FrameInv, MasterFrame, TypeOK, Bits
<1>5. ~Taking' /\ cs = 0 => bits = 0 /\ since' = 0
  BY <1>1, <1>3 DEF FrameInv, SlaveFrame
<1>6. Received'
  <2>1. InFlight' <=> sck = 1 /\ clkr[1] = 0
    BY <1>1, InFlightStep
  <2>2. Caught(bitCount)' /\ CaughtBefore(bitCount)'
    BY <1>1 DEF Caught, CaughtBefore
  <2>3. since' = IF InFlight' THEN bitCount' + 1 ELSE bitCount'
    BY <1>1, <2>1
  <2>4. bitCount' < FrameBits
    BY <1>1
  <2> QED
    BY <2>2, <2>3, <2>4 DEF Received
<1>7. cs' = 1 => offered' = IF Taking' /\ Whole' THEN sending' ELSE Nothing
  <2>1. cs = 1 => since' = 0
    BY <1>1 DEF Lines
  <2> QED
    BY <1>1, <1>2, <2>1 DEF Whole
<1>8. SlaveFrame'
  BY <1>1, <1>2, <1>5, <1>6, <1>7 DEF SlaveFrame
<1> QED
  BY <1>4, <1>8 DEF FrameInv

LEMMA FrameMaster ==
  ASSUME MinHold >= 3, TypeOK, Lines, FrameInv, Select \/ Rise \/ Fall \/ Deselect
  PROVE  FrameInv'
<1>1. /\ FrameBits \in Nat \ {0} /\ bits \in Nat
      /\ bitCount \in 0 .. FrameBits
      /\ rxShift' = rxShift /\ bitCount' = bitCount /\ csr' = csr /\ clkr' = clkr
  BY SpiAssumption DEF TypeOK, Select, Rise, Fall, Deselect, MasterMoves, slaveVars
<1>2. csr[2] = cs /\ clkr[2] = sck
  <2>1. quiet >= 3
    BY SpiAssumption DEF Settled, Select, Rise, Fall, Deselect
  <2> QED
    BY <2>1 DEF Lines, TypeOK
<1>3. /\ Taking <=> cs = 0
      /\ Taking' <=> Taking
      /\ cs = 1 \/ cs = 0
      /\ ~InFlight
  BY <1>1, <1>2 DEF Taking, InFlight, TypeOK, Bits
<1>4. CASE Select
  BY <1>1, <1>2, <1>3, <1>4 DEF Select, FrameInv, MasterFrame, SlaveFrame, Lines
<1>5. CASE Rise
  <2>1. /\ cs = 0 /\ cs' = 0 /\ sck' = 1 /\ pico' = pico /\ bits' = bits + 1
        /\ sending' = ShiftIn(sending, pico) /\ offered' = offered
        /\ since' = IF since < FrameBits THEN since + 1 ELSE since
    BY <1>5 DEF Rise
  <2>2. /\ \A i \in 1 .. FrameBits - 1 : sending'[i] = sending[i + 1]
        /\ sending'[FrameBits] = pico
    <3>1. sending \in Word /\ pico \in Bits
      BY DEF TypeOK
    <3> QED
      BY <2>1, <3>1, ShiftInType
  <2>3. since = bitCount /\ Caught(bitCount)
    BY <1>3, <2>1 DEF FrameInv, SlaveFrame, Received
  <2>4. InFlight'
    BY <1>1, <1>2, <1>5, <2>1 DEF InFlight, Rise
  <2>5. ASSUME NEW i \in 2 .. FrameBits, i > FrameBits - bitCount
        PROVE  rxShift[i] = sending'[i - 1]
    <3>1. i \in 1 .. FrameBits /\ i - 1 \in 1 .. FrameBits - 1 /\ (i - 1) + 1 = i
      BY <1>1, <2>5
    <3>2. rxShift[i] = sending[i]
      BY <2>3, <2>5, <3>1 DEF Caught
    <3>3. sending'[i - 1] = sending[(i - 1) + 1]
      BY <2>2, <3>1
    <3> QED
      BY <3>1, <3>2, <3>3
  <2>6. Received'
    BY <1>1, <2>1, <2>3, <2>4, <2>5 DEF Received, CaughtBefore
  <2>7. MasterFrame'
    BY <1>1, <2>1, <2>2 DEF FrameInv, MasterFrame
  <2> QED
    BY <1>3, <2>1, <2>6, <2>7 DEF FrameInv, SlaveFrame
<1>6. CASE Fall
  <2>1. ~InFlight'
    BY <1>6 DEF Fall, InFlight
  <2> QED
    BY <1>1, <1>2, <1>3, <1>6, <2>1
    DEF Fall, FrameInv, MasterFrame, SlaveFrame, Received, Caught, Lines, Whole
<1>7. CASE Deselect
  <2>1. ~InFlight'
    BY <1>7 DEF Deselect, InFlight
  <2> QED
    BY <1>1, <1>2, <1>3, <1>7, <2>1
    DEF Deselect, FrameInv, MasterFrame, SlaveFrame, Received, Caught, Whole
<1> QED
  BY <1>4, <1>5, <1>6, <1>7

LEMMA FrameStep ==
  ASSUME MinHold >= 3, TypeOK, Lines, FrameInv, [Next]_vars
  PROVE  FrameInv'
<1>1. CASE Count \/ UNCHANGED vars
  BY <1>1 DEF Count, vars, masterVars, slaveVars, FrameInv, MasterFrame, SlaveFrame,
              Received, InFlight, Caught, CaughtBefore, Taking, Whole
<1> QED
  BY <1>1, FrameClock, FrameReset, FrameMaster DEF Next

(***************************************************************************)
(* The refinement: the end of a frame delivers what was offered.           *)
(***************************************************************************)
SlaveInv == TypeOK /\ Lines /\ FrameInv

LEMMA SlaveInvHolds ==
  ASSUME MinHold >= 3
  PROVE  Spec => []SlaveInv
<1>1. Init => SlaveInv
  BY TypeInit, LinesInit, FrameInit DEF SlaveInv
<1>2. SlaveInv /\ [Next]_vars => SlaveInv'
  BY TypeStep, LinesStep, FrameStep DEF SlaveInv
<1> QED
  BY <1>1, <1>2, PTL DEF Spec

LEMMA LinkStep ==
  ASSUME MinHold >= 3, SlaveInv, [Next]_vars
  PROVE  [Link!LinkNext]_(Link!linkVars)
<1> USE DEF Link!LinkNext, Link!linkVars
<1>1. CASE Clock
  <2>1. CASE EndMessage
    <3>1. Taking /\ cs = 1 /\ ~InFlight /\ sending \in Word /\ rxShift \in Word
      BY <2>1, Edges DEF SlaveInv, TypeOK, Lines, InFlight
    <3>2. /\ since = bitCount /\ Caught(bitCount)
          /\ offered = IF Whole THEN sending ELSE Nothing
      BY <3>1 DEF SlaveInv, FrameInv, SlaveFrame, Received
    <3>3. CASE Whole
      <4>1. \A i \in 1 .. FrameBits : rxShift[i] = sending[i]
        BY <3>2, <3>3, SpiAssumption DEF Whole, Caught
      <4>2. /\ rxShift = [i \in 1 .. FrameBits |-> rxShift[i]]
            /\ sending = [i \in 1 .. FrameBits |-> sending[i]]
        BY <3>1 DEF Word
      <4>3. rxShift = sending /\ offered = sending /\ offered # Nothing
        BY <3>1, <3>2, <3>3, <4>1, <4>2, SpiAssumption
      <4> QED
        BY <1>1, <2>1, <3>2, <3>3, <4>3 DEF Clock, Committed, Whole, Link!Deliver
    <3>4. CASE ~Whole
      BY <1>1, <2>1, <3>2, <3>4 DEF Clock, Committed, Whole
    <3> QED
      BY <3>3, <3>4
  <2>2. CASE ~EndMessage
    BY <1>1, <2>2 DEF Clock, Committed
  <2> QED
    BY <2>1, <2>2
<1>2. CASE ResetClock
  BY <1>2 DEF ResetClock, Link!Clear
<1>3. CASE Deselect
  <2>1. offered = Nothing /\ sending \in Word /\ held' = held
    BY <1>3 DEF Deselect, MasterMoves, slaveVars, SlaveInv, TypeOK, FrameInv, MasterFrame
  <2> QED
    BY <1>3, <2>1 DEF Deselect, Link!Offer
<1>4. CASE Count \/ Select \/ Rise \/ Fall \/ UNCHANGED vars
  BY <1>4 DEF Count, Select, Rise, Fall, MasterMoves, slaveVars, vars
<1> QED
  BY <1>1, <1>2, <1>3, <1>4 DEF Next

\* SPI.v: "Only commit a new motor command after a complete 32-bit frame.
\* Incomplete transfers are ignored.": the slave implements FrameLink, whatever
\* the length of a frame, where a frame is cut off, how far it goes on or where a
\* reset comes, as long as the master's lines stay for the three clocks the
\* synchronisers take.
THEOREM SlaveImplementsLink ==
  ASSUME MinHold >= 3
  PROVE  Spec => ImplementsLink
<1>1. Init => Link!LinkInit
  BY DEF Init, Link!LinkInit
<1>2. SlaveInv /\ [Next]_vars => [Link!LinkNext]_(Link!linkVars)
  BY LinkStep
<1> QED
  BY <1>1, <1>2, SlaveInvHolds, PTL DEF Spec, ImplementsLink, Link!LinkSafety

(***************************************************************************)
(* The reply.  From the clock that starts a frame txShift holds what is    *)
(* left of one sample, and the master has the rest.                        *)
(***************************************************************************)
\* Falling edges of the master's clock that the slave has met.
Shifted == IF sck = 1 \/ clkr[2] = 1 THEN bits - 1 ELSE bits

\* Bits of the reply the master has.
Replies == IF bits < FrameBits THEN bits ELSE FrameBits

Sent(sample) ==
  /\ \A i \in 1 .. FrameBits - Shifted : txShift[i] = sample[Shifted + i]
  /\ \A i \in 1 .. Replies : got[FrameBits - Replies + i] = sample[i]

ReplyInv ==
  /\ cs = 0 => counts \in shown
  /\ cs = 0 /\ ~spoiled /\ Taking => \E sample \in shown : Sent(sample)

LEMMA ReplyClock ==
  ASSUME SlaveInv, ReplyInv, Clock
  PROVE  ReplyInv'
<1>1. /\ Synchronise /\ TypeOK /\ Lines /\ FrameInv
      /\ cs' = cs /\ sck' = sck /\ bits' = bits /\ got' = got
      /\ UNCHANGED <<counts, shown, spoiled>>
      /\ FrameBits \in Nat \ {0} /\ bits \in Nat /\ Replies' = Replies
  BY SpiAssumption DEF SlaveInv, Clock, masterVars, TypeOK, Replies
<1>2. clkr'[2] = clkr[1] /\ csr'[2] = csr[1]
  BY <1>1, SynchroniseIs
<1> SUFFICES ASSUME cs = 0, ~spoiled, Taking'
             PROVE  \E sample \in shown : Sent(sample)'
  BY <1>1 DEF ReplyInv
<1>3. CASE ~Taking
  <2>1. StartMessage /\ sck = 0 /\ clkr[1] = 0 /\ ~Falling(clkr) /\ bits = 0
    BY <1>1, <1>2, <1>3, Edges DEF Taking, FrameInv, SlaveFrame
  <2>2. txShift' = counts /\ Shifted' = 0
    BY <1>1, <1>2, <2>1 DEF Clock, Replied, Idle, Shifted
  <2>3. PICK sample : sample = counts
    OBVIOUS
  <2>4. sample \in shown
    BY <2>3 DEF ReplyInv
  <2>5. Sent(sample)'
    BY <1>1, <2>1, <2>2, <2>3 DEF Sent, Replies
  <2> QED
    BY <2>4, <2>5
<1>4. CASE Taking
  <2>1. PICK sample \in shown : Sent(sample)
    BY <1>4 DEF ReplyInv
  <2>2. Active /\ ~Idle
    BY <1>1, <1>2, <1>4, Edges DEF Taking, Idle
  <2>3. CASE Falling(clkr)
    <3>1. Shifted = bits - 1 /\ Shifted' = bits /\ bits >= 1
      <4>1. sck = 0 /\ clkr[2] = 1 /\ clkr[1] = 0
        BY <1>1, <2>3, Edges DEF Falling
      <4>2. bits >= 1
        BY <1>1, <4>1 DEF FrameInv, MasterFrame
      <4> QED
        BY <1>1, <1>2, <4>1, <4>2 DEF Shifted
    <3>2. \A i \in 1 .. FrameBits - 1 : txShift'[i] = txShift[i + 1]
      <4>1. txShift \in Word /\ 0 \in Bits
        BY <1>1 DEF TypeOK, Bits
      <4> QED
        BY <1>1, <2>2, <2>3, <4>1, ShiftInType DEF Clock, Replied
    <3>3. ASSUME NEW i \in 1 .. FrameBits - bits
          PROVE  txShift'[i] = sample[bits + i]
      <4>1. i \in 1 .. FrameBits - 1 /\ i + 1 \in 1 .. FrameBits - Shifted
            /\ Shifted + (i + 1) = bits + i
        BY <1>1, <3>1
      <4> QED
        BY <2>1, <3>2, <4>1 DEF Sent
    <3> QED
      BY <1>1, <2>1, <3>1, <3>3 DEF Sent
  <2>4. CASE ~Falling(clkr)
    <3>1. Shifted' = Shifted /\ txShift' = txShift
      BY <1>1, <1>2, <2>2, <2>4, Edges
      DEF Shifted, Clock, Replied, TypeOK, Bits, Rising, Falling
    <3> QED
      BY <1>1, <2>1, <3>1 DEF Sent
  <2> QED
    BY <2>3, <2>4
<1> QED
  BY <1>3, <1>4

LEMMA ReplyMaster ==
  ASSUME MinHold >= 3, SlaveInv, ReplyInv, Select \/ Rise \/ Fall \/ Deselect
  PROVE  ReplyInv'
<1>1. /\ FrameBits \in Nat \ {0} /\ bits \in Nat
      /\ txShift' = txShift /\ csr' = csr /\ clkr' = clkr /\ counts' = counts
  BY SpiAssumption
  DEF SlaveInv, TypeOK, Select, Rise, Fall, Deselect, MasterMoves, slaveVars
<1>2. csr[2] = cs /\ clkr[2] = sck
  <2>1. quiet >= 3
    BY SpiAssumption DEF Settled, Select, Rise, Fall, Deselect
  <2> QED
    BY <2>1 DEF SlaveInv, Lines, TypeOK
<1>3. CASE Select
  BY <1>1, <1>2, <1>3 DEF Select, ReplyInv, Taking
<1>4. CASE Rise
  <2>1. /\ cs = 0 /\ cs' = 0 /\ sck = 0 /\ sck' = 1 /\ bits' = bits + 1
        /\ got' = IF bits < FrameBits THEN ShiftIn(got, txShift[1]) ELSE got
        /\ UNCHANGED <<shown, spoiled>>
    BY <1>4 DEF Rise
  <2>2. Shifted = bits /\ Shifted' = bits
    BY <1>1, <1>2, <2>1 DEF Shifted
  <2>3. bits < FrameBits => /\ \A i \in 1 .. FrameBits - 1 : got'[i] = got[i + 1]
                            /\ got'[FrameBits] = txShift[1]
    <3>1. got \in Word /\ txShift[1] \in Bits
      BY <1>1 DEF SlaveInv, TypeOK, Word
    <3> QED
      BY <2>1, <3>1, ShiftInType
  <2>4. ASSUME NEW sample, Sent(sample)
        PROVE  Sent(sample)'
    <3>1. ASSUME bits < FrameBits, NEW i \in 1 .. bits + 1
          PROVE  got'[FrameBits - (bits + 1) + i] = sample[i]
      <4>1. CASE i = bits + 1
        <5>1. FrameBits - (bits + 1) + i = FrameBits /\ Shifted + 1 = i
              /\ 1 \in 1 .. FrameBits - Shifted
          BY <1>1, <2>1, <2>2, <3>1, <4>1
        <5> QED
          BY <2>3, <2>4, <3>1, <5>1 DEF Sent
      <4>2. CASE i < bits + 1
        <5>1. /\ FrameBits - (bits + 1) + i \in 1 .. FrameBits - 1
              /\ (FrameBits - (bits + 1) + i) + 1 = FrameBits - bits + i
              /\ i \in 1 .. bits /\ Replies = bits
          BY <1>1, <2>1, <3>1, <4>2 DEF Replies
        <5> QED
          BY <2>3, <2>4, <3>1, <5>1 DEF Sent
      <4> QED
        BY <1>1, <4>1, <4>2
    <3>2. \A i \in 1 .. Replies' : got'[FrameBits - Replies' + i] = sample[i]
      <4>1. CASE bits < FrameBits
        BY <1>1, <2>1, <3>1, <4>1 DEF Replies
      <4>2. CASE bits >= FrameBits
        BY <1>1, <2>1, <2>4, <4>2 DEF Replies, Sent
      <4> QED
        BY <1>1, <4>1, <4>2
    <3> QED
      BY <1>1, <2>1, <2>2, <2>4, <3>2 DEF Sent
  <2> QED
    BY <1>1, <2>1, <2>4 DEF ReplyInv, Taking
<1>5. CASE Fall
  <2>1. /\ sck = 1 /\ sck' = 0 /\ cs' = cs
        /\ UNCHANGED <<bits, got, shown, spoiled>>
    BY <1>5 DEF Fall
  <2>2. Shifted' = Shifted
    BY <1>1, <1>2, <2>1 DEF Shifted
  <2> QED
    BY <1>1, <2>1, <2>2 DEF ReplyInv, Taking, Sent, Replies
<1>6. CASE Deselect
  BY <1>6 DEF Deselect, ReplyInv
<1> QED
  BY <1>3, <1>4, <1>5, <1>6

LEMMA ReplyStep ==
  ASSUME MinHold >= 3, SlaveInv, ReplyInv, [Next]_vars
  PROVE  ReplyInv'
<1>1. CASE ResetClock
  BY <1>1 DEF ResetClock, ReplyInv, masterVars
<1>2. CASE Count
  <2>1. /\ UNCHANGED <<cs, sck, bits, got, csr, clkr, txShift, spoiled>>
        /\ counts' \in shown' /\ shown \subseteq shown'
    BY <1>2 DEF Count, masterVars, slaveVars
  <2> QED
    BY <2>1 DEF ReplyInv, Taking, Sent, Shifted, Replies
<1>3. CASE UNCHANGED vars
  BY <1>3 DEF vars, masterVars, slaveVars, ReplyInv, Taking, Sent, Shifted, Replies
<1> QED
  BY <1>1, <1>2, <1>3, ReplyClock, ReplyMaster DEF Next

\* The counts of a whole frame were shown together at one moment of it: the
\* decoders may count in any clock, while the start of the frame is still in the
\* synchronisers and while the reply is shifted out.
THEOREM SlaveRepliesFresh ==
  ASSUME MinHold >= 3
  PROVE  Spec => []ReplyIsOneFreshSample
<1>1. Init => ReplyInv
  BY DEF Init, ReplyInv
<1>2. SlaveInv /\ ReplyInv /\ [Next]_vars => ReplyInv'
  BY ReplyStep
<1>3. SlaveInv /\ ReplyInv => ReplyIsOneFreshSample
  <2> SUFFICES ASSUME SlaveInv, ReplyInv, cs = 0, bits >= FrameBits, ~spoiled
               PROVE  got \in shown
    BY DEF ReplyIsOneFreshSample
  <2>1. Taking
    BY SpiAssumption DEF SlaveInv, FrameInv, SlaveFrame
  <2>2. PICK sample \in shown : Sent(sample)
    BY <2>1 DEF ReplyInv
  <2>3. got \in Word /\ sample \in Word /\ FrameBits \in Nat
    BY SpiAssumption DEF SlaveInv, TypeOK
  <2>4. \A i \in 1 .. FrameBits : got[i] = sample[i]
    <3>1. Replies = FrameBits
      BY <2>3, SpiAssumption DEF Replies, SlaveInv, TypeOK
    <3> QED
      BY <2>2, <2>3, <3>1 DEF Sent
  <2>5. /\ got = [i \in 1 .. FrameBits |-> got[i]]
        /\ sample = [i \in 1 .. FrameBits |-> sample[i]]
    BY <2>3 DEF Word
  <2> QED
    BY <2>4, <2>5
<1> QED
  BY <1>1, <1>2, <1>3, SlaveInvHolds, PTL DEF Spec

(***************************************************************************)
(* The PWM module behind the slave.                                        *)
(***************************************************************************)
\* The chip as a whole steps its slave as SpiSlave does.
LEMMA FpgaRefinesSlave == FpgaSpec => Spec
<1>1. FpgaInit => Init
  BY DEF FpgaInit
<1>2. [FpgaNext]_fpgaVars => [Next]_vars
  BY DEF FpgaNext, FpgaClock, FpgaReset, Outside, Next, fpgaVars
<1> QED
  BY <1>1, <1>2, PTL DEF FpgaSpec, Spec

\* What the slave puts on the wires.
LEMMA WiresAre ==
  TypeOK => dirWire \in Bits /\ enableWire \in Bits /\ dutyWire \in Nat
<1> SUFFICES ASSUME TypeOK
             PROVE  dirWire \in Bits /\ enableWire \in Bits /\ dutyWire \in Nat
  OBVIOUS
<1>1. held \in Word
  BY DEF TypeOK
<1>2. First + 1 \in 1 .. FrameBits /\ First + 2 \in 1 .. FrameBits
  BY FpgaAssumption, SpiAssumption
<1>3. dutyWire \in 0 .. MaxCounter
  BY <1>1, FpgaAssumption DEF dutyWire
<1> QED
  BY <1>1, <1>2, <1>3, FpgaAssumption DEF Word, dirWire, enableWire

Below(limit, n) == IF n < limit THEN n ELSE limit

\* Of the last elapsed clocks, those that found the counter below duty, when the
\* counter is now at c: all in this period, or some in the one before it.
HighClocks(duty, c, elapsed) ==
  IF elapsed <= c THEN Below(duty, c) - Below(duty, c - elapsed)
  ELSE Below(duty, c) + duty - Below(duty, c + Period - elapsed)

\* Clocks of a period in which the output is high.
High == Below(Period, dutyWire)

\* A counter that powers up beyond the period is inside it before the motor is
\* ever enabled.
PwmInv ==
  /\ Pwm!PwmTypeOK
  /\ counter >= Period => enableWire = 0
  /\ pulses = IF enableWire = 1 THEN HighClocks(High, counter, steady) ELSE 0

LEMMA HighClocksStep ==
  ASSUME NEW duty \in 0 .. Period, NEW c \in 0 .. Period - 1,
         NEW elapsed \in 0 .. Period,
         NEW next, next = IF c >= Period - 1 THEN 0 ELSE c + 1
  PROVE  /\ elapsed < Period => HighClocks(duty, next, elapsed + 1)
              = HighClocks(duty, c, elapsed) + IF c < duty THEN 1 ELSE 0
         /\ HighClocks(duty, next, 1) = IF c < duty THEN 1 ELSE 0
         /\ elapsed = Period => HighClocks(duty, c, elapsed) = duty
BY FpgaAssumption DEF HighClocks, Below

\* A window that has not begun has no clocks in it, wherever the counter is.
LEMMA NoHighClocks ==
  ASSUME NEW duty \in 0 .. Period, NEW c \in Nat
  PROVE  HighClocks(duty, c, 0) = 0
BY FpgaAssumption DEF HighClocks, Below

LEMMA HighType == TypeOK => High \in 0 .. Period
BY WiresAre, FpgaAssumption DEF High, Below

LEMMA PwmTypeStep ==
  ASSUME Pwm!PwmTypeOK, TypeOK,
         Pwm!Tick \/ Pwm!TickThenChange \/ Pwm!PwmReset \/ UNCHANGED pwmVars
  PROVE  Pwm!PwmTypeOK'
<1>1. Period \in Nat \ {0} /\ MaxCounter \in Nat /\ Period <= MaxCounter
  BY FpgaAssumption
<1>2. /\ Pwm!Speed \in {0, 1}
      /\ Pwm!Bridge[1] \in {0, 1} /\ Pwm!Bridge[2] \in {0, 1}
      /\ Pwm!Advanced \in 0 .. MaxCounter /\ Pwm!Advanced < Period
  BY <1>1, WiresAre DEF Pwm!Speed, Pwm!Bridge, Pwm!Advanced, Pwm!PwmTypeOK, Bits
<1>3. CASE Pwm!Tick
  BY <1>1, <1>2, <1>3 DEF Pwm!Tick, Pwm!PwmTypeOK
<1>4. CASE Pwm!TickThenChange
  BY <1>1, <1>2, <1>4 DEF Pwm!TickThenChange, Pwm!PwmTypeOK
<1>5. CASE Pwm!PwmReset
  BY <1>1, <1>5 DEF Pwm!PwmReset, Pwm!PwmTypeOK
<1>6. CASE UNCHANGED pwmVars
  BY <1>6 DEF pwmVars, Pwm!PwmTypeOK
<1> QED
  BY <1>3, <1>4, <1>5, <1>6

LEMMA PwmInit ==
  ASSUME FpgaInit
  PROVE  PwmInv
<1>1. TypeOK /\ Period \in Nat \ {0} /\ MaxCounter \in Nat
  BY TypeInit, FpgaAssumption DEF FpgaInit
<1>2. enableWire = 0
  BY FpgaAssumption, SpiAssumption DEF FpgaInit, Init, enableWire, Zero
<1>3. Pwm!PwmTypeOK /\ pulses = 0
  BY <1>1 DEF FpgaInit, Pwm!PwmInit, Pwm!PwmTypeOK
<1> QED
  BY <1>2, <1>3 DEF PwmInv

\* While the wires stay the window grows by one clock, or the next one begins; a
\* change of the wires or the reset begins one with no clocks in it.
LEMMA PwmStep ==
  ASSUME TypeOK, TypeOK', PwmInv, [FpgaNext]_fpgaVars
  PROVE  PwmInv'
<1>1. /\ Period \in Nat \ {0}
      /\ counter \in Nat /\ steady \in 0 .. Period /\ (steady > 0 => counter < Period)
      /\ Pwm!PwmTypeOK
  BY FpgaAssumption DEF PwmInv, Pwm!PwmTypeOK
<1>2. /\ enableWire \in Bits /\ dutyWire \in Nat /\ High \in 0 .. Period
      /\ enableWire' \in Bits /\ High' \in 0 .. Period
  <2>1. TypeOK' => (enableWire \in Bits /\ High \in 0 .. Period)'
    BY WiresAre, HighType, PTL
  <2> QED
    BY <2>1, WiresAre, HighType
<1>3. CASE wires' = wires /\ Pwm!Tick
  <2>1. Pwm!PwmTypeOK'
    BY <1>1, <1>3, PwmTypeStep
  <2>2. enableWire' = enableWire /\ High' = High
    BY <1>3 DEF wires, High
  <2>3. /\ counter' = IF counter >= Period - 1 THEN 0 ELSE counter + 1
        /\ IF steady < Period
           THEN steady' = steady + 1 /\ pulses' = pulses + Pwm!Speed
           ELSE steady' = 1 /\ pulses' = Pwm!Speed
    BY <1>3 DEF Pwm!Tick, Pwm!Advanced
  <2>4. counter' < Period
    BY <1>1, <2>3
  <2>5. CASE enableWire = 0
    <3>1. Pwm!Speed = 0 /\ pulses = 0
      BY <2>5 DEF Pwm!Speed, PwmInv
    <3> QED
      BY <1>1, <2>1, <2>2, <2>3, <2>5, <3>1 DEF PwmInv
  <2>6. CASE enableWire = 1
    <3>1. counter \in 0 .. Period - 1 /\ pulses = HighClocks(High, counter, steady)
      BY <1>1, <2>6 DEF PwmInv
    <3>2. Pwm!Speed = IF counter < High THEN 1 ELSE 0
      BY <1>1, <1>2, <2>6, <3>1 DEF Pwm!Speed, High, Below
    <3>3. /\ steady < Period => HighClocks(High, counter', steady + 1)
               = HighClocks(High, counter, steady) + IF counter < High THEN 1 ELSE 0
          /\ HighClocks(High, counter', 1) = IF counter < High THEN 1 ELSE 0
      BY <1>1, <1>2, <2>3, <3>1, HighClocksStep
    <3>4. pulses' = HighClocks(High, counter', steady')
      BY <1>1, <2>3, <3>1, <3>2, <3>3
    <3> QED
      BY <1>1, <2>1, <2>2, <2>4, <2>6, <3>4 DEF PwmInv, Pwm!PwmTypeOK
  <2> QED
    BY <1>2, <2>5, <2>6 DEF Bits
<1>4. CASE Pwm!TickThenChange \/ Pwm!PwmReset
  <2>1. Pwm!PwmTypeOK' /\ steady' = 0 /\ pulses' = 0
    BY <1>1, <1>4, PwmTypeStep DEF Pwm!TickThenChange, Pwm!PwmReset
  <2>2. counter' \in Nat /\ counter' < Period
    BY <1>1, <1>4 DEF Pwm!TickThenChange, Pwm!PwmReset, Pwm!Advanced
  <2>3. HighClocks(High', counter', 0) = 0
    BY <1>2, <2>2, NoHighClocks
  <2> QED
    BY <1>1, <2>1, <2>2, <2>3 DEF PwmInv
<1>5. CASE UNCHANGED <<held, pwmVars>>
  BY <1>5 DEF PwmInv, Pwm!PwmTypeOK, pwmVars, enableWire, dutyWire, High
<1>6. CASE Outside \/ UNCHANGED fpgaVars
  BY <1>5, <1>6 DEF Outside, fpgaVars, vars, slaveVars, Count, Select, Rise, Fall,
                    Deselect, MasterMoves
<1> QED
  BY <1>3, <1>4, <1>6 DEF FpgaNext, FpgaClock, FpgaReset

LEMMA FpgaInvHolds == FpgaSpec => [](TypeOK /\ PwmInv)
<1>1. FpgaInit => PwmInv
  BY PwmInit
<1>2. TypeOK /\ TypeOK' /\ PwmInv /\ [FpgaNext]_fpgaVars => PwmInv'
  BY PwmStep
<1>3. FpgaSpec => []TypeOK
  BY FpgaRefinesSlave, SlaveTypeCorrect, PTL
<1> QED
  BY <1>1, <1>2, <1>3, PTL DEF FpgaSpec

\* PWM.v: "duty is expressed directly in PWM clock ticks": over any Period clocks
\* in which the wires stay, from anywhere in the period on, the speed output is
\* high for exactly the duty the slave holds, for all of them if that is beyond
\* the period, or for none if the frame did not enable the motor; bits of a frame
\* that is still coming in, or was cut off, never reach the motor.
THEOREM FpgaDrivesItsDuty == FpgaSpec => []DutyIsExact
<1>1. TypeOK /\ PwmInv => DutyIsExact
  <2> SUFFICES ASSUME TypeOK, PwmInv, steady = Period
               PROVE  pulses = IF enableWire = 0 THEN 0
                               ELSE IF dutyWire < Period THEN dutyWire ELSE Period
    BY DEF DutyIsExact, Pwm!DutyIsExact
  <2>1. /\ Period \in Nat \ {0} /\ counter \in 0 .. Period - 1
        /\ dutyWire \in Nat /\ enableWire \in Bits /\ High \in 0 .. Period
    BY FpgaAssumption, WiresAre, HighType DEF PwmInv, Pwm!PwmTypeOK
  <2>2. HighClocks(High, counter, Period) = High
    <3>1. Period \in 0 .. Period
      BY <2>1
    <3> QED
      BY <2>1, <3>1, HighClocksStep
  <2> QED
    BY <2>1, <2>2 DEF PwmInv, High, Below, Bits
<1> QED
  BY <1>1, FpgaInvHolds, PTL
=============================================================================
