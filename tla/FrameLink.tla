----------------------------- MODULE FrameLink -----------------------------
(***************************************************************************)
(* What the FPGA's SPI slave promises the program: the registers that      *)
(* drive the motors change only to the last word of a frame that had all   *)
(* its bits, once, soon after it ended, or to zero by the reset button.    *)
(***************************************************************************)
CONSTANTS
  Words,  \* the words a frame may end with
  Zero,   \* what reset leaves in the registers
  Nothing \* no frame waits to be delivered

VARIABLES
  held,   \* the registers
  offered \* the word of a whole frame that was not delivered yet

linkVars == <<held, offered>>

LinkInit == held = Zero /\ offered = Nothing

Offer == /\ offered = Nothing
         /\ offered' \in Words
         /\ UNCHANGED held

Deliver == /\ offered # Nothing
           /\ held' = offered
           /\ offered' = Nothing

Clear == held' = Zero /\ offered' = Nothing

LinkNext == Offer \/ Deliver \/ Clear

LinkSafety == LinkInit /\ [][LinkNext]_linkVars
=============================================================================
