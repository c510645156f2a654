----------------------------- MODULE IRReceiver -----------------------------
(***************************************************************************)
(* The infrared receiver (arduinowire/IRReadOnlyRemote.cpp, NEC_ONLY): the *)
(* remote control, the handler irISR of every edge on the detector's pin,  *)
(* and read(), which READ_IR of stdc_avr.cpp calls from the program.       *)
(*                                                                         *)
(* A duration is modelled by the limits it falls within, after the         *)
(* corrections of the handler: the name of a mark or a space, or NO_SPAN.  *)
(***************************************************************************)
EXTENDS Integers, Sequences

CONSTANTS FRAME_SIZE,    \* bits of a frame (32)
          IR_BUF_SIZE,   \* slots of the buffer (4)
          RemoteCode     \* the codes of the remote control's buttons

(* An unsigned long is its FRAME_SIZE bits, the most significant one first. *)
Code == [1..FRAME_SIZE -> {0, 1}]
Zero == [k \in 1..FRAME_SIZE |-> 0]
Repeat == [k \in 1..FRAME_SIZE |-> 1]     \* 0xffffffff, "the 'repeat frame' value"

(* HDR_MARK: from HDR_MARK_LOW to HDR_MARK_HIGH, and so on.                 *)
HDR_MARK == "header mark"
HDR_SPACE == "header space"
RPT_SPACE == "repeat space"
BIT_MARK == "bit mark"
ONE_SPACE == "one"
ZERO_SPACE == "zero"
GAP == "gap"          \* before a frame, longer than any limit
NO_SPAN == "none"     \* within no limits

(* A button's code is never all zeros or all ones.                          *)
ASSUME ReceiverAssumption ==
  /\ FRAME_SIZE \in Nat \ {0} /\ IR_BUF_SIZE \in Nat \ {0, 1}
  /\ RemoteCode \subseteq Code \ {Zero, Repeat}

VARIABLES
  sending, intact,       \* the code being sent, and whether it comes undamaged
  burst, heard,          \* its spaces and marks, and how many were handled
  level,                 \* of the pin
  pending,               \* its interrupt flag
  enabled,               \* the I bit of SREG
  isrState, irData, irBitCount, dataLost,    \* the static variables of irISR
  irBuffer, headIrBuffer, tailIrBuffer,
  reading,               \* the call of read()
  got,                   \* what read() returned
  stored,                \* history: what irISR stored of this burst, and whether
  dropped, noticed       \* since the last good code frame a code frame was damaged,
                         \* and whether a burst was after its header mark had come

air == <<sending, intact, burst, heard, level>>
decoder == <<isrState, irData, irBitCount, dataLost>>
ring == <<irBuffer, headIrBuffer, tailIrBuffer>>
vars == <<air, pending, enabled, decoder, ring, reading, got, stored, dropped, noticed>>

-----------------------------------------------------------------------------
(* What a remote control sends: spaces and marks in turn, first the gap     *)
(* since the burst before.  The bits of a code come most significant first. *)
CodeFrame(c) ==
  [k \in 1..2 * FRAME_SIZE + 4 |->
     CASE k = 1 -> GAP [] k = 2 -> HDR_MARK [] k = 3 -> HDR_SPACE
       [] OTHER -> IF k % 2 = 0 THEN BIT_MARK
                   ELSE IF c[(k - 3) \div 2] = 1 THEN ONE_SPACE ELSE ZERO_SPACE]
RepeatFrame == <<GAP, HDR_MARK, RPT_SPACE, BIT_MARK>>
Frame(c) == IF c = Repeat THEN RepeatFrame ELSE CodeFrame(c)

(* What can become of a frame on the way: a duration that is within no      *)
(* limits, an early end, or a late beginning.  A burst still begins with    *)
(* the gap and ends with a mark.                                            *)
Damaged(c) ==
  LET f == Frame(c)
      Marks == {k \in 2..Len(f) : k % 2 = 0}
  IN  { [f EXCEPT ![k] = NO_SPAN] : k \in 2..Len(f) }
      \cup { SubSeq(f, 1, k) : k \in Marks \ {Len(f)} }
      \cup { <<GAP>> \o SubSeq(f, k, Len(f)) : k \in Marks \ {2} }

BurstOver == heard = Len(burst)

(* A good code frame is a new beginning. *)
Still(loss) == (intact => sending = Repeat) /\ loss

Send == \E c \in RemoteCode \cup {Repeat} :
  /\ BurstOver
  /\ sending' = c /\ intact' \in BOOLEAN
  /\ burst' \in IF intact' THEN {Frame(c)} ELSE Damaged(c)
  /\ heard' = 0
  /\ stored' = Zero
  /\ dropped' = (Still(dropped) \/ (~intact /\ sending # Repeat))
  /\ noticed' = (Still(noticed) \/ (~intact /\ burst[2] = HDR_MARK))
  /\ UNCHANGED <<level, pending, enabled, decoder, ring, reading, got>>

(* The pin changes: one more span is over.  A handler is never so late that *)
(* the next edge comes before it has run.                                   *)
Edge ==
  /\ ~BurstOver /\ ~pending
  /\ level' = IF level = "SPACE" THEN "MARK" ELSE "SPACE"
  /\ pending' = TRUE
  /\ UNCHANGED <<sending, intact, burst, heard, enabled, decoder, ring, reading, got, stored, dropped, noticed>>

-----------------------------------------------------------------------------
(* The handler, with interrupts off from beginning to end.                  *)
duration == burst[heard + 1]

(* Mutant: a frame is abandoned without a note of it. *)
AbandonUnnoticed == dataLost' = dataLost /\ isrState' = "WAIT_FOR_HDR_MARK"
Abandon == dataLost' = TRUE /\ isrState' = "WAIT_FOR_HDR_MARK"

(* "Buffer overrun, discard the oldest value" *)
Advance(head) == IF head = tailIrBuffer THEN (tailIrBuffer + 1) % IR_BUF_SIZE
                                        ELSE tailIrBuffer

(* Mutant: without the mask & IR_BUF_SIZE - 1. *)
NextSlotUnmasked(k) == k + 1
NextSlot(k) == (k + 1) % IR_BUF_SIZE

Store ==
  /\ irBuffer' = [irBuffer EXCEPT ![headIrBuffer] = irData]
  /\ headIrBuffer' = NextSlot(headIrBuffer)
  /\ tailIrBuffer' = Advance(NextSlot(headIrBuffer))
  /\ isrState' = "WAIT_FOR_HDR_MARK"
  /\ stored' = irData
  /\ UNCHANGED <<irData, irBitCount, dataLost>>

Complete == \/ isrState = "REPEAT_INCOMING"
            \/ isrState = "NORMAL_INCOMING" /\ irBitCount = FRAME_SIZE

(* A space has started (a mark just finished). *)
MarkInWait ==
  /\ level = "SPACE" /\ isrState = "WAIT_FOR_HDR_MARK"
  /\ isrState' = IF duration = HDR_MARK THEN "WAIT_FOR_HDR_SPACE" ELSE isrState
  /\ UNCHANGED <<irData, irBitCount, dataLost, ring, stored>>
GoodMark ==
  /\ level = "SPACE" /\ isrState # "WAIT_FOR_HDR_MARK" /\ duration = BIT_MARK
  /\ IF Complete THEN Store ELSE UNCHANGED <<decoder, ring, stored>>
BadMark ==
  /\ level = "SPACE" /\ isrState # "WAIT_FOR_HDR_MARK" /\ duration # BIT_MARK
  /\ Abandon
  /\ UNCHANGED <<irData, irBitCount, ring, stored>>

HdrSpace == isrState' = "NORMAL_INCOMING" /\ dataLost' = FALSE /\ irData' = Zero
            /\ irBitCount' = 0

RptSpace == /\ irData' = Repeat
            /\ isrState' = IF dataLost THEN "WAIT_FOR_HDR_MARK" ELSE "REPEAT_INCOMING"
            /\ UNCHANGED <<irBitCount, dataLost>>

(* A mark has started (a space just finished). *)
SpaceInHeader ==
  /\ level = "MARK" /\ isrState = "WAIT_FOR_HDR_SPACE"
  /\ CASE duration = HDR_SPACE -> HdrSpace
       [] duration = RPT_SPACE -> RptSpace
       [] OTHER -> Abandon /\ UNCHANGED <<irData, irBitCount>>
  /\ UNCHANGED <<ring, stored>>
(* irData <<= 1, and irData |= 1 for a one *)
Shifted(data, bit) == [k \in 1..FRAME_SIZE |-> IF k = FRAME_SIZE THEN bit ELSE data[k + 1]]

SpaceInBits ==
  /\ level = "MARK" /\ isrState = "NORMAL_INCOMING"
  /\ irData' = Shifted(irData, IF duration = ONE_SPACE THEN 1 ELSE 0)
  /\ irBitCount' = irBitCount + 1
  /\ IF duration \in {ONE_SPACE, ZERO_SPACE} THEN UNCHANGED <<isrState, dataLost>> ELSE Abandon
  /\ UNCHANGED <<ring, stored>>
SpaceElsewhere ==
  /\ level = "MARK" /\ isrState \notin {"WAIT_FOR_HDR_SPACE", "NORMAL_INCOMING"}
  /\ UNCHANGED <<decoder, ring, stored>>

irISR ==
  /\ enabled /\ pending
  /\ pending' = FALSE /\ heard' = heard + 1
  /\ MarkInWait \/ GoodMark \/ BadMark \/ SpaceInHeader \/ SpaceInBits \/ SpaceElsewhere
  /\ UNCHANGED <<sending, intact, burst, level, enabled, reading, got, dropped, noticed>>

-----------------------------------------------------------------------------
(* read(), in the steps an interrupt could come between; code is its irData *)
Idle == [at |-> "idle", oldSREG |-> FALSE, code |-> Zero]

(* Mutant: interrupts stay on. *)
CliForgotten == enabled' = enabled
Cli == enabled' = FALSE

ReadCalled ==
  /\ reading.at = "idle"
  /\ reading' = [Idle EXCEPT !.at = "check", !.oldSREG = enabled]
  /\ Cli
  /\ UNCHANGED <<air, pending, decoder, ring, got, stored, dropped, noticed>>

ReadEmpty ==
  /\ reading.at = "check" /\ headIrBuffer = tailIrBuffer
  /\ got' = Zero
  /\ reading' = Idle /\ enabled' = reading.oldSREG
  /\ UNCHANGED <<air, pending, decoder, ring, stored, dropped, noticed>>

ReadSlot ==
  /\ reading.at = "check" /\ headIrBuffer # tailIrBuffer
  /\ reading' = [reading EXCEPT !.at = "advance", !.code = irBuffer[tailIrBuffer]]
  /\ UNCHANGED <<air, pending, enabled, decoder, ring, got, stored, dropped, noticed>>

ReadAdvance ==
  /\ reading.at = "advance"
  /\ tailIrBuffer' = NextSlot(tailIrBuffer)
  /\ got' = reading.code
  /\ reading' = Idle /\ enabled' = reading.oldSREG
  /\ UNCHANGED <<air, pending, decoder, irBuffer, headIrBuffer, stored, dropped, noticed>>

Init ==
  /\ sending = Zero /\ intact = TRUE /\ burst = << >> /\ heard = 0
  /\ level = "SPACE" /\ pending = FALSE /\ enabled = TRUE
  /\ isrState = "WAIT_FOR_HDR_MARK" /\ irData = Zero /\ irBitCount = 0 /\ dataLost = FALSE
  /\ irBuffer = [k \in 0..IR_BUF_SIZE - 1 |-> Zero] /\ headIrBuffer = 0 /\ tailIrBuffer = 0
  /\ reading = Idle /\ got = Zero /\ stored = Zero
  /\ dropped = FALSE /\ noticed = FALSE

Next == Send \/ Edge \/ irISR \/ ReadCalled \/ ReadEmpty \/ ReadSlot \/ ReadAdvance

Spec == Init /\ [][Next]_vars

-----------------------------------------------------------------------------
TypeOK ==
  /\ sending \in Code /\ intact \in BOOLEAN /\ heard \in 0..Len(burst)
  /\ level \in {"MARK", "SPACE"} /\ pending \in BOOLEAN /\ enabled \in BOOLEAN
  /\ isrState \in {"WAIT_FOR_HDR_MARK", "WAIT_FOR_HDR_SPACE", "REPEAT_INCOMING",
                   "NORMAL_INCOMING"}
  /\ irData \in Code /\ irBitCount \in 0..FRAME_SIZE /\ dataLost \in BOOLEAN
  /\ irBuffer \in [0..IR_BUF_SIZE - 1 -> Code]
  /\ headIrBuffer \in 0..IR_BUF_SIZE - 1 /\ tailIrBuffer \in 0..IR_BUF_SIZE - 1
  /\ reading \in [at : {"idle", "check", "advance"}, oldSREG : BOOLEAN, code : Code]
  /\ got \in Code /\ stored \in Code /\ dropped \in BOOLEAN /\ noticed \in BOOLEAN

(* The buffer is a queue of the last IR_BUF_SIZE - 1 codes, wherever the    *)
(* edges fall in read(): no code is returned twice, out of order or mixed   *)
(* with another (lines 247-253 and 297-309).                                *)
Contents == [k \in 1..(headIrBuffer - tailIrBuffer) % IR_BUF_SIZE |->
               irBuffer[(tailIrBuffer + k - 1) % IR_BUF_SIZE]]
Queue == INSTANCE CodeQueue WITH Code <- RemoteCode \cup {Repeat},
           None <- Zero, Capacity <- IR_BUF_SIZE - 1, queue <- Contents
IsAQueue == Queue!Spec

(* At the end of a burst its code is in the buffer if it came undamaged,    *)
(* whatever came before it, and nothing is if it did not.  Of undamaged     *)
(* frames only a repeat is refused, and it is if and only if a burst whose  *)
(* header mark was recognised was damaged after the last good code frame:   *)
(* dataLost neither forgets such a loss nor outlives it (235-288).          *)
GoodFramesAreStored ==
  BurstOver => stored = IF intact /\ ~(sending = Repeat /\ noticed) THEN sending ELSE Zero

(* "If a preceding frame was dropped, don't add repeat frames to the input  *)
(* stream", line 273: they would repeat another button.  The code keeps it  *)
(* only of frames whose header mark it has seen (240-242).                  *)
RepeatsFollowTheirFrame ==
  BurstOver /\ intact /\ sending = Repeat /\ dropped => stored = Zero
=============================================================================
