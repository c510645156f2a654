----------------------------- MODULE SignalProofs -----------------------------
(***************************************************************************)
(* The two components that measure a signal on a pin.  Of the infrared     *)
(* receiver, for every length of a frame, every set of buttons and every   *)
(* size of the buffer: the types, that an undamaged frame is stored and a  *)
(* damaged one is not, and that the ring is a queue of the last codes.  Of *)
(* the waits, for every timeout, every width of the counters and all times *)
(* between two steps: pulseInLong() returns the width of a pulse of its    *)
(* call, ends by its timeout, and delayMicroseconds() is exact.            *)
(***************************************************************************)
EXTENDS IRReceiver, Waits, SequenceTheorems, TLAPS

Button == RemoteCode \cup {Repeat}

Name == {GAP, HDR_MARK, HDR_SPACE, RPT_SPACE, BIT_MARK, ONE_SPACE, ZERO_SPACE, NO_SPAN}

(* A burst that may come from Frame(c): while it has its header mark, every *)
(* duration is the frame's or is within no limits.                          *)
Alike(b, c) == /\ Len(b) <= Len(Frame(c))
               /\ \A k \in 1..Len(b) : b[k] \in {Frame(c)[k], NO_SPAN}
Burst(b, c) == /\ b \in Seq(Name) /\ Len(b) >= 2 /\ Len(b) % 2 = 0
               /\ b[1] = GAP /\ \A k \in 3..Len(b) : b[k] # HDR_MARK
               /\ b[2] = HDR_MARK => Alike(b, c)
Undamaged(b, c) == Len(b) = Len(Frame(c)) /\ \A k \in 1..Len(b) : b[k] = Frame(c)[k]

(* Where the receiver stands in the burst that is coming.                   *)
BurstInv ==
  /\ \/ burst = << >> /\ sending = Zero /\ intact /\ ~noticed
     \/ /\ sending \in Button
        /\ burst \in IF intact THEN {Frame(sending)} ELSE Damaged(sending)
  /\ heard \in 0..Len(burst)
  /\ pending => heard < Len(burst)
  /\ (level = "SPACE") <=> ((heard % 2 = 0) <=> ~pending)
GoodUpTo(n) == \A k \in 2..n : burst[k] = Frame(sending)[k]
FirstBits(n) == [k \in 1..FRAME_SIZE |->
                   IF k <= FRAME_SIZE - n THEN 0 ELSE sending[k - (FRAME_SIZE - n)]]

(* Whether a loss will have been noticed when this burst is over.           *)
Noticing == (~intact /\ burst[2] = HDR_MARK) \/ Still(noticed)

(* What each state of the decoder says of the burst so far.                 *)
Between ==
  heard = 0 =>
    /\ stored = Zero /\ isrState # "REPEAT_INCOMING"
    /\ isrState # "WAIT_FOR_HDR_MARK" => noticed
    /\ isrState = "NORMAL_INCOMING" => irBitCount < FRAME_SIZE
Waiting ==
  heard > 0 /\ isrState = "WAIT_FOR_HDR_MARK" /\ intact =>
    \/ heard = 1 /\ stored = Zero
    \/ heard > 2 /\ stored = Zero /\ sending = Repeat /\ noticed
    \/ BurstOver /\ stored = sending /\ (sending = Repeat => ~noticed)
InHeader ==
  heard > 0 /\ isrState = "WAIT_FOR_HDR_SPACE" =>
    heard = 2 /\ burst[2] = HDR_MARK /\ (dataLost <=> noticed)
InBits ==
  heard > 0 /\ isrState = "NORMAL_INCOMING" =>
    /\ sending \in RemoteCode /\ ~dataLost
    /\ heard \in {2 * irBitCount + 3, 2 * irBitCount + 4} /\ heard < 2 * FRAME_SIZE + 4
    /\ GoodUpTo(heard)
    /\ irData = FirstBits(irBitCount)
InRepeat ==
  heard > 0 /\ isrState = "REPEAT_INCOMING" =>
    heard = 3 /\ sending = Repeat /\ GoodUpTo(3) /\ irData = Repeat /\ ~dataLost /\ ~noticed
Losses == /\ isrState = "WAIT_FOR_HDR_MARK" =>
               (dataLost <=> IF heard < 2 THEN noticed ELSE Noticing)
          /\ ~intact \/ isrState # "WAIT_FOR_HDR_MARK" => stored = Zero
DecoderInv == Between /\ Waiting /\ InHeader /\ InBits /\ InRepeat /\ Losses

(* Interrupts are off in the middle of read(): nothing moves the tail.      *)
Reading ==
  /\ reading.at # "idle" => ~enabled
  /\ reading.at = "advance" => /\ headIrBuffer # tailIrBuffer
                               /\ reading.code = irBuffer[tailIrBuffer]

ReceiverInv == TypeOK /\ BurstInv /\ DecoderInv /\ Reading

-----------------------------------------------------------------------------
(* Frames and what becomes of them.                                         *)

LEMMA CodesDiffer == Zero \in Code /\ Repeat \in Code /\ Zero # Repeat
                     /\ Button \subseteq Code /\ Zero \notin Button
<1>1. Zero[1] = 0 /\ Repeat[1] = 1  BY ReceiverAssumption DEF Zero, Repeat
<1>2. Zero \in Code /\ Repeat \in Code  BY DEF Zero, Repeat, Code
<1> QED  BY <1>1, <1>2, ReceiverAssumption DEF Button

LEMMA NamesDiffer ==
  /\ HDR_MARK \notin {HDR_SPACE, RPT_SPACE, BIT_MARK, ONE_SPACE, ZERO_SPACE, GAP, NO_SPAN}
  /\ HDR_SPACE \notin {RPT_SPACE, BIT_MARK, ONE_SPACE, ZERO_SPACE, GAP, NO_SPAN}
  /\ RPT_SPACE \notin {BIT_MARK, ONE_SPACE, ZERO_SPACE, GAP, NO_SPAN}
  /\ NO_SPAN \notin {BIT_MARK, ONE_SPACE, ZERO_SPACE, GAP}
  /\ ONE_SPACE # ZERO_SPACE
BY DEF HDR_MARK, HDR_SPACE, RPT_SPACE, BIT_MARK, ONE_SPACE, ZERO_SPACE, GAP, NO_SPAN

LEMMA CodeFrameIs ==
  ASSUME NEW c \in Code
  PROVE  /\ CodeFrame(c) \in Seq(Name) /\ Len(CodeFrame(c)) = 2 * FRAME_SIZE + 4
         /\ CodeFrame(c)[1] = GAP /\ CodeFrame(c)[2] = HDR_MARK /\ CodeFrame(c)[3] = HDR_SPACE
         /\ \A k \in 4..2 * FRAME_SIZE + 4 :
              CodeFrame(c)[k] = IF k % 2 = 0 THEN BIT_MARK
                                ELSE IF c[(k - 3) \div 2] = 1 THEN ONE_SPACE ELSE ZERO_SPACE
<1> DEFINE e(k) == CASE k = 1 -> GAP [] k = 2 -> HDR_MARK [] k = 3 -> HDR_SPACE
                     [] OTHER -> IF k % 2 = 0 THEN BIT_MARK
                                 ELSE IF c[(k - 3) \div 2] = 1 THEN ONE_SPACE ELSE ZERO_SPACE
           n == 2 * FRAME_SIZE + 4
<1>1. n \in Nat /\ n > 4  BY ReceiverAssumption
<1>2. \A k \in 1..n : e(k) \in Name
  <2> SUFFICES ASSUME NEW k \in 1..n PROVE e(k) \in Name  OBVIOUS
  <2>1. CASE k \in {1, 2, 3}  BY <2>1 DEF Name
  <2>2. CASE k \notin {1, 2, 3} /\ k % 2 = 0  BY <2>2 DEF Name
  <2>3. CASE k \notin {1, 2, 3} /\ k % 2 # 0  BY <2>3 DEF Name
  <2> QED  BY <2>1, <2>2, <2>3
<1>3. CodeFrame(c) = [k \in 1..n |-> e(k)]  BY DEF CodeFrame
<1>4. e(1) = GAP /\ e(2) = HDR_MARK /\ e(3) = HDR_SPACE  OBVIOUS
<1>5. \A k \in 4..n : e(k) = IF k % 2 = 0 THEN BIT_MARK
                             ELSE IF c[(k - 3) \div 2] = 1 THEN ONE_SPACE ELSE ZERO_SPACE
  <2> SUFFICES ASSUME NEW k \in 4..n
               PROVE  e(k) = IF k % 2 = 0 THEN BIT_MARK
                             ELSE IF c[(k - 3) \div 2] = 1 THEN ONE_SPACE ELSE ZERO_SPACE
    OBVIOUS
  <2>1. k # 1 /\ k # 2 /\ k # 3  BY <1>1
  <2> QED  BY <2>1
<1> HIDE DEF e, n
<1>6. CodeFrame(c) \in [1..n -> Name]  BY <1>2, <1>3
<1>7. CodeFrame(c) \in Seq(Name) /\ Len(CodeFrame(c)) = n  BY <1>1, <1>6
<1>8. \A k \in 1..n : CodeFrame(c)[k] = e(k)  BY <1>3
<1>9. CodeFrame(c)[1] = GAP /\ CodeFrame(c)[2] = HDR_MARK /\ CodeFrame(c)[3] = HDR_SPACE
  BY <1>1, <1>4, <1>8
<1>10. \A k \in 4..n : CodeFrame(c)[k] = e(k)  BY <1>1, <1>8
<1> QED  BY <1>5, <1>7, <1>9, <1>10 DEF n

LEMMA FrameIs ==
  ASSUME NEW c \in Button
  PROVE  /\ Frame(c) \in Seq(Name)
         /\ Len(Frame(c)) = IF c = Repeat THEN 4 ELSE 2 * FRAME_SIZE + 4
         /\ Frame(c)[1] = GAP /\ Frame(c)[2] = HDR_MARK
         /\ Frame(c)[3] = IF c = Repeat THEN RPT_SPACE ELSE HDR_SPACE
         /\ \A k \in 4..Len(Frame(c)) : k % 2 = 0 => Frame(c)[k] = BIT_MARK
         /\ \A k \in 3..Len(Frame(c)) : Frame(c)[k] # HDR_MARK
         /\ \A k \in 1..Len(Frame(c)) : Frame(c)[k] # NO_SPAN
<1>1. CASE c = Repeat
  <2>1. Frame(c) = <<GAP, HDR_MARK, RPT_SPACE, BIT_MARK>>
    BY <1>1 DEF Frame, RepeatFrame
  <2>2. Frame(c) \in Seq(Name) /\ Len(Frame(c)) = 4  BY <2>1 DEF Name
  <2>3. /\ Frame(c)[1] = GAP /\ Frame(c)[2] = HDR_MARK
        /\ Frame(c)[3] = RPT_SPACE /\ Frame(c)[4] = BIT_MARK
    BY <2>1
  <2>4. \A k \in 1..4 : k \in {1, 2, 3, 4}  OBVIOUS
  <2> QED  BY <1>1, <2>2, <2>3, <2>4, NamesDiffer
<1>2. CASE c # Repeat
  <2> DEFINE n == 2 * FRAME_SIZE + 4
  <2>1. Frame(c) = CodeFrame(c) /\ c \in Code  BY <1>2, CodesDiffer DEF Frame
  <2>2. n \in Nat /\ n >= 6  BY ReceiverAssumption
  <2>3. /\ Frame(c) \in Seq(Name) /\ Len(Frame(c)) = n
        /\ Frame(c)[1] = GAP /\ Frame(c)[2] = HDR_MARK /\ Frame(c)[3] = HDR_SPACE
        /\ \A k \in 4..n : Frame(c)[k] = IF k % 2 = 0 THEN BIT_MARK
                             ELSE IF c[(k - 3) \div 2] = 1 THEN ONE_SPACE ELSE ZERO_SPACE
    BY <2>1, CodeFrameIs
  <2> HIDE DEF n
  <2>4. \A k \in 4..n : Frame(c)[k] # HDR_MARK /\ Frame(c)[k] # NO_SPAN  BY <2>3, NamesDiffer
  <2>5. \A k \in 4..n : k % 2 = 0 => Frame(c)[k] = BIT_MARK  BY <2>3
  <2>6. \A k \in 3..n : k = 3 \/ k \in 4..n  BY <2>2
  <2>7. \A k \in 1..n : k \in {1, 2, 3} \/ k \in 4..n  BY <2>2
  <2>8. \A k \in 3..n : Frame(c)[k] # HDR_MARK  BY <2>3, <2>4, <2>6, NamesDiffer
  <2>9. \A k \in 1..n : Frame(c)[k] # NO_SPAN  BY <2>3, <2>4, <2>7, NamesDiffer
  <2> QED  BY <1>2, <2>3, <2>5, <2>8, <2>9 DEF n
<1> QED  BY <1>1, <1>2

LEMMA FrameIsBurst ==
  ASSUME NEW c \in Button
  PROVE  /\ Len(Frame(c)) \in Nat /\ Len(Frame(c)) >= 4 /\ Len(Frame(c)) % 2 = 0
         /\ Burst(Frame(c), c) /\ Undamaged(Frame(c), c)
<1>1. Len(Frame(c)) = 4 \/ Len(Frame(c)) = 2 * FRAME_SIZE + 4  BY FrameIs
<1>2. (2 * FRAME_SIZE + 4) % 2 = 0 /\ 2 * FRAME_SIZE + 4 \in Nat /\ 2 * FRAME_SIZE + 4 >= 4
  BY ReceiverAssumption
<1> DEFINE l == Len(Frame(c))
<1> HIDE DEF l
<1>3. Len(Frame(c)) \in Nat /\ Len(Frame(c)) >= 4 /\ Len(Frame(c)) % 2 = 0
  <2>1. l = 4 \/ l = 2 * FRAME_SIZE + 4  BY <1>1 DEF l
  <2>2. l \in Nat /\ l >= 4 /\ l % 2 = 0  BY <1>2, <2>1
  <2> QED  BY <2>2 DEF l
<1>4. /\ Frame(c) \in Seq(Name) /\ Frame(c)[1] = GAP
      /\ \A k \in 3..Len(Frame(c)) : Frame(c)[k] # HDR_MARK
  BY FrameIs
<1>5. Alike(Frame(c), c)  BY <1>3 DEF Alike
<1>6. Undamaged(Frame(c), c)  BY DEF Undamaged
<1> QED  BY <1>3, <1>4, <1>5, <1>6 DEF Burst

(* A damaged burst is a burst, and it is not its frame.                     *)
LEMMA DamagedIsBurst ==
  ASSUME NEW c \in Button, NEW b \in Damaged(c)
  PROVE  Burst(b, c) /\ ~Undamaged(b, c)
<1> DEFINE f == Frame(c)
           Marks == {k \in 2..Len(f) : k % 2 = 0}
<1>1. /\ f \in Seq(Name) /\ Len(f) \in Nat /\ Len(f) >= 4 /\ Len(f) % 2 = 0
      /\ f[1] = GAP /\ f[2] = HDR_MARK
      /\ \A k \in 4..Len(f) : k % 2 = 0 => f[k] = BIT_MARK
      /\ \A k \in 3..Len(f) : f[k] # HDR_MARK
      /\ \A k \in 1..Len(f) : f[k] # NO_SPAN
  BY FrameIs, FrameIsBurst
<1>2. \/ \E k \in 2..Len(f) : b = [f EXCEPT ![k] = NO_SPAN]
      \/ \E k \in Marks \ {Len(f)} : b = SubSeq(f, 1, k)
      \/ \E k \in Marks \ {2} : b = <<GAP>> \o SubSeq(f, k, Len(f))
  BY DEF Damaged
<1> HIDE DEF f
<1>3. ASSUME NEW k \in 2..Len(f), b = [f EXCEPT ![k] = NO_SPAN]
      PROVE  Burst(b, c) /\ ~Undamaged(b, c)
  <2>1. k \in 1..Len(f) /\ NO_SPAN \in Name  BY <1>1 DEF Name
  <2>2. /\ b \in Seq(Name) /\ Len(b) = Len(f)
        /\ \A j \in 1..Len(f) : b[j] = IF j = k THEN NO_SPAN ELSE f[j]
    BY <1>1, <1>3, <2>1, ExceptSeq
  <2>3. b[1] = GAP  BY <1>1, <1>3, <2>2
  <2>4. \A j \in 3..Len(b) : b[j] # HDR_MARK  BY <1>1, <2>2
  <2>5. Alike(b, c)  BY <1>1, <2>2 DEF Alike, f
  <2>6. ~Undamaged(b, c)
    <3>1. b[k] = NO_SPAN /\ f[k] # NO_SPAN /\ k \in 1..Len(b)  BY <1>1, <2>1, <2>2
    <3> QED  BY <3>1 DEF Undamaged, f
  <2> QED  BY <1>1, <2>2, <2>3, <2>4, <2>5, <2>6 DEF Burst
<1>4. ASSUME NEW k \in Marks \ {Len(f)}, b = SubSeq(f, 1, k)
      PROVE  Burst(b, c) /\ ~Undamaged(b, c)
  <2>1. k \in 2..Len(f) /\ k < Len(f)  BY <1>1
  <2>2. \A j \in 1..k : f[j] \in Name  BY <1>1, <2>1, ElementOfSeq
  <2>3. /\ b \in Seq(Name) /\ Len(b) = k /\ \A j \in 1..k : b[j] = f[j]
    <3>1. /\ SubSeq(f, 1, k) \in Seq(Name)
          /\ Len(SubSeq(f, 1, k)) = IF 1 <= k THEN k - 1 + 1 ELSE 0
          /\ \A i \in 1..k - 1 + 1 : SubSeq(f, 1, k)[i] = f[1 + i - 1]
      BY <2>1, <2>2, SubSeqProperties
    <3>2. \A i \in 1..k : i \in 1..k - 1 + 1 /\ 1 + i - 1 = i  BY <2>1
    <3> QED  BY <1>4, <2>1, <3>1, <3>2
  <2>4. b[1] = GAP /\ Len(b) >= 2  BY <1>1, <2>1, <2>3
  <2>5. \A j \in 3..Len(b) : b[j] # HDR_MARK
    <3>1. \A j \in 3..Len(b) : j \in 3..Len(f) /\ b[j] = f[j]  BY <2>1, <2>3
    <3> QED  BY <1>1, <3>1
  <2>6. Alike(b, c)  BY <1>1, <2>1, <2>3 DEF Alike, f
  <2>7. ~Undamaged(b, c)
    <3>1. Len(b) # Len(f)  BY <1>1, <2>1, <2>3
    <3> QED  BY <3>1 DEF Undamaged, f
  <2>8. Len(b) % 2 = 0  BY <1>1, <2>3
  <2> QED  BY <2>3, <2>4, <2>5, <2>6, <2>7, <2>8, Zenon DEF Burst
<1>5. ASSUME NEW k \in Marks \ {2}, b = <<GAP>> \o SubSeq(f, k, Len(f))
      PROVE  Burst(b, c) /\ ~Undamaged(b, c)
  <2> DEFINE s == SubSeq(f, k, Len(f))
  <2>1. k \in 4..Len(f) /\ k % 2 = 0  BY <1>1
  <2>2. \A j \in k..Len(f) : f[j] \in Name  BY <1>1, <2>1, ElementOfSeq
  <2>3. /\ s \in Seq(Name) /\ Len(s) = Len(f) - k + 1
        /\ \A i \in 1..Len(f) - k + 1 : s[i] = f[k + i - 1]
    BY <1>1, <2>1, <2>2, SubSeqProperties
  <2> HIDE DEF s
  <2>4. <<GAP>> \in Seq(Name) /\ Len(<<GAP>>) = 1 /\ <<GAP>>[1] = GAP  BY DEF Name
  <2>5. /\ b \in Seq(Name) /\ Len(b) = 1 + Len(s)
        /\ \A i \in 1..1 + Len(s) : b[i] = IF i <= 1 THEN <<GAP>>[i] ELSE s[i - 1]
    BY <1>5, <2>3, <2>4, ConcatProperties DEF s
  <2>6. Len(b) = Len(f) - k + 2 /\ Len(b) >= 2 /\ Len(b) % 2 = 0 /\ Len(b) < Len(f)
    <3>1. Len(b) = Len(f) - k + 2  BY <1>1, <2>1, <2>3, <2>5
    <3>2. \A l, j \in Nat : l % 2 = 0 /\ j % 2 = 0 /\ j <= l => (l - j + 2) % 2 = 0  OBVIOUS
    <3>3. (Len(f) - k + 2) % 2 = 0  BY <1>1, <2>1, <3>2
    <3> QED  BY <1>1, <2>1, <3>1, <3>3
  <2>7. \A i \in 2..Len(b) : b[i] = f[k + i - 2]
    <3> SUFFICES ASSUME NEW i \in 2..Len(b) PROVE b[i] = f[k + i - 2]  OBVIOUS
    <3>1. b[i] = s[i - 1] /\ i - 1 \in 1..Len(f) - k + 1  BY <1>1, <2>1, <2>3, <2>5
    <3>2. s[i - 1] = f[k + (i - 1) - 1]  BY <2>3, <3>1
    <3>3. k + (i - 1) - 1 = k + i - 2  BY <2>1, <2>6
    <3> QED  BY <3>1, <3>2, <3>3
  <2>8. b[1] = GAP
    <3>1. Len(s) \in Nat  BY <2>3
    <3>2. 1 \in 1..1 + Len(s)  BY <3>1
    <3> QED  BY <2>4, <2>5, <3>2
  <2>9. \A i \in 2..Len(b) : k + i - 2 \in 3..Len(f)  BY <1>1, <2>1, <2>6
  <2>10. \A i \in 2..Len(b) : b[i] # HDR_MARK  BY <1>1, <2>7, <2>9
  <2>11. b[2] # HDR_MARK  BY <2>6, <2>10
  <2>12. \A i \in 3..Len(b) : b[i] # HDR_MARK  BY <2>6, <2>10
  <2>13. ~Undamaged(b, c)
    <3>1. Len(f) \in Nat /\ Len(b) \in Nat /\ Len(b) < Len(f)  BY <1>1, <2>5, <2>6
    <3>2. Len(b) # Len(f)  BY <3>1
    <3> QED  BY <3>2 DEF Undamaged, f
  <2> QED  BY <2>5, <2>6, <2>8, <2>11, <2>12, <2>13, Zenon DEF Burst
<1> QED  BY <1>2, <1>3, <1>4, <1>5

(* A burst that agrees with its frame up to the last bit mark is the frame. *)
LEMMA WholeFrame ==
  ASSUME NEW c \in Button, NEW b, Burst(b, c), NEW n \in Nat,
         n >= 3, n + 1 = Len(Frame(c)), n + 1 <= Len(b), b[n + 1] = BIT_MARK,
         \A k \in 2..n : b[k] = Frame(c)[k]
  PROVE  Undamaged(b, c) /\ Len(b) = n + 1
<1>1. b[2] = HDR_MARK /\ b[1] = Frame(c)[1]  BY FrameIs DEF Burst
<1>2. Len(b) = n + 1
  <2>1. Len(b) \in Nat /\ Len(b) <= Len(Frame(c))  BY <1>1 DEF Burst, Alike
  <2> QED  BY <2>1
<1>3. Frame(c)[n + 1] = BIT_MARK
  <2>1. n + 1 \in 4..Len(Frame(c)) /\ (n + 1) % 2 = 0  BY FrameIsBurst
  <2> QED  BY <2>1, FrameIs
<1>4. \A k \in 1..n + 1 : k = 1 \/ k \in 2..n \/ k = n + 1  OBVIOUS
<1>5. \A k \in 1..n + 1 : b[k] = Frame(c)[k]  BY <1>1, <1>3, <1>4
<1> QED  BY <1>2, <1>5 DEF Undamaged

LEMMA BurstShape ==
  ASSUME TypeOK, BurstInv, burst # << >>
  PROVE  /\ sending \in Button /\ Burst(burst, sending) /\ (intact <=> Undamaged(burst, sending))
         /\ Len(burst) \in Nat /\ Len(burst) >= 2 /\ Len(burst) % 2 = 0
         /\ burst[1] = GAP /\ \A k \in 3..Len(burst) : burst[k] # HDR_MARK
         /\ burst[2] = HDR_MARK => Alike(burst, sending)
<1>1. sending \in Button /\ Burst(burst, sending) /\ (intact <=> Undamaged(burst, sending))
  <2>1. sending \in Button /\ burst \in IF intact THEN {Frame(sending)} ELSE Damaged(sending)
    BY DEF BurstInv
  <2>2. CASE intact  BY <2>1, <2>2, FrameIsBurst
  <2>3. CASE ~intact  BY <2>1, <2>3, DamagedIsBurst
  <2> QED  BY <2>2, <2>3
<1> QED  BY <1>1 DEF Burst

(* When the handler runs, the pin tells marks from spaces.                  *)
LEMMA InInterrupt ==
  ASSUME TypeOK, BurstInv, pending
  PROVE  /\ burst # << >> /\ heard \in Nat /\ Len(burst) \in Nat /\ heard < Len(burst)
         /\ level = "SPACE" <=> heard % 2 = 1
         /\ level = "MARK" <=> heard % 2 = 0
<1>1. heard \in 0..Len(burst) /\ heard < Len(burst) /\ level \in {"MARK", "SPACE"}
  BY DEF TypeOK, BurstInv
<1>2. burst # << >>  BY <1>1
<1>3. Len(burst) \in Nat  BY <1>2, BurstShape
<1>4. heard \in Nat /\ (heard % 2 = 0 \/ heard % 2 = 1)  BY <1>1, <1>3
<1>5. (level = "SPACE") <=> (heard % 2 # 0)  BY DEF BurstInv
<1> QED  BY <1>1, <1>2, <1>3, <1>4, <1>5

(* The bits of a code come one by one.                                      *)
LEMMA NoBits == ASSUME sending \in Code PROVE FirstBits(0) = Zero
BY ReceiverAssumption DEF FirstBits, Zero, Code

LEMMA AllBits == ASSUME sending \in Code PROVE FirstBits(FRAME_SIZE) = sending
<1>1. FRAME_SIZE \in Nat  BY ReceiverAssumption
<1>2. \A k \in 1..FRAME_SIZE : ~(k <= FRAME_SIZE - FRAME_SIZE) /\ k - (FRAME_SIZE - FRAME_SIZE) = k
  BY <1>1
<1>3. FirstBits(FRAME_SIZE) = [k \in 1..FRAME_SIZE |-> sending[k]]  BY <1>2 DEF FirstBits
<1> QED  BY <1>3 DEF Code

LEMMA OneMoreBit ==
  ASSUME sending \in Code, NEW n \in 0..FRAME_SIZE - 1
  PROVE  Shifted(FirstBits(n), sending[n + 1]) = FirstBits(n + 1)
<1> DEFINE F == FRAME_SIZE
<1>1. F \in Nat  BY ReceiverAssumption
<1>2. \A k \in 1..F : Shifted(FirstBits(n), sending[n + 1])[k] = FirstBits(n + 1)[k]
  <2> SUFFICES ASSUME NEW k \in 1..F
               PROVE  Shifted(FirstBits(n), sending[n + 1])[k] = FirstBits(n + 1)[k]
    OBVIOUS
  <2>1. FirstBits(n + 1)[k] = IF k <= F - (n + 1) THEN 0 ELSE sending[k - (F - (n + 1))]
    BY DEF FirstBits
  <2>2. CASE k = F
    <3>1. k - (F - (n + 1)) = n + 1 /\ ~(k <= F - (n + 1))  BY <1>1, <2>2
    <3> QED  BY <2>1, <2>2, <3>1 DEF Shifted
  <2>3. CASE k # F
    <3>1. k + 1 \in 1..F /\ (k <= F - (n + 1) <=> k + 1 <= F - n)
          /\ k - (F - (n + 1)) = k + 1 - (F - n)
      BY <1>1, <2>3
    <3>2. Shifted(FirstBits(n), sending[n + 1])[k] = FirstBits(n)[k + 1]  BY <2>3 DEF Shifted
    <3>3. FirstBits(n)[k + 1] = IF k + 1 <= F - n THEN 0 ELSE sending[k + 1 - (F - n)]
      BY <1>1, <3>1 DEF FirstBits
    <3> QED  BY <2>1, <3>1, <3>2, <3>3
  <2> QED  BY <2>2, <2>3
<1> QED  BY <1>2 DEF Shifted, FirstBits

(* The bit that the space after 2 * n + 4 spans stands for.                 *)
LEMMA SpaceOfBit ==
  ASSUME NEW c \in RemoteCode, NEW n \in 0..FRAME_SIZE - 1
  PROVE  /\ 2 * n + 5 \in 4..Len(Frame(c))
         /\ Frame(c)[2 * n + 5] = IF c[n + 1] = 1 THEN ONE_SPACE ELSE ZERO_SPACE
<1>1. FRAME_SIZE \in Nat /\ c \in Code /\ c # Repeat /\ c \in Button
  BY ReceiverAssumption DEF Button
<1>2. Frame(c) = CodeFrame(c)  BY <1>1 DEF Frame
<1>3. 2 * n + 5 \in 4..2 * FRAME_SIZE + 4 /\ (2 * n + 5) % 2 # 0 /\ (2 * n + 5 - 3) \div 2 = n + 1
  BY <1>1
<1> QED  BY <1>1, <1>2, <1>3, CodeFrameIs

-----------------------------------------------------------------------------
(* The types.                                                               *)

LEMMA Slots ==
  /\ IR_BUF_SIZE \in Nat /\ IR_BUF_SIZE >= 2
  /\ \A k \in 0..IR_BUF_SIZE - 1 :
       NextSlot(k) = IF k = IR_BUF_SIZE - 1 THEN 0 ELSE k + 1
<1>1. IR_BUF_SIZE \in Nat /\ IR_BUF_SIZE >= 2  BY ReceiverAssumption
<1>2. \A k, n \in Nat : n >= 2 /\ k < n => (k + 1) % n = IF k = n - 1 THEN 0 ELSE k + 1
  <2> SUFFICES ASSUME NEW k \in Nat, NEW n \in Nat, n >= 2, k < n
               PROVE  (k + 1) % n = IF k = n - 1 THEN 0 ELSE k + 1
    OBVIOUS
  <2>1. CASE k = n - 1  BY <2>1
  <2>2. CASE k # n - 1  BY <2>2
  <2> QED  BY <2>1, <2>2
<1>3. \A k \in 0..IR_BUF_SIZE - 1 : k \in Nat /\ k < IR_BUF_SIZE  BY <1>1
<1> QED  BY <1>1, <1>2, <1>3 DEF NextSlot

LEMMA SlotsTyped ==
  \A k \in 0..IR_BUF_SIZE - 1 : NextSlot(k) \in 0..IR_BUF_SIZE - 1
BY Slots

LEMMA StoreKeepsTypes ==
  ASSUME TypeOK, Store
  PROVE  /\ irBuffer' \in [0..IR_BUF_SIZE - 1 -> Code]
         /\ headIrBuffer' \in 0..IR_BUF_SIZE - 1 /\ tailIrBuffer' \in 0..IR_BUF_SIZE - 1
         /\ stored' \in Code
<1>1. irBuffer' \in [0..IR_BUF_SIZE - 1 -> Code]  BY DEF TypeOK, Store
<1>2. headIrBuffer' \in 0..IR_BUF_SIZE - 1  BY SlotsTyped DEF TypeOK, Store
<1>3. tailIrBuffer' \in {tailIrBuffer, NextSlot(tailIrBuffer)}  BY DEF Store, Advance, NextSlot
<1>4. stored' \in Code  BY DEF TypeOK, Store
<1> QED  BY <1>1, <1>2, <1>3, <1>4, SlotsTyped DEF TypeOK

LEMMA ShiftedTyped ==
  ASSUME NEW data \in Code, NEW bit \in {0, 1}
  PROVE  Shifted(data, bit) \in Code
<1>1. FRAME_SIZE \in Nat  BY ReceiverAssumption
<1>2. \A k \in 1..FRAME_SIZE : k # FRAME_SIZE => k + 1 \in 1..FRAME_SIZE  BY <1>1
<1> QED  BY <1>2 DEF Shifted, Code

LEMMA IsrKeepsTypes ==
  ASSUME ReceiverInv, irISR
  PROVE  TypeOK'
<1>1. TypeOK /\ BurstInv /\ DecoderInv /\ pending  BY DEF ReceiverInv, irISR
<1>2. heard \in Nat /\ Len(burst) \in Nat /\ heard < Len(burst)  BY <1>1, InInterrupt
<1>3. /\ sending' \in Code /\ intact' \in BOOLEAN /\ heard' \in 0..Len(burst')
      /\ level' \in {"MARK", "SPACE"} /\ pending' \in BOOLEAN /\ enabled' \in BOOLEAN
      /\ reading' \in [at : {"idle", "check", "advance"}, oldSREG : BOOLEAN, code : Code]
      /\ got' \in Code /\ dropped' \in BOOLEAN /\ noticed' \in BOOLEAN
  <2>1. heard' = heard + 1 /\ UNCHANGED <<sending, intact, burst, level, enabled, reading, got>>
        /\ UNCHANGED <<dropped, noticed>>
    BY DEF irISR
  <2>2. heard' \in 0..Len(burst')  BY <1>2, <2>1
  <2>3. pending' \in BOOLEAN  BY DEF irISR
  <2> QED  BY <1>1, <2>1, <2>2, <2>3 DEF TypeOK
<1> DEFINE Decoder ==
      /\ isrState' \in {"WAIT_FOR_HDR_MARK", "WAIT_FOR_HDR_SPACE", "REPEAT_INCOMING",
                        "NORMAL_INCOMING"}
      /\ irData' \in Code /\ irBitCount' \in 0..FRAME_SIZE /\ dataLost' \in BOOLEAN
           Ring ==
      /\ irBuffer' \in [0..IR_BUF_SIZE - 1 -> Code]
      /\ headIrBuffer' \in 0..IR_BUF_SIZE - 1 /\ tailIrBuffer' \in 0..IR_BUF_SIZE - 1
      /\ stored' \in Code
<1>4. FRAME_SIZE \in Nat /\ Zero \in Code /\ Repeat \in Code  BY ReceiverAssumption, CodesDiffer
<1>5. CASE MarkInWait  BY <1>1, <1>3, <1>5 DEF MarkInWait, TypeOK, ring
<1>6. CASE GoodMark
  <2>1. CASE Complete
    <3>1. Store  BY <1>6, <2>1 DEF GoodMark
    <3>2. Ring  BY <1>1, <3>1, StoreKeepsTypes
    <3>3. Decoder  BY <1>1, <3>1 DEF TypeOK, Store
    <3> QED  BY <1>3, <3>2, <3>3 DEF TypeOK
  <2>2. CASE ~Complete  BY <1>1, <1>3, <1>6, <2>2 DEF GoodMark, TypeOK, decoder, ring
  <2> QED  BY <2>1, <2>2
<1>7. CASE BadMark  BY <1>1, <1>3, <1>7 DEF BadMark, Abandon, TypeOK, ring
<1>8. CASE SpaceInHeader
  <2>1. HdrSpace \/ RptSpace \/ (Abandon /\ UNCHANGED <<irData, irBitCount>>)
    BY <1>8 DEF SpaceInHeader
  <2>2. Decoder
    <3>1. CASE HdrSpace
      <4>1. dataLost' \in BOOLEAN  BY <3>1 DEF HdrSpace
      <4>2. isrState' = "NORMAL_INCOMING" /\ irData' = Zero /\ irBitCount' = 0
        BY <3>1 DEF HdrSpace
      <4> QED  BY <1>4, <4>1, <4>2
    <3>2. CASE RptSpace  BY <1>1, <1>4, <3>2 DEF RptSpace, TypeOK
    <3>3. CASE Abandon /\ UNCHANGED <<irData, irBitCount>>  BY <1>1, <3>3 DEF Abandon, TypeOK
    <3> QED  BY <2>1, <3>1, <3>2, <3>3
  <2>3. Ring  BY <1>1, <1>8 DEF SpaceInHeader, TypeOK, ring
  <2> QED  BY <1>3, <2>2, <2>3 DEF TypeOK
<1>9. CASE SpaceInBits
  <2>1. irData' \in Code  BY <1>1, <1>9, ShiftedTyped DEF SpaceInBits, TypeOK
  <2>2. irBitCount' \in 0..FRAME_SIZE
    <3>1. irBitCount \in 0..FRAME_SIZE /\ irBitCount' = irBitCount + 1 /\ level = "MARK"
          /\ isrState = "NORMAL_INCOMING"
      BY <1>1, <1>9 DEF SpaceInBits, TypeOK
    <3>2. CASE heard = 0  BY <1>1, <1>4, <3>1, <3>2 DEF DecoderInv, Between
    <3>3. CASE heard # 0
      <4>1. heard \in {2 * irBitCount + 3, 2 * irBitCount + 4} /\ heard < 2 * FRAME_SIZE + 4
        BY <1>1, <1>2, <3>1, <3>3 DEF DecoderInv, InBits
      <4>2. heard % 2 = 0  BY <1>1, <3>1, InInterrupt
      <4> QED  BY <1>4, <3>1, <4>1, <4>2
    <3> QED  BY <3>2, <3>3
  <2>3. Decoder
    <3>1. isrState' \in {"WAIT_FOR_HDR_MARK", isrState} /\ dataLost' \in {TRUE, dataLost}
      BY <1>9 DEF SpaceInBits, Abandon
    <3> QED  BY <1>1, <2>1, <2>2, <3>1 DEF TypeOK
  <2>4. Ring  BY <1>1, <1>9 DEF SpaceInBits, TypeOK, ring
  <2> QED  BY <1>3, <2>3, <2>4 DEF TypeOK
<1>10. CASE SpaceElsewhere  BY <1>1, <1>3, <1>10 DEF SpaceElsewhere, TypeOK, decoder, ring
<1> QED  BY <1>5, <1>6, <1>7, <1>8, <1>9, <1>10 DEF irISR

LEMMA NextKeepsTypes ==
  ASSUME ReceiverInv, Next
  PROVE  TypeOK'
<1>1. TypeOK /\ BurstInv /\ Zero \in Code /\ Button \subseteq Code  BY CodesDiffer DEF ReceiverInv
<1>2. Idle \in [at : {"idle", "check", "advance"}, oldSREG : BOOLEAN, code : Code]
  BY <1>1 DEF Idle
<1>3. CASE Send
  <2>1. PICK c \in Button : Send!(c)  BY <1>3 DEF Send, Button
  <2>2. \A b : Burst(b, c) => 0 \in 0..Len(b)  BY DEF Burst
  <2>3. 0 \in 0..Len(burst')
    <3>1. burst' \in IF intact' THEN {Frame(c)} ELSE Damaged(c)  BY <2>1
    <3>2. Burst(burst', c)  BY <3>1, FrameIsBurst, DamagedIsBurst
    <3> QED  BY <2>2, <3>2
  <2>4. sending' \in Code /\ intact' \in BOOLEAN /\ heard' = 0 /\ stored' = Zero
        /\ dropped' \in BOOLEAN /\ noticed' \in BOOLEAN
    BY <1>1, <2>1 DEF Still
  <2>5. UNCHANGED <<level, pending, enabled, decoder, ring, reading, got>>  BY <2>1
  <2> QED  BY <1>1, <2>3, <2>4, <2>5 DEF TypeOK, decoder, ring
<1>4. CASE Edge  BY <1>1, <1>4 DEF Edge, TypeOK, decoder, ring
<1>5. CASE irISR  BY <1>5, IsrKeepsTypes
<1>6. CASE ReadCalled
  <2>1. reading' = [at |-> "check", oldSREG |-> enabled, code |-> Zero]
    BY <1>6 DEF ReadCalled, Idle
  <2>2. reading' \in [at : {"idle", "check", "advance"}, oldSREG : BOOLEAN, code : Code]
    BY <1>1, <2>1 DEF TypeOK
  <2> QED  BY <1>1, <1>6, <2>2 DEF ReadCalled, Cli, TypeOK, air, decoder, ring
<1>7. CASE ReadEmpty  BY <1>1, <1>2, <1>7 DEF ReadEmpty, TypeOK, air, decoder, ring
<1>8. CASE ReadSlot
  <2>1. irBuffer[tailIrBuffer] \in Code  BY <1>1 DEF TypeOK
  <2>2. reading' \in [at : {"idle", "check", "advance"}, oldSREG : BOOLEAN, code : Code]
    BY <1>1, <1>8, <2>1 DEF ReadSlot, TypeOK
  <2> QED  BY <1>1, <1>8, <2>2 DEF ReadSlot, TypeOK, air, decoder, ring
<1>9. CASE ReadAdvance
  BY <1>1, <1>2, <1>9, SlotsTyped DEF ReadAdvance, TypeOK, air, decoder
<1> QED  BY <1>3, <1>4, <1>5, <1>6, <1>7, <1>8, <1>9 DEF Next

-----------------------------------------------------------------------------
(* The burst.                                                               *)

LEMMA OtherParity ==
  ASSUME NEW n \in Nat
  PROVE  (n + 1) % 2 = 0 <=> ~(n % 2 = 0)
OBVIOUS

LEMMA NextKeepsBurst ==
  ASSUME ReceiverInv, Next
  PROVE  BurstInv'
<1>1. TypeOK /\ BurstInv  BY DEF ReceiverInv
<1>2. pending \in BOOLEAN /\ level \in {"MARK", "SPACE"}  BY <1>1 DEF TypeOK
<1>3. CASE Send
  <2>1. PICK c \in Button : Send!(c)  BY <1>3 DEF Send, Button
  <2>2. burst' \in IF intact' THEN {Frame(c)} ELSE Damaged(c)  BY <2>1
  <2>3. Burst(burst', c)  BY <2>2, FrameIsBurst, DamagedIsBurst
  <2>4. 0 \in 0..Len(burst') /\ Len(burst') >= 2  BY <2>3 DEF Burst
  <2>5. ~pending
    <3>1. heard = Len(burst) /\ heard \in 0..Len(burst)  BY <1>1, <2>1 DEF BurstOver, BurstInv
    <3>2. Len(burst) \in Nat
      <4>1. CASE burst = << >>  BY <4>1
      <4>2. CASE burst # << >>  BY <1>1, <4>2, BurstShape
      <4> QED  BY <4>1, <4>2
    <3> QED  BY <1>1, <3>1, <3>2 DEF BurstInv
  <2>6. level = "SPACE"
    <3>1. heard % 2 = 0
      <4>1. heard = Len(burst)  BY <2>1 DEF BurstOver
      <4>2. CASE burst = << >>  BY <4>1, <4>2
      <4>3. CASE burst # << >>  BY <1>1, <4>1, <4>3, BurstShape
      <4> QED  BY <4>2, <4>3
    <3> QED  BY <1>1, <2>5, <3>1 DEF BurstInv
  <2>7. sending' = c /\ heard' = 0 /\ pending' = pending /\ level' = level  BY <2>1
  <2>8. heard' \in 0..Len(burst') /\ (pending' => heard' < Len(burst'))  BY <2>4, <2>5, <2>7
  <2>9. (level' = "SPACE") <=> ((heard' % 2 = 0) <=> ~pending')
    <3>1. heard' % 2 = 0  BY <2>7
    <3> QED  BY <2>5, <2>6, <2>7, <3>1
  <2> QED  BY <2>2, <2>7, <2>8, <2>9 DEF BurstInv
<1>4. CASE Edge
  <2>1. ~pending /\ pending' = TRUE /\ heard # Len(burst) /\ heard \in 0..Len(burst)
        /\ UNCHANGED <<sending, intact, burst, heard, noticed>>
        /\ level' = IF level = "SPACE" THEN "MARK" ELSE "SPACE"
    BY <1>1, <1>4 DEF Edge, BurstOver, BurstInv
  <2>2. Len(burst) \in Nat
    <3>1. CASE burst = << >>  BY <3>1
    <3>2. CASE burst # << >>  BY <1>1, <3>2, BurstShape
    <3> QED  BY <3>1, <3>2
  <2>3. heard < Len(burst)  BY <2>1, <2>2
  <2>4. (level' = "SPACE") <=> ~(level = "SPACE")  BY <2>1
  <2>5. (level' = "SPACE") <=> ((heard' % 2 = 0) <=> ~pending')
    <3>1. (level = "SPACE") <=> (heard % 2 = 0)  BY <1>1, <2>1 DEF BurstInv
    <3>2. heard' = heard /\ pending'  BY <2>1
    <3> QED  BY <2>4, <3>1, <3>2
  <2> QED  BY <1>1, <2>1, <2>3, <2>5 DEF BurstInv
<1>5. CASE irISR
  <2>1. pending /\ pending' = FALSE /\ heard' = heard + 1
        /\ UNCHANGED <<sending, intact, burst, level, noticed>>
    BY <1>5 DEF irISR
  <2>2. heard \in Nat /\ Len(burst) \in Nat /\ heard < Len(burst) /\ burst # << >>
    BY <1>1, <2>1, InInterrupt
  <2>3. heard' \in 0..Len(burst')  BY <2>1, <2>2
  <2>4. (level' = "SPACE") <=> ((heard' % 2 = 0) <=> ~pending')
    <3>1. (level = "SPACE") <=> ~(heard % 2 = 0)  BY <1>1, <2>1 DEF BurstInv
    <3>2. heard' % 2 = 0 <=> ~(heard % 2 = 0)  BY <2>1, <2>2, OtherParity
    <3>3. ~pending' /\ level' = level  BY <2>1
    <3> QED  BY <3>1, <3>2, <3>3
  <2>5. ~pending'  BY <2>1
  <2> QED  BY <1>1, <2>1, <2>2, <2>3, <2>4, <2>5 DEF BurstInv
<1>6. CASE ReadCalled \/ ReadEmpty \/ ReadSlot \/ ReadAdvance
  <2>1. UNCHANGED <<sending, intact, burst, heard, level, pending, noticed>>
    BY <1>6 DEF ReadCalled, ReadEmpty, ReadSlot, ReadAdvance, air
  <2> QED  BY <1>1, <2>1 DEF BurstInv
<1> QED  BY <1>3, <1>4, <1>5, <1>6 DEF Next

-----------------------------------------------------------------------------
(* The decoder, at each of its disjuncts.                                   *)

(* A handler leaves what comes through the air as it is.                    *)
Handles == /\ irISR
           /\ heard \in Nat /\ Len(burst) \in Nat /\ heard < Len(burst)
           /\ sending \in Button /\ Burst(burst, sending)
           /\ (intact <=> Undamaged(burst, sending))
           /\ burst[1] = GAP /\ \A k \in 3..Len(burst) : burst[k] # HDR_MARK
           /\ burst[2] = HDR_MARK => Alike(burst, sending)
           /\ heard' = heard + 1 /\ UNCHANGED <<sending, intact, burst, noticed>>

LEMMA HandlerHandles ==
  ASSUME ReceiverInv, irISR
  PROVE  Handles /\ (level = "SPACE" <=> heard % 2 = 1) /\ (level = "MARK" <=> heard % 2 = 0)
<1>1. TypeOK /\ BurstInv /\ pending  BY DEF ReceiverInv, irISR
<1>2. /\ burst # << >> /\ heard \in Nat /\ Len(burst) \in Nat /\ heard < Len(burst)
      /\ level = "SPACE" <=> heard % 2 = 1
      /\ level = "MARK" <=> heard % 2 = 0
  BY <1>1, InInterrupt
<1>3. heard' = heard + 1 /\ UNCHANGED <<sending, intact, burst, noticed>>  BY DEF irISR
<1> QED  BY <1>1, <1>2, <1>3, BurstShape DEF Handles

LEMMA MarkInWaitKeeps ==
  ASSUME Handles, DecoderInv, heard % 2 = 1, MarkInWait
  PROVE  DecoderInv'
<1>1. /\ heard >= 1 /\ heard + 1 \in 1..Len(burst) /\ duration = burst[heard + 1]
      /\ heard' = heard + 1 /\ UNCHANGED <<sending, intact, burst, noticed, dataLost, stored>>
      /\ isrState = "WAIT_FOR_HDR_MARK"
  BY DEF Handles, MarkInWait, duration
<1>2. CASE duration = HDR_MARK
  <2>1. heard = 1 /\ burst[2] = HDR_MARK
    <3>1. ~(heard + 1 \in 3..Len(burst))  BY <1>1, <1>2 DEF Handles
    <3>2. heard \in Nat /\ Len(burst) \in Nat  BY DEF Handles
    <3>3. heard = 1 /\ heard + 1 = 2  BY <1>1, <3>1, <3>2
    <3> QED  BY <1>1, <1>2, <3>3, Zenon
  <2>2. stored = Zero
    <3>1. ~BurstOver  BY DEF Handles, BurstOver
    <3> QED  BY <1>1, <2>1, <3>1 DEF DecoderInv, Waiting, Losses
  <2>3. isrState' = "WAIT_FOR_HDR_SPACE" /\ heard' = 2  BY <1>1, <1>2, <2>1 DEF MarkInWait
  <2>4. Losses'  BY <2>2, <2>3, <1>1 DEF Losses
  <2>5. Between' /\ Waiting' /\ InBits' /\ InRepeat'  BY <2>3 DEF Between, Waiting, InBits, InRepeat
  <2>6. InHeader'
    <3>1. dataLost <=> noticed  BY <1>1, <2>1 DEF DecoderInv, Losses
    <3> QED  BY <1>1, <2>1, <2>3, <3>1 DEF InHeader
  <2> QED  BY <2>4, <2>5, <2>6 DEF DecoderInv
<1>3. CASE duration # HDR_MARK
  <2>1. isrState' = "WAIT_FOR_HDR_MARK" /\ heard' > 0  BY <1>1, <1>3 DEF MarkInWait, Handles
  <2>2. intact => heard > 2 /\ stored = Zero /\ sending = Repeat /\ noticed
    <3>1. HAVE intact
    <3>2. ~BurstOver  BY DEF Handles, BurstOver
    <3>3. Undamaged(burst, sending)  BY <3>1 DEF Handles
    <3>4. sending \in Button  BY DEF Handles
    <3>5. burst[2] = HDR_MARK
      <4>1. 2 \in 1..Len(burst)  BY <3>3, <3>4, FrameIsBurst DEF Undamaged
      <4> QED  BY <3>3, <3>4, <4>1, FrameIs DEF Undamaged
    <3>6. heard # 1 /\ heard > 0  BY <1>1, <1>3, <3>5 DEF Handles
    <3> QED  BY <1>1, <3>1, <3>2, <3>6 DEF DecoderInv, Waiting
  <2>3. Waiting'  BY <1>1, <2>1, <2>2 DEF Waiting, Handles
  <2>4. Losses'
    <3>1. dataLost <=> Noticing
      <4>1. CASE heard = 1
        <5>1. burst[2] # HDR_MARK /\ (dataLost <=> noticed)
          BY <1>1, <1>3, <4>1 DEF DecoderInv, Losses
        <5>2. ~intact  BY <2>2, <4>1
        <5> QED  BY <5>1, <5>2 DEF Noticing, Still
      <4>2. CASE heard # 1
        <5>1. ~(heard < 2)  BY <1>1, <4>2 DEF Handles
        <5> QED  BY <1>1, <5>1 DEF DecoderInv, Losses
      <4> QED  BY <4>1, <4>2
    <3>2. ~(heard' < 2)  BY <1>1 DEF Handles
    <3>3. Noticing' = Noticing  BY <1>1 DEF Noticing, Still
    <3>4. ~intact => stored = Zero  BY DEF DecoderInv, Losses
    <3>5. dataLost' <=> Noticing'  BY <1>1, <3>1, <3>3, Zenon
    <3> QED  BY <1>1, <2>1, <3>2, <3>4, <3>5 DEF Losses
  <2>5. Between' /\ InHeader' /\ InBits' /\ InRepeat'
    BY <2>1 DEF Between, InHeader, InBits, InRepeat
  <2> QED  BY <2>3, <2>4, <2>5 DEF DecoderInv
<1> QED  BY <1>2, <1>3

LEMMA GoodMarkKeeps ==
  ASSUME Handles, DecoderInv, heard % 2 = 1, GoodMark, TypeOK
  PROVE  DecoderInv'
<1>1. /\ heard >= 1 /\ heard + 1 \in 1..Len(burst) /\ burst[heard + 1] = BIT_MARK
      /\ heard' = heard + 1 /\ UNCHANGED <<sending, intact, burst, noticed>>
      /\ isrState # "WAIT_FOR_HDR_MARK" /\ heard \in Nat /\ Len(burst) \in Nat
      /\ sending \in Button /\ stored = Zero
  BY DEF Handles, GoodMark, duration, DecoderInv, Losses
<1>2. isrState \in {"NORMAL_INCOMING", "REPEAT_INCOMING"}
  <2>1. isrState # "WAIT_FOR_HDR_SPACE"  BY <1>1 DEF DecoderInv, InHeader
  <2> QED  BY <1>1, <2>1 DEF TypeOK
<1>3. CASE Complete
  <2>1. GoodUpTo(heard) /\ heard + 1 = Len(Frame(sending)) /\ irData = sending /\ ~dataLost
        /\ heard >= 3 /\ (sending = Repeat => ~noticed)
    <3>1. CASE isrState = "REPEAT_INCOMING"
      <4>1. heard = 3 /\ sending = Repeat /\ GoodUpTo(3) /\ irData = Repeat /\ ~dataLost
            /\ ~noticed
        BY <1>1, <3>1 DEF DecoderInv, InRepeat
      <4> QED  BY <1>1, <4>1, FrameIs
    <3>2. CASE isrState = "NORMAL_INCOMING"
      <4>1. irBitCount = FRAME_SIZE  BY <1>3, <3>2 DEF Complete
      <4>2. /\ sending \in RemoteCode /\ ~dataLost
            /\ heard \in {2 * irBitCount + 3, 2 * irBitCount + 4} /\ heard < 2 * FRAME_SIZE + 4
            /\ GoodUpTo(heard) /\ irData = FirstBits(irBitCount)
        BY <1>1, <3>2 DEF DecoderInv, InBits
      <4>3. FRAME_SIZE \in Nat /\ sending # Repeat /\ sending \in Code
        BY <4>2, ReceiverAssumption
      <4>4. heard = 2 * FRAME_SIZE + 3  BY <4>1, <4>2, <4>3
      <4>5. irData = sending  BY <4>1, <4>2, <4>3, AllBits
      <4> QED  BY <1>1, <4>2, <4>3, <4>4, <4>5, FrameIs
    <3> QED  BY <1>2, <3>1, <3>2
  <2>2. Undamaged(burst, sending) /\ Len(burst) = heard + 1
    <3>1. \A k \in 2..heard : burst[k] = Frame(sending)[k]  BY <2>1 DEF GoodUpTo
    <3>2. heard + 1 <= Len(burst) /\ Burst(burst, sending)  BY <1>1 DEF Handles
    <3> QED  BY <1>1, <2>1, <3>1, <3>2, WholeFrame
  <2>3. intact  BY <2>2 DEF Handles
  <2>4. /\ isrState' = "WAIT_FOR_HDR_MARK" /\ stored' = sending
        /\ dataLost' = dataLost
    BY <1>3, <2>1 DEF GoodMark, Store
  <2>5. Waiting'  BY <1>1, <2>1, <2>2, <2>4 DEF Waiting, BurstOver
  <2>6. Losses'
    <3>1. ~Noticing' /\ intact'  BY <1>1, <2>1, <2>3 DEF Noticing, Still
    <3>2. ~(heard' < 2)  BY <1>1, <2>1
    <3> QED  BY <2>1, <2>4, <3>1, <3>2 DEF Losses
  <2>7. Between' /\ InHeader' /\ InBits' /\ InRepeat'
    BY <1>1, <2>4 DEF Between, InHeader, InBits, InRepeat
  <2> QED  BY <2>5, <2>6, <2>7 DEF DecoderInv
<1>4. CASE ~Complete
  <2>1. isrState = "NORMAL_INCOMING" /\ irBitCount # FRAME_SIZE  BY <1>2, <1>4 DEF Complete
  <2>2. UNCHANGED <<isrState, irData, irBitCount, dataLost, stored>>
    BY <1>4 DEF GoodMark, decoder
  <2>3. /\ sending \in RemoteCode /\ ~dataLost
        /\ heard \in {2 * irBitCount + 3, 2 * irBitCount + 4} /\ heard < 2 * FRAME_SIZE + 4
        /\ GoodUpTo(heard) /\ irData = FirstBits(irBitCount)
    BY <1>1, <2>1 DEF DecoderInv, InBits
  <2>4. irBitCount \in 0..FRAME_SIZE /\ FRAME_SIZE \in Nat  BY ReceiverAssumption DEF TypeOK
  <2>5. heard = 2 * irBitCount + 3 /\ irBitCount < FRAME_SIZE  BY <2>1, <2>3, <2>4
  <2>6. heard' = 2 * irBitCount + 4 /\ heard' < 2 * FRAME_SIZE + 4  BY <1>1, <2>4, <2>5
  <2>7. burst[heard + 1] = Frame(sending)[heard + 1]
    <3>1. sending # Repeat  BY <2>3, ReceiverAssumption
    <3>2. heard + 1 \in 4..Len(Frame(sending)) /\ (heard + 1) % 2 = 0
      BY <1>1, <2>4, <2>5, <3>1, FrameIs
    <3> QED  BY <1>1, <3>2, FrameIs
  <2>8. GoodUpTo(heard)'
    <3>1. \A k \in 2..heard + 1 : k \in 2..heard \/ k = heard + 1  BY <1>1
    <3>2. \A k \in 2..heard + 1 : burst[k] = Frame(sending)[k]
      BY <2>3, <2>7, <3>1 DEF GoodUpTo
    <3> QED  BY <1>1, <3>2 DEF GoodUpTo
  <2>9. FirstBits(irBitCount)' = FirstBits(irBitCount)  BY <1>1, <2>2 DEF FirstBits
  <2>10. InBits'  BY <1>1, <2>2, <2>3, <2>6, <2>8, <2>9 DEF InBits
  <2>11. Between' /\ Waiting' /\ InHeader' /\ InRepeat' /\ Losses'
    BY <1>1, <2>1, <2>2, <2>3 DEF Between, Waiting, InHeader, InRepeat, Losses
  <2> QED  BY <2>10, <2>11 DEF DecoderInv
<1> QED  BY <1>3, <1>4

LEMMA BadMarkKeeps ==
  ASSUME Handles, DecoderInv, heard % 2 = 1, BadMark, TypeOK
  PROVE  DecoderInv'
<1>1. /\ heard >= 1 /\ heard + 1 \in 1..Len(burst) /\ burst[heard + 1] # BIT_MARK
      /\ heard' = heard + 1 /\ UNCHANGED <<sending, intact, burst, noticed, stored>>
      /\ isrState # "WAIT_FOR_HDR_MARK" /\ heard \in Nat /\ Len(burst) \in Nat
      /\ sending \in Button /\ stored = Zero
      /\ isrState' = "WAIT_FOR_HDR_MARK" /\ dataLost'
  BY DEF Handles, BadMark, Abandon, duration, DecoderInv, Losses
<1>2. heard >= 3
  <2>1. isrState # "WAIT_FOR_HDR_SPACE"  BY <1>1 DEF DecoderInv, InHeader
  <2>2. isrState = "REPEAT_INCOMING" \/ isrState = "NORMAL_INCOMING"  BY <1>1, <2>1 DEF TypeOK
  <2>3. isrState = "REPEAT_INCOMING" => heard = 3  BY <1>1 DEF DecoderInv, InRepeat
  <2>4. isrState = "NORMAL_INCOMING" => heard \in {2 * irBitCount + 3, 2 * irBitCount + 4}
    BY <1>1 DEF DecoderInv, InBits
  <2>5. irBitCount \in Nat  BY ReceiverAssumption DEF TypeOK
  <2> QED  BY <2>2, <2>3, <2>4, <2>5
<1>3. ~intact
  <2>1. SUFFICES ASSUME intact PROVE FALSE  OBVIOUS
  <2>2. Len(burst) = Len(Frame(sending)) /\ burst[heard + 1] = Frame(sending)[heard + 1]
    BY <1>1, <2>1 DEF Handles, Undamaged
  <2>3. heard + 1 \in 4..Len(Frame(sending)) /\ (heard + 1) % 2 = 0  BY <1>1, <1>2, <2>2
  <2> QED  BY <1>1, <2>2, <2>3, FrameIs
<1>4. Losses' /\ Waiting'
  <2>1. burst[2] = HDR_MARK
    <3>1. heard > 0 /\ isrState \in {"REPEAT_INCOMING", "NORMAL_INCOMING"}
      <4>1. isrState # "WAIT_FOR_HDR_SPACE"  BY <1>1, <1>2 DEF DecoderInv, InHeader
      <4> QED  BY <1>1, <4>1 DEF TypeOK
    <3>2. \A k \in 2..heard : burst[k] = Frame(sending)[k]
      BY <3>1 DEF DecoderInv, InRepeat, InBits, GoodUpTo
    <3>3. 2 \in 2..heard  BY <1>1, <1>2
    <3> QED  BY <1>1, <3>2, <3>3, FrameIs
  <2>2. Noticing' /\ ~(heard' < 2)  BY <1>1, <1>3, <2>1 DEF Noticing
  <2> QED  BY <1>1, <1>3, <2>2 DEF Losses, Waiting
<1>5. Between' /\ InHeader' /\ InBits' /\ InRepeat'
  BY <1>1 DEF Between, InHeader, InBits, InRepeat
<1> QED  BY <1>4, <1>5 DEF DecoderInv

LEMMA SpaceInHeaderKeeps ==
  ASSUME Handles, DecoderInv, heard % 2 = 0, SpaceInHeader, TypeOK
  PROVE  DecoderInv'
<1>1. /\ heard + 1 \in 1..Len(burst) /\ heard \in Nat /\ Len(burst) \in Nat
      /\ heard' = heard + 1 /\ UNCHANGED <<sending, intact, burst, noticed, stored>>
      /\ isrState = "WAIT_FOR_HDR_SPACE" /\ sending \in Button /\ stored = Zero
      /\ duration = burst[heard + 1]
  BY DEF Handles, SpaceInHeader, duration, DecoderInv, Losses
<1>2. /\ duration = HDR_SPACE => HdrSpace
      /\ duration = RPT_SPACE => RptSpace
      /\ duration \notin {HDR_SPACE, RPT_SPACE} =>
           Abandon /\ UNCHANGED <<irData, irBitCount>>
  BY NamesDiffer DEF SpaceInHeader
<1>3. CASE heard = 0
  <2>1. duration = GAP
    <3>1. heard + 1 = 1  BY <1>3
    <3> QED  BY <1>1, <3>1 DEF Handles
  <2>2. isrState' = "WAIT_FOR_HDR_MARK" /\ dataLost' /\ heard' = 1
    BY <1>1, <1>2, <1>3, <2>1, NamesDiffer DEF Abandon
  <2>3. noticed  BY <1>1, <1>3 DEF DecoderInv, Between
  <2> QED  BY <1>1, <2>2, <2>3
           DEF DecoderInv, Between, Waiting, InHeader, InBits, InRepeat, Losses
<1>4. CASE heard # 0
  <2>1. heard = 2 /\ burst[2] = HDR_MARK /\ heard' = 3 /\ duration = burst[3]
        /\ (dataLost <=> noticed)
    <3>1. heard = 2 /\ burst[2] = HDR_MARK /\ (dataLost <=> noticed)
      BY <1>1, <1>4 DEF DecoderInv, InHeader
    <3>2. heard + 1 = 3  BY <3>1
    <3> QED  BY <1>1, <3>1, <3>2
  <2>2. burst[3] \in {Frame(sending)[3], NO_SPAN}
    <3>1. 3 \in 1..Len(burst)  BY <1>1, <2>1
    <3> QED  BY <2>1, <3>1 DEF Handles, Alike
  <2>3. \A k \in 2..3 : k = 2 \/ k = 3  OBVIOUS
  <2>4. burst[3] = Frame(sending)[3] => GoodUpTo(3)'
    <3>1. Frame(sending)[2] = HDR_MARK  BY <1>1, FrameIs
    <3>2. burst[3] = Frame(sending)[3] => \A k \in 2..3 : burst[k] = Frame(sending)[k]
      BY <2>1, <2>3, <3>1
    <3> QED  BY <1>1, <3>2 DEF GoodUpTo
  <2>5. CASE duration = HDR_SPACE
    <3>1. Frame(sending)[3] = HDR_SPACE /\ burst[3] = Frame(sending)[3]
      BY <2>1, <2>2, <2>5, NamesDiffer
    <3>2. sending # Repeat /\ sending \in RemoteCode /\ sending \in Code
      BY <1>1, <3>1, FrameIs, NamesDiffer, ReceiverAssumption DEF Button
    <3>3. HdrSpace  BY <1>2, <2>5
    <3>4. isrState' = "NORMAL_INCOMING" /\ irData' = Zero /\ irBitCount' = 0
      BY <3>3 DEF HdrSpace
    <3>5. ~dataLost'  BY <3>3 DEF HdrSpace
    <3>6. heard' \in {2 * irBitCount' + 3, 2 * irBitCount' + 4} /\ heard' < 2 * FRAME_SIZE + 4
      BY <2>1, <3>4, ReceiverAssumption
    <3>7. irData' = FirstBits(irBitCount)'
      <4>1. FirstBits(0)' = FirstBits(0)  BY <1>1 DEF FirstBits
      <4>2. FirstBits(irBitCount)' = FirstBits(0)'  BY <3>4 DEF FirstBits
      <4> QED  BY <3>2, <3>4, <4>1, <4>2, NoBits
    <3>8. GoodUpTo(heard)'
      <4>1. GoodUpTo(3)'  BY <2>4, <3>1
      <4> QED  BY <2>1, <4>1 DEF GoodUpTo
    <3>9. InBits'  BY <1>1, <3>2, <3>5, <3>6, <3>7, <3>8 DEF InBits
    <3> QED  BY <1>1, <2>1, <3>4, <3>5, <3>9
             DEF DecoderInv, Between, Waiting, InHeader, InRepeat, Losses
  <2>6. CASE duration = RPT_SPACE
    <3>1. Frame(sending)[3] = RPT_SPACE /\ burst[3] = Frame(sending)[3]
      BY <2>1, <2>2, <2>6, NamesDiffer
    <3>2. sending = Repeat  BY <1>1, <3>1, FrameIs, NamesDiffer
    <3>3. RptSpace  BY <1>2, <2>6
    <3>4. irData' = Repeat /\ dataLost' = dataLost
          /\ isrState' = IF dataLost THEN "WAIT_FOR_HDR_MARK" ELSE "REPEAT_INCOMING"
      BY <3>3 DEF RptSpace
    <3>5. dataLost <=> noticed  BY <2>1
    <3>6. GoodUpTo(3)'  BY <2>4, <3>1
    <3>7. CASE dataLost
      <4>1. Noticing'  BY <1>1, <3>2, <3>5, <3>7 DEF Noticing, Still
      <4> QED
        BY <1>1, <2>1, <3>2, <3>4, <3>5, <3>7, <4>1
           DEF DecoderInv, Between, Waiting, InHeader, InBits, InRepeat, Losses
    <3>8. CASE ~dataLost
      BY <1>1, <2>1, <3>2, <3>4, <3>5, <3>6, <3>8
         DEF DecoderInv, Between, Waiting, InHeader, InBits, InRepeat, Losses
    <3> QED  BY <3>7, <3>8
  <2>7. CASE duration \notin {HDR_SPACE, RPT_SPACE}
    <3>1. ~intact
      <4>1. SUFFICES ASSUME intact PROVE FALSE  OBVIOUS
      <4>2. Undamaged(burst, sending) /\ 3 \in 1..Len(burst)  BY <1>1, <2>1, <4>1 DEF Handles
      <4>3. burst[3] = Frame(sending)[3]  BY <4>2 DEF Undamaged
      <4> QED  BY <1>1, <2>1, <2>7, <4>3, FrameIs
    <3>2. isrState' = "WAIT_FOR_HDR_MARK" /\ dataLost'  BY <1>2, <2>7 DEF Abandon
    <3>3. Noticing'  BY <1>1, <2>1, <3>1 DEF Noticing
    <3> QED  BY <1>1, <2>1, <3>1, <3>2, <3>3
             DEF DecoderInv, Between, Waiting, InHeader, InBits, InRepeat, Losses
  <2> QED  BY <2>5, <2>6, <2>7
<1> QED  BY <1>3, <1>4

LEMMA SpaceInBitsKeeps ==
  ASSUME Handles, DecoderInv, heard % 2 = 0, SpaceInBits, TypeOK
  PROVE  DecoderInv'
<1>1. /\ heard + 1 \in 1..Len(burst) /\ heard \in Nat /\ Len(burst) \in Nat
      /\ heard' = heard + 1 /\ UNCHANGED <<sending, intact, burst, noticed, stored>>
      /\ isrState = "NORMAL_INCOMING" /\ sending \in Button /\ stored = Zero
      /\ duration = burst[heard + 1] /\ irBitCount' = irBitCount + 1
      /\ irData' = Shifted(irData, IF duration = ONE_SPACE THEN 1 ELSE 0)
  BY DEF Handles, SpaceInBits, duration, DecoderInv, Losses
<1>2. duration \in {ONE_SPACE, ZERO_SPACE} => UNCHANGED <<isrState, dataLost>>
  BY DEF SpaceInBits
<1>3. duration \notin {ONE_SPACE, ZERO_SPACE} => isrState' = "WAIT_FOR_HDR_MARK" /\ dataLost'
  BY DEF SpaceInBits, Abandon
<1>4. CASE heard = 0
  <2>1. duration = GAP
    <3>1. heard + 1 = 1  BY <1>4
    <3> QED  BY <1>1, <3>1 DEF Handles
  <2>2. isrState' = "WAIT_FOR_HDR_MARK" /\ dataLost' /\ heard' = 1
    BY <1>1, <1>3, <1>4, <2>1 DEF GAP, ONE_SPACE, ZERO_SPACE
  <2>3. noticed  BY <1>1, <1>4 DEF DecoderInv, Between
  <2> QED  BY <1>1, <2>2, <2>3
           DEF DecoderInv, Between, Waiting, InHeader, InBits, InRepeat, Losses
<1>5. CASE heard # 0
  <2>1. /\ sending \in RemoteCode /\ ~dataLost
        /\ heard \in {2 * irBitCount + 3, 2 * irBitCount + 4} /\ heard < 2 * FRAME_SIZE + 4
        /\ GoodUpTo(heard) /\ irData = FirstBits(irBitCount)
    BY <1>1, <1>5 DEF DecoderInv, InBits
  <2>2. FRAME_SIZE \in Nat /\ irBitCount \in Nat /\ sending \in Code
    BY <2>1, ReceiverAssumption DEF TypeOK
  <2>3. heard = 2 * irBitCount + 4 /\ irBitCount \in 0..FRAME_SIZE - 1  BY <2>1, <2>2
  <2>4. heard + 1 = 2 * irBitCount + 5  BY <2>2, <2>3
  <2>5. /\ heard + 1 \in 4..Len(Frame(sending))
        /\ Frame(sending)[heard + 1] = IF sending[irBitCount + 1] = 1 THEN ONE_SPACE ELSE ZERO_SPACE
    BY <2>1, <2>3, <2>4, SpaceOfBit
  <2>6. burst[2] = HDR_MARK
    <3>1. 2 \in 2..heard  BY <2>2, <2>3
    <3>2. burst[2] = Frame(sending)[2]  BY <2>1, <3>1 DEF GoodUpTo
    <3> QED  BY <1>1, <3>2, FrameIs
  <2>7. CASE duration \in {ONE_SPACE, ZERO_SPACE}
    <3>1. burst[heard + 1] = Frame(sending)[heard + 1]
      <4>1. burst[heard + 1] \in {Frame(sending)[heard + 1], NO_SPAN}
        BY <1>1, <2>6 DEF Handles, Alike
      <4> QED  BY <1>1, <2>7, <4>1, NamesDiffer
    <3>2. isrState' = "NORMAL_INCOMING" /\ dataLost' = dataLost  BY <1>1, <1>2, <2>7
    <3>3. GoodUpTo(heard)'
      <4>1. \A k \in 2..heard + 1 : k \in 2..heard \/ k = heard + 1  BY <1>1
      <4>2. \A k \in 2..heard + 1 : burst[k] = Frame(sending)[k]
        BY <2>1, <3>1, <4>1 DEF GoodUpTo
      <4> QED  BY <1>1, <4>2 DEF GoodUpTo
    <3>4. irData' = FirstBits(irBitCount)'
      <4>1. sending[irBitCount + 1] = IF duration = ONE_SPACE THEN 1 ELSE 0
        <5>1. irBitCount + 1 \in 1..FRAME_SIZE  BY <2>2, <2>3
        <5>2. sending[irBitCount + 1] \in {0, 1}  BY <2>2, <5>1 DEF Code
        <5> QED  BY <1>1, <2>5, <3>1, <5>2, NamesDiffer
      <4>2. irData' = FirstBits(irBitCount + 1)  BY <1>1, <2>1, <2>2, <2>3, <4>1, OneMoreBit
      <4>3. FirstBits(irBitCount)' = FirstBits(irBitCount + 1)  BY <1>1 DEF FirstBits
      <4> QED  BY <4>2, <4>3
    <3>5. heard' = 2 * irBitCount' + 3 /\ heard' < 2 * FRAME_SIZE + 4
      BY <1>1, <2>2, <2>3
    <3>6. InBits'  BY <1>1, <2>1, <3>2, <3>3, <3>4, <3>5 DEF InBits
    <3>7. heard' # 0  BY <1>1
    <3> QED  BY <1>1, <2>1, <3>2, <3>6, <3>7
             DEF DecoderInv, Between, Waiting, InHeader, InRepeat, Losses
  <2>8. CASE duration \notin {ONE_SPACE, ZERO_SPACE}
    <3>1. ~intact
      <4>1. SUFFICES ASSUME intact PROVE FALSE  OBVIOUS
      <4>2. burst[heard + 1] = Frame(sending)[heard + 1]
        BY <1>1, <4>1 DEF Handles, Undamaged
      <4> QED  BY <1>1, <2>5, <2>8, <4>2
    <3>2. isrState' = "WAIT_FOR_HDR_MARK" /\ dataLost' /\ heard' # 0  BY <1>1, <1>3, <2>8
    <3>3. Noticing' /\ ~(heard' < 2)  BY <1>1, <2>2, <2>3, <2>6, <3>1 DEF Noticing
    <3> QED  BY <1>1, <3>1, <3>2, <3>3
             DEF DecoderInv, Between, Waiting, InHeader, InBits, InRepeat, Losses
  <2> QED  BY <2>7, <2>8
<1> QED  BY <1>4, <1>5

LEMMA SpaceElsewhereKeeps ==
  ASSUME Handles, DecoderInv, heard % 2 = 0, SpaceElsewhere, TypeOK
  PROVE  DecoderInv'
<1>1. /\ heard \in Nat /\ heard' = heard + 1 /\ ~BurstOver
      /\ UNCHANGED <<sending, intact, burst, noticed, stored, isrState, dataLost>>
      /\ isrState \in {"WAIT_FOR_HDR_MARK", "REPEAT_INCOMING"}
  BY DEF Handles, SpaceElsewhere, BurstOver, decoder, TypeOK
<1>2. isrState = "WAIT_FOR_HDR_MARK"
  <2>1. heard = 0 => isrState # "REPEAT_INCOMING"  BY DEF DecoderInv, Between
  <2>2. heard # 3  BY <1>1
  <2>3. heard > 0 => isrState # "REPEAT_INCOMING"  BY <2>2 DEF DecoderInv, InRepeat
  <2> QED  BY <1>1, <2>1, <2>3
<1>3. Losses'
  <2>1. Noticing' = Noticing  BY <1>1 DEF Noticing, Still
  <2>2. CASE heard = 0  BY <1>1, <1>2, <2>2 DEF DecoderInv, Losses
  <2>3. CASE heard # 0
    <3>1. ~(heard < 2) /\ ~(heard' < 2)  BY <1>1, <2>3
    <3> QED  BY <1>1, <1>2, <2>1, <3>1 DEF DecoderInv, Losses
  <2> QED  BY <2>2, <2>3
<1>4. Waiting'
  <2>1. CASE heard = 0  BY <1>1, <2>1 DEF DecoderInv, Between, Waiting
  <2>2. CASE heard # 0
    <3>1. heard # 1 /\ heard > 0 /\ heard' > 2  BY <1>1, <2>2
    <3> QED  BY <1>1, <1>2, <3>1 DEF DecoderInv, Waiting
  <2> QED  BY <2>1, <2>2
<1>5. Between' /\ InHeader' /\ InBits' /\ InRepeat'
  BY <1>1, <1>2 DEF Between, InHeader, InBits, InRepeat
<1> QED  BY <1>3, <1>4, <1>5 DEF DecoderInv

LEMMA IsrKeepsDecoder ==
  ASSUME ReceiverInv, irISR
  PROVE  DecoderInv'
<1>1. Handles /\ DecoderInv /\ TypeOK  BY HandlerHandles DEF ReceiverInv
<1>2. (level = "SPACE" <=> heard % 2 = 1) /\ (level = "MARK" <=> heard % 2 = 0)
  BY HandlerHandles
<1>3. CASE MarkInWait  BY <1>1, <1>2, <1>3, MarkInWaitKeeps DEF MarkInWait
<1>4. CASE GoodMark  BY <1>1, <1>2, <1>4, GoodMarkKeeps DEF GoodMark
<1>5. CASE BadMark  BY <1>1, <1>2, <1>5, BadMarkKeeps DEF BadMark
<1>6. CASE SpaceInHeader  BY <1>1, <1>2, <1>6, SpaceInHeaderKeeps DEF SpaceInHeader
<1>7. CASE SpaceInBits  BY <1>1, <1>2, <1>7, SpaceInBitsKeeps DEF SpaceInBits
<1>8. CASE SpaceElsewhere  BY <1>1, <1>2, <1>8, SpaceElsewhereKeeps DEF SpaceElsewhere
<1> QED  BY <1>3, <1>4, <1>5, <1>6, <1>7, <1>8 DEF irISR

(* What a burst leaves to the next one.                                     *)
LEMMA BurstEnds ==
  ASSUME ReceiverInv, BurstOver
  PROVE  /\ isrState # "REPEAT_INCOMING"
         /\ isrState # "WAIT_FOR_HDR_MARK" => Noticing
         /\ isrState = "WAIT_FOR_HDR_MARK" => (dataLost <=> Noticing)
         /\ isrState = "NORMAL_INCOMING" => irBitCount < FRAME_SIZE
         /\ stored = IF intact /\ ~(sending = Repeat /\ noticed) THEN sending ELSE Zero
<1>1. TypeOK /\ BurstInv /\ DecoderInv /\ heard = Len(burst)  BY DEF ReceiverInv, BurstOver
<1>2. CASE burst = << >>
  <2>1. heard = 0 /\ sending = Zero /\ intact /\ ~noticed
    <3>1. sending = Zero /\ intact /\ ~noticed
      <4>1. CASE sending \in Button
        <5>1. Burst(burst, sending)
          BY <1>1, <4>1, FrameIsBurst, DamagedIsBurst, CodesDiffer DEF BurstInv
        <5> QED  BY <1>2, <5>1 DEF Burst
      <4>2. CASE sending \notin Button  BY <1>1, <4>2 DEF BurstInv
      <4> QED  BY <4>1, <4>2
    <3> QED  BY <1>1, <1>2, <3>1
  <2>2. ~Noticing  BY <2>1 DEF Noticing, Still
  <2> QED  BY <1>1, <2>1, <2>2 DEF DecoderInv, Between, Losses
<1>3. CASE burst # << >>
  <2>1. /\ sending \in Button /\ Burst(burst, sending) /\ (intact <=> Undamaged(burst, sending))
        /\ heard \in Nat /\ heard >= 2 /\ heard % 2 = 0
    BY <1>1, <1>3, BurstShape
  <2>2. intact => heard = Len(Frame(sending))  BY <1>1, <2>1 DEF Undamaged
  <2>3. isrState # "REPEAT_INCOMING"
    <3>1. heard # 3 /\ heard > 0  BY <2>1
    <3> QED  BY <1>1, <3>1 DEF DecoderInv, InRepeat
  <2>4. isrState = "WAIT_FOR_HDR_SPACE" => ~intact /\ Noticing
    <3>1. Len(Frame(sending)) # 2  BY <2>1, FrameIs, ReceiverAssumption
    <3>2. isrState = "WAIT_FOR_HDR_SPACE" => heard = 2 /\ burst[2] = HDR_MARK
      BY <1>1, <2>1 DEF DecoderInv, InHeader
    <3> QED  BY <2>2, <3>1, <3>2 DEF Noticing
  <2>5. isrState = "NORMAL_INCOMING" => ~intact /\ Noticing /\ irBitCount < FRAME_SIZE
    <3>1. HAVE isrState = "NORMAL_INCOMING"
    <3>2. /\ sending \in RemoteCode
          /\ heard \in {2 * irBitCount + 3, 2 * irBitCount + 4} /\ heard < 2 * FRAME_SIZE + 4
          /\ GoodUpTo(heard)
      BY <1>1, <2>1, <3>1 DEF DecoderInv, InBits
    <3>3. irBitCount \in Nat /\ FRAME_SIZE \in Nat /\ sending # Repeat
      BY <1>1, <3>2, ReceiverAssumption DEF TypeOK
    <3>4. irBitCount < FRAME_SIZE  BY <2>1, <3>2, <3>3
    <3>5. Len(Frame(sending)) = 2 * FRAME_SIZE + 4  BY <2>1, <3>3, FrameIs
    <3>6. ~intact  BY <2>1, <2>2, <3>2, <3>3, <3>5
    <3>7. burst[2] = HDR_MARK
      <4>1. 2 \in 2..heard  BY <2>1
      <4>2. burst[2] = Frame(sending)[2]  BY <3>2, <4>1 DEF GoodUpTo
      <4> QED  BY <2>1, <4>2, FrameIs
    <3> QED  BY <3>4, <3>6, <3>7 DEF Noticing
  <2>6. isrState = "WAIT_FOR_HDR_MARK" /\ intact =>
          \/ stored = Zero /\ sending = Repeat /\ noticed
          \/ stored = sending /\ (sending = Repeat => ~noticed)
    <3>1. heard > 0 /\ heard # 1  BY <2>1
    <3> QED  BY <1>1, <3>1 DEF DecoderInv, Waiting
  <2>7. ~intact => stored = Zero  BY <1>1 DEF DecoderInv, Losses
  <2>8. isrState \in {"WAIT_FOR_HDR_MARK", "WAIT_FOR_HDR_SPACE", "NORMAL_INCOMING"}
    BY <1>1, <2>3 DEF TypeOK
  <2>9. isrState = "WAIT_FOR_HDR_MARK" => (dataLost <=> Noticing)
    <3>1. ~(heard < 2)  BY <2>1
    <3> QED  BY <1>1, <3>1 DEF DecoderInv, Losses
  <2> QED  BY <2>3, <2>4, <2>5, <2>6, <2>7, <2>8, <2>9
<1> QED  BY <1>2, <1>3

LEMMA NextKeepsDecoder ==
  ASSUME ReceiverInv, Next
  PROVE  DecoderInv'
<1>1. DecoderInv  BY DEF ReceiverInv
<1>2. CASE Send
  <2>1. /\ heard' = 0 /\ stored' = Zero /\ noticed' = Noticing
        /\ UNCHANGED <<isrState, irData, irBitCount, dataLost>>
    BY <1>2 DEF Send, decoder, Noticing
  <2>2. BurstOver  BY <1>2 DEF Send
  <2>3. Between'  BY <2>1, <2>2, BurstEnds DEF Between
  <2>4. Losses'  BY <2>1, <2>2, BurstEnds DEF Losses
  <2>5. Waiting' /\ InHeader' /\ InBits' /\ InRepeat'
    BY <2>1 DEF Waiting, InHeader, InBits, InRepeat
  <2> QED  BY <2>3, <2>4, <2>5 DEF DecoderInv
<1>3. CASE irISR  BY <1>3, IsrKeepsDecoder
<1>4. CASE Edge \/ ReadCalled \/ ReadEmpty \/ ReadSlot \/ ReadAdvance
  <2>1. UNCHANGED <<sending, intact, burst, heard, isrState, irData, irBitCount, dataLost,
                    stored, noticed>>
    BY <1>4 DEF Edge, ReadCalled, ReadEmpty, ReadSlot, ReadAdvance, air, decoder
  <2>2. GoodUpTo(heard)' = GoodUpTo(heard) /\ GoodUpTo(3)' = GoodUpTo(3)  BY <2>1 DEF GoodUpTo
  <2>3. FirstBits(irBitCount)' = FirstBits(irBitCount)  BY <2>1 DEF FirstBits
  <2>4. BurstOver' = BurstOver  BY <2>1 DEF BurstOver
  <2>5. Between' /\ InHeader'  BY <1>1, <2>1 DEF DecoderInv, Between, InHeader
  <2>6. Losses'
    <3>1. Noticing' = Noticing  BY <2>1 DEF Noticing, Still
    <3> QED  BY <1>1, <2>1, <3>1 DEF DecoderInv, Losses
  <2>7. Waiting'  BY <1>1, <2>1, <2>4 DEF DecoderInv, Waiting
  <2>8. InBits'  BY <1>1, <2>1, <2>2, <2>3 DEF DecoderInv, InBits
  <2>9. InRepeat'  BY <1>1, <2>1, <2>2 DEF DecoderInv, InRepeat
  <2> QED  BY <2>5, <2>7, <2>8, <2>9, <2>6 DEF DecoderInv
<1> QED  BY <1>2, <1>3, <1>4 DEF Next

LEMMA NextKeepsReading ==
  ASSUME ReceiverInv, Next
  PROVE  Reading'
<1>1. TypeOK /\ Reading  BY DEF ReceiverInv
<1>2. CASE Send \/ Edge
  <2>1. UNCHANGED <<enabled, ring, reading>>  BY <1>2 DEF Send, Edge
  <2> QED  BY <1>1, <2>1 DEF Reading, ring
<1>3. CASE irISR
  <2>1. enabled /\ UNCHANGED <<enabled, reading>>  BY <1>3 DEF irISR
  <2> QED  BY <1>1, <2>1 DEF Reading
<1>4. CASE ReadCalled
  <2>1. reading'.at = "check"  BY <1>4 DEF ReadCalled, Idle
  <2>2. ~enabled'  BY <1>4 DEF ReadCalled, Cli
  <2> QED  BY <2>1, <2>2 DEF Reading
<1>5. CASE ReadEmpty \/ ReadAdvance
  <2>1. reading'.at = "idle"  BY <1>5 DEF ReadEmpty, ReadAdvance, Idle
  <2> QED  BY <2>1 DEF Reading
<1>6. CASE ReadSlot
  <2>1. reading' = [reading EXCEPT !.at = "advance", !.code = irBuffer[tailIrBuffer]]
        /\ UNCHANGED <<enabled, irBuffer, headIrBuffer, tailIrBuffer>>
        /\ headIrBuffer # tailIrBuffer /\ reading.at = "check"
    BY <1>6 DEF ReadSlot, ring
  <2>2. reading'.at = "advance" /\ reading'.code = irBuffer[tailIrBuffer]
    BY <1>1, <2>1 DEF TypeOK
  <2>3. ~enabled  BY <1>1, <2>1 DEF Reading
  <2> QED  BY <2>1, <2>2, <2>3 DEF Reading
<1> QED  BY <1>2, <1>3, <1>4, <1>5, <1>6 DEF Next

LEMMA ReceiverInvInit ==
  ASSUME Init
  PROVE  ReceiverInv
<1>1. Zero \in Code /\ Idle \in [at : {"idle", "check", "advance"}, oldSREG : BOOLEAN, code : Code]
  BY CodesDiffer DEF Idle
<1>2. 0 \in 0..IR_BUF_SIZE - 1 /\ 0 \in 0..FRAME_SIZE  BY ReceiverAssumption
<1>3. heard \in 0..Len(burst) /\ heard = 0 /\ heard % 2 = 0
  BY DEF Init
<1>4. TypeOK
  <2>1. irBuffer \in [0..IR_BUF_SIZE - 1 -> Code]  BY <1>1 DEF Init
  <2>2. intact \in BOOLEAN /\ pending \in BOOLEAN /\ enabled \in BOOLEAN
        /\ dataLost \in BOOLEAN /\ dropped \in BOOLEAN /\ noticed \in BOOLEAN
    BY DEF Init
  <2>3. /\ sending \in Code /\ level \in {"MARK", "SPACE"}
        /\ isrState \in {"WAIT_FOR_HDR_MARK", "WAIT_FOR_HDR_SPACE", "REPEAT_INCOMING",
                         "NORMAL_INCOMING"}
        /\ irData \in Code /\ irBitCount \in 0..FRAME_SIZE
        /\ headIrBuffer \in 0..IR_BUF_SIZE - 1 /\ tailIrBuffer \in 0..IR_BUF_SIZE - 1
        /\ reading \in [at : {"idle", "check", "advance"}, oldSREG : BOOLEAN, code : Code]
        /\ got \in Code /\ stored \in Code
    BY <1>1, <1>2 DEF Init
  <2> QED  BY <1>3, <2>1, <2>2, <2>3 DEF TypeOK
<1>5. burst = << >> /\ sending = Zero /\ intact /\ ~noticed /\ ~pending /\ level = "SPACE"
      /\ isrState = "WAIT_FOR_HDR_MARK" /\ ~dataLost /\ stored = Zero
  BY DEF Init
<1>6. BurstInv  BY <1>3, <1>5 DEF BurstInv
<1>7. DecoderInv
  BY <1>3, <1>5 DEF DecoderInv, Between, Waiting, InHeader, InBits, InRepeat, Losses
<1>8. Reading  BY DEF Init, Reading, Idle
<1> QED  BY <1>4, <1>6, <1>7, <1>8 DEF ReceiverInv

LEMMA ReceiverInvStep ==
  ASSUME ReceiverInv, [Next]_vars
  PROVE  ReceiverInv'
<1>1. CASE Next
  BY <1>1, NextKeepsTypes, NextKeepsBurst, NextKeepsDecoder, NextKeepsReading DEF ReceiverInv
<1>2. CASE UNCHANGED vars
  <2>1. UNCHANGED <<sending, intact, burst, heard, level, pending, enabled, isrState, irData,
          irBitCount, dataLost, irBuffer, headIrBuffer, tailIrBuffer, reading, got, stored>>
        /\ UNCHANGED <<dropped, noticed>>
    BY <1>2 DEF vars, air, decoder, ring
  <2>2. GoodUpTo(heard)' = GoodUpTo(heard) /\ GoodUpTo(3)' = GoodUpTo(3)  BY <2>1 DEF GoodUpTo
  <2>3. FirstBits(irBitCount)' = FirstBits(irBitCount)  BY <2>1 DEF FirstBits
  <2>4. TypeOK' /\ BurstInv' /\ Reading'
    BY <2>1 DEF ReceiverInv, TypeOK, BurstInv, Reading
  <2>5. Noticing' = Noticing  BY <2>1 DEF Noticing, Still
  <2>6. Between' /\ InHeader' /\ Losses' /\ Waiting'
    BY <2>1, <2>5 DEF ReceiverInv, DecoderInv, Between, InHeader, Losses, Waiting, BurstOver
  <2>7. InBits' /\ InRepeat'
    BY <2>1, <2>2, <2>3 DEF ReceiverInv, DecoderInv, InBits, InRepeat
  <2> QED  BY <2>4, <2>6, <2>7 DEF ReceiverInv, DecoderInv
<1> QED  BY <1>1, <1>2

(* The counters and indices of the receiver stay within their ranges, and   *)
(* only codes are stored and returned.                                      *)
THEOREM ReceiverTypes == Spec => []TypeOK
<1>1. Init => ReceiverInv  BY ReceiverInvInit
<1>2. ReceiverInv /\ [Next]_vars => ReceiverInv'  BY ReceiverInvStep
<1>3. ReceiverInv => TypeOK  BY DEF ReceiverInv
<1> QED  BY <1>1, <1>2, <1>3, PTL DEF Spec

(* A code that comes undamaged is in the buffer when its burst is over,     *)
(* whatever came before it, and of a damaged burst nothing is; an undamaged *)
(* repeat frame is refused if and only if a loss the decoder could notice   *)
(* came after the last good code frame (235-288).                           *)
THEOREM UndamagedFramesAreStored == Spec => []GoodFramesAreStored
<1>1. Init => ReceiverInv  BY ReceiverInvInit
<1>2. ReceiverInv /\ [Next]_vars => ReceiverInv'  BY ReceiverInvStep
<1>3. ReceiverInv => GoodFramesAreStored  BY BurstEnds DEF GoodFramesAreStored
<1> QED  BY <1>1, <1>2, <1>3, PTL DEF Spec

-----------------------------------------------------------------------------
(* The ring is a queue: the codes between its tail and its head, in order.  *)

Slot(t, k) == (t + k - 1) % IR_BUF_SIZE
Ring(buf, h, t) == [k \in 1..(h - t) % IR_BUF_SIZE |-> buf[(t + k - 1) % IR_BUF_SIZE]]

LEMMA Around ==
  ASSUME NEW n \in Nat, n >= 2, NEW a \in -n..2 * n - 1
  PROVE  a % n = IF a < 0 THEN a + n ELSE IF a < n THEN a ELSE a - n
<1>1. CASE a < 0
  <2>1. a = (-1) * n + (a + n) /\ a + n \in 0..n - 1  BY <1>1
  <2> QED  BY <1>1, <2>1
<1>2. CASE a \in 0..n - 1  BY <1>2
<1>3. CASE a >= n
  <2>1. a = 1 * n + (a - n) /\ a - n \in 0..n - 1  BY <1>3
  <2> QED  BY <1>3, <2>1
<1> QED  BY <1>1, <1>2, <1>3

LEMMA SlotIs ==
  ASSUME NEW t \in 0..IR_BUF_SIZE - 1, NEW k \in 1..IR_BUF_SIZE
  PROVE  /\ Slot(t, k) = IF t + k - 1 < IR_BUF_SIZE THEN t + k - 1 ELSE t + k - 1 - IR_BUF_SIZE
         /\ Slot(t, k) \in 0..IR_BUF_SIZE - 1
<1>1. IR_BUF_SIZE \in Nat /\ IR_BUF_SIZE >= 2  BY ReceiverAssumption
<1>2. t + k - 1 \in -IR_BUF_SIZE..2 * IR_BUF_SIZE - 1 /\ ~(t + k - 1 < 0)  BY <1>1
<1>3. Slot(t, k) = IF t + k - 1 < IR_BUF_SIZE THEN t + k - 1 ELSE t + k - 1 - IR_BUF_SIZE
  <2> DEFINE a == t + k - 1
  <2> HIDE DEF a
  <2>1. a \in -IR_BUF_SIZE..2 * IR_BUF_SIZE - 1 /\ ~(a < 0)  BY <1>2 DEF a
  <2>2. a % IR_BUF_SIZE = IF a < IR_BUF_SIZE THEN a ELSE a - IR_BUF_SIZE
    BY <1>1, <2>1, Around
  <2>3. Slot(t, k) = a % IR_BUF_SIZE  BY DEF Slot, a
  <2>4. Slot(t, k) = IF a < IR_BUF_SIZE THEN a ELSE a - IR_BUF_SIZE  BY <2>2, <2>3
  <2> QED  BY <1>1, <2>4 DEF a
<1> QED  BY <1>1, <1>3

LEMMA RingIs ==
  ASSUME NEW buf \in [0..IR_BUF_SIZE - 1 -> Code],
         NEW h \in 0..IR_BUF_SIZE - 1, NEW t \in 0..IR_BUF_SIZE - 1
  PROVE  /\ Ring(buf, h, t) \in Seq(Code)
         /\ Len(Ring(buf, h, t)) = IF h >= t THEN h - t ELSE h - t + IR_BUF_SIZE
         /\ \A k \in 1..Len(Ring(buf, h, t)) : Ring(buf, h, t)[k] = buf[Slot(t, k)]
<1> DEFINE N == IR_BUF_SIZE
           n == (h - t) % N
<1>1. N \in Nat /\ N >= 2  BY ReceiverAssumption
<1>2. n = IF h >= t THEN h - t ELSE h - t + N
  <2>1. h - t \in -N..2 * N - 1 /\ h - t < N /\ (h - t < 0 <=> ~(h >= t))  BY <1>1
  <2>2. n = IF h - t < 0 THEN h - t + N ELSE IF h - t < N THEN h - t ELSE h - t - N
    BY <1>1, <2>1, Around
  <2> QED  BY <2>1, <2>2
<1>3. n \in 0..N - 1  BY <1>1, <1>2
<1>4. Ring(buf, h, t) = [k \in 1..n |-> buf[Slot(t, k)]]  BY DEF Ring, Slot
<1> HIDE DEF n
<1>5. \A k \in 1..n : buf[Slot(t, k)] \in Code
  <2> SUFFICES ASSUME NEW k \in 1..n PROVE buf[Slot(t, k)] \in Code  OBVIOUS
  <2>1. k \in 1..IR_BUF_SIZE  BY <1>1, <1>3
  <2> QED  BY <2>1, SlotIs
<1>6. n \in Nat  BY <1>1, <1>3
<1>7. Ring(buf, h, t) \in Seq(Code) /\ Len(Ring(buf, h, t)) = n  BY <1>4, <1>5, <1>6
<1> QED  BY <1>2, <1>4, <1>7

(* One more code, when there is a slot for it.                              *)
LEMMA PutInRing ==
  ASSUME NEW buf \in [0..IR_BUF_SIZE - 1 -> Code], NEW c \in Code,
         NEW h \in 0..IR_BUF_SIZE - 1, NEW t \in 0..IR_BUF_SIZE - 1, NextSlot(h) # t
  PROVE  /\ Len(Ring(buf, h, t)) < IR_BUF_SIZE - 1
         /\ Ring([buf EXCEPT ![h] = c], NextSlot(h), t) = Append(Ring(buf, h, t), c)
<1> DEFINE N == IR_BUF_SIZE
           new == [buf EXCEPT ![h] = c]
           r == Ring(buf, h, t)
           s == Ring(new, NextSlot(h), t)
<1>1. /\ N \in Nat /\ N >= 2 /\ NextSlot(h) = IF h = N - 1 THEN 0 ELSE h + 1
      /\ NextSlot(h) \in 0..N - 1 /\ new \in [0..N - 1 -> Code]
  BY Slots, SlotsTyped
<1> HIDE DEF new
<1>2. /\ r \in Seq(Code) /\ Len(r) = IF h >= t THEN h - t ELSE h - t + N
      /\ \A k \in 1..Len(r) : r[k] = buf[Slot(t, k)]
  BY RingIs
<1>3. /\ s \in Seq(Code)
      /\ Len(s) = IF NextSlot(h) >= t THEN NextSlot(h) - t ELSE NextSlot(h) - t + N
      /\ \A k \in 1..Len(s) : s[k] = new[Slot(t, k)]
  BY <1>1, RingIs
<1> HIDE DEF r, s
<1>4. Len(r) \in Nat /\ Len(r) < N - 1 /\ Len(s) = Len(r) + 1  BY <1>1, <1>2, <1>3
<1>5. /\ Append(r, c) \in Seq(Code) /\ Len(Append(r, c)) = Len(r) + 1
      /\ \A k \in 1..Len(r) : Append(r, c)[k] = r[k]
      /\ Append(r, c)[Len(r) + 1] = c
  BY <1>2
<1>6. ASSUME NEW k \in 1..Len(s) PROVE s[k] = Append(r, c)[k]
  <2>1. k \in 1..IR_BUF_SIZE /\ s[k] = new[Slot(t, k)]  BY <1>1, <1>3, <1>4
  <2>2. Slot(t, k) \in 0..N - 1
        /\ Slot(t, k) = IF t + k - 1 < N THEN t + k - 1 ELSE t + k - 1 - N
    BY <2>1, SlotIs
  <2>3. CASE k = Len(r) + 1
    <3>1. Slot(t, k) = h  BY <1>1, <1>2, <2>2, <2>3
    <3> QED  BY <1>5, <2>1, <2>3, <3>1 DEF new
  <2>4. CASE k # Len(r) + 1
    <3>1. k \in 1..Len(r)  BY <1>4, <2>4
    <3>2. Slot(t, k) # h  BY <1>1, <1>2, <2>2, <3>1
    <3> QED  BY <1>2, <1>5, <2>1, <2>2, <3>1, <3>2 DEF new
  <2> QED  BY <2>3, <2>4
<1>7. s = Append(r, c)  BY <1>3, <1>4, <1>5, <1>6, SeqEqual
<1> QED  BY <1>4, <1>7 DEF r, s, new

(* The oldest code goes.                                                    *)
LEMMA TakeFromRing ==
  ASSUME NEW buf \in [0..IR_BUF_SIZE - 1 -> Code],
         NEW h \in 0..IR_BUF_SIZE - 1, NEW t \in 0..IR_BUF_SIZE - 1, h # t
  PROVE  /\ Ring(buf, h, t) # << >> /\ Head(Ring(buf, h, t)) = buf[t]
         /\ Ring(buf, h, NextSlot(t)) = Tail(Ring(buf, h, t))
<1> DEFINE N == IR_BUF_SIZE
           r == Ring(buf, h, t)
           s == Ring(buf, h, NextSlot(t))
<1>1. /\ N \in Nat /\ N >= 2 /\ NextSlot(t) = IF t = N - 1 THEN 0 ELSE t + 1
      /\ NextSlot(t) \in 0..N - 1
  BY Slots, SlotsTyped
<1>2. /\ r \in Seq(Code) /\ Len(r) = IF h >= t THEN h - t ELSE h - t + N
      /\ \A k \in 1..Len(r) : r[k] = buf[Slot(t, k)]
  BY RingIs
<1>3. /\ s \in Seq(Code)
      /\ Len(s) = IF h >= NextSlot(t) THEN h - NextSlot(t) ELSE h - NextSlot(t) + N
      /\ \A k \in 1..Len(s) : s[k] = buf[Slot(NextSlot(t), k)]
  BY <1>1, RingIs
<1> HIDE DEF r, s
<1>4. Len(r) \in Nat /\ Len(r) >= 1 /\ Len(r) < N /\ Len(s) = Len(r) - 1
  <2>1. /\ Len(r) = IF h >= t THEN h - t ELSE h - t + N
        /\ Len(s) = IF h >= NextSlot(t) THEN h - NextSlot(t) ELSE h - NextSlot(t) + N
    BY <1>2, <1>3
  <2> HIDE DEF N
  <2> QED  BY <1>1, <2>1 DEF N
<1>5. r # << >>  BY <1>4
<1>6. Head(r) = buf[t]
  <2>1. 1 \in 1..Len(r) /\ 1 \in 1..IR_BUF_SIZE  BY <1>1, <1>4
  <2>2. Slot(t, 1) = t  BY <1>1, <2>1, SlotIs
  <2>3. r[1] = buf[t]  BY <1>2, <2>1, <2>2
  <2> QED  BY <1>2, <1>5, <2>3
<1>7. /\ Tail(r) \in Seq(Code) /\ Len(Tail(r)) = Len(r) - 1
      /\ \A i \in 1..Len(Tail(r)) : Tail(r)[i] = r[i + 1]
  BY <1>2, <1>5, HeadTailProperties
<1>8. ASSUME NEW k \in 1..Len(s) PROVE s[k] = Tail(r)[k]
  <2>1. k \in 1..IR_BUF_SIZE /\ k + 1 \in 1..Len(r) /\ k + 1 \in 1..IR_BUF_SIZE
        /\ k \in 1..Len(Tail(r))
    BY <1>1, <1>4, <1>7
  <2>2. Slot(NextSlot(t), k) = Slot(t, k + 1)
    <3>1. Slot(NextSlot(t), k) = IF NextSlot(t) + k - 1 < N THEN NextSlot(t) + k - 1
                                 ELSE NextSlot(t) + k - 1 - N
      BY <1>1, <2>1, SlotIs
    <3>2. Slot(t, k + 1) = IF t + (k + 1) - 1 < N THEN t + (k + 1) - 1
                           ELSE t + (k + 1) - 1 - N
      BY <1>1, <2>1, SlotIs
    <3> QED  BY <1>1, <1>4, <2>1, <3>1, <3>2
  <2>3. s[k] = buf[Slot(t, k + 1)]  BY <1>3, <2>2
  <2>4. r[k + 1] = buf[Slot(t, k + 1)]  BY <1>2, <2>1
  <2> QED  BY <1>7, <2>1, <2>3, <2>4
<1>9. s = Tail(r)  BY <1>3, <1>4, <1>7, <1>8, SeqEqual
<1> QED  BY <1>5, <1>6, <1>9 DEF r, s

LEMMA StoreIsReceive ==
  ASSUME TypeOK, Store, irData \in Button, UNCHANGED got
  PROVE  Queue!Receive
<1> DEFINE new == [irBuffer EXCEPT ![headIrBuffer] = irData]
           N == IR_BUF_SIZE
<1>1. /\ irBuffer \in [0..N - 1 -> Code] /\ irData \in Code
      /\ headIrBuffer \in 0..N - 1 /\ tailIrBuffer \in 0..N - 1
      /\ irBuffer' = new /\ headIrBuffer' = NextSlot(headIrBuffer)
      /\ NextSlot(headIrBuffer) \in 0..N - 1 /\ N \in Nat /\ N >= 2
  BY SlotsTyped, Slots DEF TypeOK, Store
<1>2. new \in [0..N - 1 -> Code]  BY <1>1
<1>3. Contents = Ring(irBuffer, headIrBuffer, tailIrBuffer)
      /\ Contents' = Ring(irBuffer', headIrBuffer', tailIrBuffer')
  BY DEF Contents, Ring
<1> HIDE DEF new
<1>4. CASE NextSlot(headIrBuffer) # tailIrBuffer
  <2>1. tailIrBuffer' = tailIrBuffer  BY <1>4 DEF Store, Advance
  <2>2. Len(Contents) < N - 1 /\ Contents' = Append(Contents, irData)
    BY <1>1, <1>3, <1>4, <2>1, PutInRing DEF new
  <2> QED  BY <2>2 DEF Queue!Receive, Queue!Stored, Button
<1>5. CASE NextSlot(headIrBuffer) = tailIrBuffer
  <2> DEFINE t == NextSlot(tailIrBuffer)
  <2>1. tailIrBuffer' = t  BY <1>5 DEF Store, Advance, NextSlot
  <2>2. t \in 0..N - 1 /\ NextSlot(headIrBuffer) # t
        /\ headIrBuffer # tailIrBuffer
    BY <1>1, <1>5, Slots
  <2>3. Len(Contents) = N - 1
    <3>1. Len(Contents) = IF headIrBuffer >= tailIrBuffer THEN headIrBuffer - tailIrBuffer
                          ELSE headIrBuffer - tailIrBuffer + N
      BY <1>1, <1>3, RingIs
    <3> QED  BY <1>1, <1>5, <3>1, Slots
  <2> HIDE DEF t
  <2>4. Ring(irBuffer, headIrBuffer, t) = Tail(Contents)
    BY <1>1, <1>3, <2>2, TakeFromRing DEF t
  <2>5. Ring(new, NextSlot(headIrBuffer), t) = Append(Ring(irBuffer, headIrBuffer, t), irData)
    BY <1>1, <2>2, PutInRing DEF new
  <2>6. Contents' = Append(Tail(Contents), irData)  BY <1>1, <1>3, <2>1, <2>4, <2>5
  <2>7. ~(Len(Contents) < N - 1)  BY <1>1, <2>3
  <2> QED  BY <2>6, <2>7 DEF Queue!Receive, Queue!Stored, Button
<1> QED  BY <1>4, <1>5

LEMMA NextIsQueueStep ==
  ASSUME ReceiverInv, Next
  PROVE  [Queue!Next]_<<Contents, got>>
<1>1. TypeOK /\ BurstInv /\ DecoderInv /\ Reading  BY DEF ReceiverInv
<1>2. /\ irBuffer \in [0..IR_BUF_SIZE - 1 -> Code]
      /\ headIrBuffer \in 0..IR_BUF_SIZE - 1 /\ tailIrBuffer \in 0..IR_BUF_SIZE - 1
  BY <1>1 DEF TypeOK
<1>3. UNCHANGED ring => Contents' = Contents  BY DEF ring, Contents
<1>4. CASE Send \/ Edge \/ ReadCalled \/ ReadSlot
  BY <1>3, <1>4 DEF Send, Edge, ReadCalled, ReadSlot
<1>5. CASE irISR
  <2>1. UNCHANGED got  BY <1>5 DEF irISR
  <2>2. CASE GoodMark /\ Complete
    <3>1. Store /\ isrState \in {"REPEAT_INCOMING", "NORMAL_INCOMING"}
      BY <2>2 DEF GoodMark, Complete
    <3>2. irData \in Button
      <4>1. heard # 0  BY <2>2, <1>5, HandlerHandles DEF GoodMark
      <4>2. heard > 0  BY <1>5, <4>1, HandlerHandles DEF Handles
      <4>3. CASE isrState = "REPEAT_INCOMING"
        BY <1>1, <4>2, <4>3 DEF DecoderInv, InRepeat, Button
      <4>4. CASE isrState = "NORMAL_INCOMING"
        <5>1. sending \in RemoteCode /\ irData = FirstBits(FRAME_SIZE)
          BY <1>1, <2>2, <4>2, <4>4 DEF DecoderInv, InBits, Complete
        <5> QED  BY <5>1, AllBits, ReceiverAssumption DEF Button
      <4> QED  BY <3>1, <4>3, <4>4
    <3> QED  BY <1>1, <2>1, <3>1, <3>2, StoreIsReceive DEF Queue!Next
  <2>3. CASE ~(GoodMark /\ Complete)
    <3>1. UNCHANGED ring
      BY <1>5, <2>3 DEF irISR, MarkInWait, GoodMark, BadMark, SpaceInHeader, SpaceInBits,
                        SpaceElsewhere
    <3> QED  BY <1>3, <2>1, <3>1
  <2> QED  BY <2>2, <2>3
<1>6. CASE ReadEmpty
  <2>1. headIrBuffer = tailIrBuffer /\ got' = Zero /\ UNCHANGED ring  BY <1>6 DEF ReadEmpty
  <2>2. Len(Contents) = 0 /\ Contents \in Seq(Code)
    <3>1. Contents = Ring(irBuffer, headIrBuffer, tailIrBuffer)  BY DEF Contents, Ring
    <3> QED  BY <1>2, <2>1, <3>1, RingIs
  <2>3. Contents = << >>  BY <2>2, EmptySeq
  <2> QED  BY <1>3, <2>1, <2>3 DEF Queue!Next, Queue!ReadNothing
<1>7. CASE ReadAdvance
  <2>1. /\ headIrBuffer # tailIrBuffer /\ got' = irBuffer[tailIrBuffer]
        /\ tailIrBuffer' = NextSlot(tailIrBuffer) /\ UNCHANGED <<irBuffer, headIrBuffer>>
    BY <1>1, <1>7 DEF ReadAdvance, Reading
  <2>2. Contents = Ring(irBuffer, headIrBuffer, tailIrBuffer)
        /\ Contents' = Ring(irBuffer', headIrBuffer', tailIrBuffer')
    BY DEF Contents, Ring
  <2>3. Contents # << >> /\ Head(Contents) = irBuffer[tailIrBuffer] /\ Contents' = Tail(Contents)
    BY <1>2, <2>1, <2>2, TakeFromRing
  <2> QED  BY <2>1, <2>3 DEF Queue!Next, Queue!Read
<1> QED  BY <1>4, <1>5, <1>6, <1>7 DEF Next

LEMMA QueueInit == ASSUME Init PROVE Queue!Init
<1>1. TypeOK /\ headIrBuffer = tailIrBuffer /\ got = Zero
  BY ReceiverInvInit DEF ReceiverInv, Init
<1>2. Contents = Ring(irBuffer, headIrBuffer, tailIrBuffer)  BY DEF Contents, Ring
<1>3. Len(Contents) = 0 /\ Contents \in Seq(Code)  BY <1>1, <1>2, RingIs DEF TypeOK
<1>4. Contents = << >>  BY <1>3, EmptySeq
<1> QED  BY <1>1, <1>4 DEF Queue!Init

(* Whatever the edges of the pin interrupt, read() and the handler work on  *)
(* one queue of the last codes: none is returned twice, out of order or     *)
(* mixed with another (247-253 and 297-309).                                *)
THEOREM RingIsAQueue == Spec => IsAQueue
<1>1. Init => ReceiverInv  BY ReceiverInvInit
<1>2. ReceiverInv /\ [Next]_vars => ReceiverInv'  BY ReceiverInvStep
<1>3. Init => Queue!Init  BY QueueInit
<1>4. ReceiverInv /\ [Next]_vars => [Queue!Next]_<<Contents, got>>
  <2>1. UNCHANGED vars => UNCHANGED <<Contents, got>>  BY DEF vars, ring, Contents
  <2> QED  BY <2>1, NextIsQueueStep
<1> QED  BY <1>1, <1>2, <1>3, <1>4, PTL DEF Spec, IsAQueue, Queue!Spec
-----------------------------------------------------------------------------
(* The waits of the program. *)
At(places) == call.fn = "pulseInLong" /\ call.at \in places
Places == {"previous", "previous?", "wait", "wait?", "start", "pulse", "pulse?", "end"}

Functions == {"none", "delay", "pulseInLong", "delayMicroseconds", "delay2"}
AllPlaces == Places \cup {"none", "startMicros", "return", "loop"}
Call == [fn : Functions, at : AllPlaces, arg : Nat, left : Nat,
         startMicros : 0..Wrap - 1, start : 0..Wrap - 1, value : Int]
Types ==
  /\ now \in 0..Wrap - 1 /\ idle \in 0..Lag /\ pin \in BOOLEAN
  /\ age \in 0..MaxAge /\ waited \in 0..MaxAge /\ width \in {NoWidth} \cup 0..MaxAge
  /\ call \in Call
  /\ call.fn = "pulseInLong" => call.arg \in Timeouts /\ At({"startMicros", "return"} \cup Places)

(* How many steps the program can be beyond the timeout at each place.      *)
(* Since is what the checks look at: as it is below Wrap at each of them,   *)
(* it has not gone round.                                                   *)
Since == Elapsed(call.startMicros)
StepsBeyond(n) == Since <= call.arg + n * Lag + idle
Timing ==
  /\ At({"startMicros"}) => waited <= idle
  /\ At(Places) => Since <= waited /\ waited <= Since + Lag
  /\ At({"previous"}) => StepsBeyond(0)
  /\ At({"previous?", "wait"}) => StepsBeyond(1)
  /\ At({"wait?", "start"}) => StepsBeyond(2)
  /\ At({"pulse"}) => StepsBeyond(3)
  /\ At({"pulse?", "end"}) => StepsBeyond(4)
  /\ At({"return"}) => waited <= call.arg + 6 * Lag + idle

(* Where the pulse that is measured is: it rose in the call, after the last *)
(* time the pin was seen low, and fell, if it did, after the last time it   *)
(* was seen high.  Measured counts from the step after it was seen to rise. *)
Measured == Elapsed(call.start)
Rose == pin /\ age <= waited
Fell == ~pin /\ width # NoWidth
Measuring ==
  /\ At({"start", "pulse", "pulse?", "end"}) => idle <= Since
  /\ At({"pulse", "pulse?", "end"}) => Measured <= Since
  /\ At({"wait?"}) /\ pin => Rose /\ age <= idle
  /\ At({"wait"}) /\ pin => Rose /\ age <= Lag + idle
  /\ At({"start"}) =>
       \/ Rose /\ age \in idle..(2 * Lag + idle)
       \/ Fell /\ age <= idle /\ width + age \in idle..(2 * Lag + idle)
  /\ At({"pulse", "pulse?"}) =>
       \/ Rose /\ age \in Measured..(Measured + 3 * Lag)
       \/ /\ Fell /\ width + age \in Measured..(Measured + 3 * Lag)
          /\ age <= (IF call.at = "pulse" THEN Lag ELSE 0) + idle
  /\ At({"end"}) =>
       /\ width # NoWidth /\ width \in (Measured - 2 * Lag - idle)..(Measured + 3 * Lag)
       /\ pin => age <= idle
  /\ At({"return"}) /\ call.value # 0 =>
       /\ width # NoWidth /\ call.value \in (width - 3 * Lag)..(width + 3 * Lag)
       /\ pin => age <= Lag + idle

Busy == call.fn = "delayMicroseconds" =>
          /\ call.arg \in 0..IntSize - 1
          /\ call.at = "return" => call.value = Cycles(call.arg)

WaitsInv == Types /\ Timing /\ Measuring /\ Busy

-----------------------------------------------------------------------------
(* The constants, and a counter that goes round.                            *)

LEMMA Numbers ==
  /\ Wrap \in Nat \ {0} /\ Lag \in Nat \ {0} /\ MinLevel \in Nat /\ MaxAge \in Nat \ {0}
  /\ MinLevel > 2 * Lag /\ MinLevel <= MaxAge /\ Ms \in Nat \ {0}
  /\ \A t \in Timeouts : t \in Nat /\ t + 5 * Lag < Wrap /\ t + 7 * Lag < MaxAge
BY WaitsAssumption

LEMMA WordsAreNumbers == IntSize \in Nat /\ IntSize % 4 = 0 /\ IntSize > 8
BY WaitsAssumption

LEMMA RestOf ==
  ASSUME NEW s \in Nat \ {0}, NEW n \in Int
  PROVE  /\ n % s \in 0..s - 1
         /\ n \in 0..s - 1 => n % s = n
         /\ n \in -s..-1 => n % s = n + s
<1>1. n % s \in 0..s - 1 /\ (n \in 0..s - 1 => n % s = n)  OBVIOUS
<1>2. ASSUME n \in -s..-1 PROVE n % s = n + s
  <2>1. n = (-1) * s + (n + s) /\ n + s \in 0..s - 1  BY <1>2
  <2>2. \A a \in Int, q \in Int, r \in 0..s - 1 : a = q * s + r => a % s = r  OBVIOUS
  <2> QED  BY <2>1, <2>2
<1> QED  BY <1>1, <1>2

LEMMA CounterIs ==
  ASSUME NEW n \in 0..Wrap - 1, NEW t \in 0..Wrap - 1
  PROVE  /\ (n - t) % Wrap = IF n >= t THEN n - t ELSE n - t + Wrap
         /\ (n + 1) % Wrap = IF n + 1 < Wrap THEN n + 1 ELSE 0
<1>1. Wrap \in Nat \ {0}  BY Numbers
<1>2. n - t \in Int /\ n - t \in -Wrap..Wrap - 1 /\ n + 1 \in Int  BY <1>1
<1>3. (n - t) % Wrap = IF n >= t THEN n - t ELSE n - t + Wrap
  <2> DEFINE d == n - t
  <2>1. d \in Int /\ (n >= t => d \in 0..Wrap - 1) /\ (~(n >= t) => d \in -Wrap..-1)
    BY <1>1, <1>2
  <2> HIDE DEF d
  <2>2. d % Wrap = IF n >= t THEN d ELSE d + Wrap  BY <1>1, <2>1, RestOf
  <2> QED  BY <2>2 DEF d
<1>4. (n + 1) % Wrap = IF n + 1 < Wrap THEN n + 1 ELSE 0
  <2>1. CASE n + 1 < Wrap
    <3>1. n + 1 \in 0..Wrap - 1  BY <1>1, <2>1
    <3> QED  BY <1>1, <1>2, <2>1, <3>1, RestOf
  <2>2. CASE n + 1 = Wrap
    <3>1. Wrap % Wrap = 0  BY <1>1
    <3> QED  BY <2>2, <3>1
  <2> QED  BY <1>1, <2>1, <2>2
<1> QED  BY <1>3, <1>4

LEMMA ElapsedIs ==
  ASSUME Types, NEW t \in 0..Wrap - 1
  PROVE  Elapsed(t) \in 0..Wrap - 1 /\ Elapsed(now) = 0
<1>1. Wrap \in Nat \ {0} /\ now \in 0..Wrap - 1 /\ now - t \in Int /\ now - now = 0
  BY Numbers DEF Types
<1>2. (now - t) % Wrap \in 0..Wrap - 1 /\ 0 % Wrap = 0  BY <1>1, RestOf
<1> QED  BY <1>1, <1>2 DEF Elapsed

LEMMA ElapsedGrows ==
  ASSUME Types, Tick, NEW t \in 0..Wrap - 1, Elapsed(t) + 1 < Wrap
  PROVE  Elapsed(t)' = Elapsed(t) + 1
<1>1. now \in 0..Wrap - 1 /\ now' = (now + 1) % Wrap /\ Wrap \in Nat \ {0}
  BY Numbers DEF Types, Tick
<1>2. Elapsed(t) = IF now >= t THEN now - t ELSE now - t + Wrap  BY <1>1, CounterIs DEF Elapsed
<1>3. now' = IF now + 1 < Wrap THEN now + 1 ELSE 0  BY <1>1, CounterIs
<1>4. now' \in 0..Wrap - 1  BY <1>1, <1>3
<1>5. Elapsed(t)' = IF now' >= t THEN now' - t ELSE now' - t + Wrap
  BY <1>4, CounterIs DEF Elapsed
<1> QED  BY <1>1, <1>2, <1>3, <1>5

-----------------------------------------------------------------------------
(* Time and the pin.                                                        *)

LEMMA TickKeeps == WaitsInv /\ Tick => WaitsInv'
<1> SUFFICES ASSUME WaitsInv, Tick PROVE WaitsInv'  OBVIOUS
<1>1. Types /\ Timing /\ Measuring /\ Busy  BY DEF WaitsInv
<1>2. UNCHANGED <<call, pin, width>>  BY DEF Tick
<1>3. Lag \in Nat \ {0} /\ MaxAge \in Nat \ {0} /\ Wrap \in Nat \ {0}  BY Numbers
<1>4. Types'
  <2>1. now' \in 0..Wrap - 1  BY <1>1, <1>3, RestOf DEF Types, Tick
  <2>2. idle' \in 0..Lag  BY <1>1, <1>3 DEF Types, Tick
  <2>3. age' \in 0..MaxAge /\ waited' \in 0..MaxAge  BY <1>1, <1>3 DEF Types, Tick, Capped
  <2> QED  BY <1>1, <1>2, <2>1, <2>2, <2>3 DEF Types, Call, At
<1>5. CASE call.fn # "pulseInLong"
  BY <1>1, <1>2, <1>4, <1>5 DEF WaitsInv, Timing, Measuring, Busy, At
<1>6. CASE call.fn = "pulseInLong"
  <2>1. idle < Lag /\ idle' = idle + 1 /\ idle \in Nat  BY <1>1, <1>6 DEF Tick, Types
  <2>2. call.arg \in Nat /\ call.arg + 5 * Lag < Wrap /\ call.arg + 7 * Lag < MaxAge
    BY <1>1, <1>6, Numbers DEF Types
  <2>3. Since \in Nat /\ Measured \in Nat  BY <1>1, ElapsedIs DEF Since, Measured, Types, Call
  <2>4. At(Places) => Since <= call.arg + 4 * Lag + idle
    BY <1>1, <1>3, <2>1, <2>2, <2>3 DEF Timing, StepsBeyond, At, Places
  <2>5. At(Places) => Since' = Since + 1
    <3>1. At(Places) => Since + 1 < Wrap  BY <1>3, <2>1, <2>2, <2>3, <2>4
    <3> QED  BY <1>1, <1>2, <3>1, ElapsedGrows DEF Since, Elapsed, Types, Call
  <2>6. At({"pulse", "pulse?", "end"}) => Measured' = Measured + 1
    <3>1. At({"pulse", "pulse?", "end"}) => Measured + 1 < Wrap
      BY <1>1, <1>3, <2>1, <2>2, <2>3, <2>4 DEF Measuring, At, Places
    <3> QED  BY <1>1, <1>2, <3>1, ElapsedGrows DEF Measured, Elapsed, Types, Call
  <2>7. waited < MaxAge
    BY <1>1, <1>3, <1>6, <2>1, <2>2, <2>3, <2>4 DEF Timing, At, Places, Types
  <2>8. waited' = waited + 1 /\ waited \in Nat  BY <1>1, <1>3, <1>6, <2>7 DEF Tick, Capped, Types
  <2>9. age' \in Nat /\ age \in Nat /\ (age < MaxAge => age' = age + 1) /\ age' <= age + 1
    BY <1>1, <1>3, <1>6 DEF Tick, Capped, Types
  <2>10. Timing'
    BY <1>1, <1>2, <1>3, <2>1, <2>2, <2>3, <2>5, <2>8 DEF Timing, StepsBeyond, At, Places
  <2>11. Measuring'
    BY <1>1, <1>2, <1>3, <2>1, <2>2, <2>3, <2>5, <2>6, <2>7, <2>8, <2>9
    DEF Measuring, At, Places, Rose, Fell, Types
  <2> QED  BY <1>1, <1>2, <1>4, <1>6, <2>10, <2>11 DEF WaitsInv, Busy
<1> QED  BY <1>5, <1>6

LEMMA PinKeeps == WaitsInv /\ PinChanges => WaitsInv'
<1> SUFFICES ASSUME WaitsInv, PinChanges PROVE WaitsInv'  OBVIOUS
<1>1. Types /\ Timing /\ Measuring /\ Busy  BY DEF WaitsInv
<1>2. /\ call.fn = "pulseInLong" /\ age >= MinLevel /\ pin' = ~pin /\ age' = 0
      /\ width' = (IF pin /\ age <= waited THEN age ELSE width)
      /\ UNCHANGED <<now, idle, call, waited>>
  BY DEF PinChanges
<1>3. /\ Lag \in Nat \ {0} /\ MinLevel \in Nat /\ MinLevel > 2 * Lag
      /\ age \in Nat /\ idle \in 0..Lag /\ waited \in Nat /\ pin \in BOOLEAN
      /\ width \in {NoWidth} \cup Nat
  BY <1>1, Numbers DEF Types
<1>4. Types'
  <2>1. pin' \in BOOLEAN /\ age' \in 0..MaxAge /\ width' \in {NoWidth} \cup 0..MaxAge
    BY <1>1, <1>2, <1>3, Numbers DEF Types
  <2> QED  BY <1>1, <1>2, <2>1 DEF Types, At
<1>5. Since' = Since /\ Measured' = Measured /\ (At(Places) => Since \in Nat) /\ Measured \in Nat
  BY <1>1, <1>2, ElapsedIs DEF Since, Measured, Elapsed, Types, Call
<1>6. Timing'  BY <1>1, <1>2, <1>5 DEF Timing, StepsBeyond, At
<1>7. age > 2 * Lag /\ age # NoWidth  BY <1>2, <1>3 DEF NoWidth
<1>8. Measuring'
  <2>1. CASE pin
    <3>1. ~pin' /\ age' = 0 /\ (age <= waited => width' = age)  BY <1>2, <2>1
    <3>2. ~At({"wait", "wait?", "end"}) /\ (At({"return"}) => call.value = 0)
      BY <1>1, <1>3, <1>7, <2>1 DEF Measuring, At, Rose
    <3>3. At({"start"}) => (At({"start"}) /\ Fell /\ age <= idle
                               /\ width + age \in idle..(2 * Lag + idle))'
      BY <1>1, <1>2, <1>3, <1>7, <2>1, <3>1 DEF Measuring, At, Rose, Fell
    <3>4. At({"pulse", "pulse?"}) =>
            (/\ At({"pulse", "pulse?"}) /\ Fell
             /\ width + age \in Measured..(Measured + 3 * Lag)
             /\ age <= (IF call.at = "pulse" THEN Lag ELSE 0) + idle)'
      BY <1>1, <1>2, <1>3, <1>5, <1>7, <2>1, <3>1 DEF Measuring, At, Rose, Fell
    <3> QED
      BY <1>1, <1>2, <1>3, <1>5, <3>1, <3>2, <3>3, <3>4 DEF Measuring, At
  <2>2. CASE ~pin
    <3>1. pin' /\ age' = 0 /\ width' = width  BY <1>2, <2>2
    <3>2. ~At({"start", "pulse", "pulse?"})
      BY <1>1, <1>3, <1>7, <2>2 DEF Measuring, At, Rose, Fell
    <3> QED
      BY <1>1, <1>2, <1>3, <1>5, <2>2, <3>1, <3>2 DEF Measuring, At, Rose
  <2> QED  BY <2>1, <2>2
<1> QED  BY <1>1, <1>2, <1>4, <1>6, <1>8 DEF WaitsInv, Busy

-----------------------------------------------------------------------------
(* The steps of pulseInLong().                                              *)

(* What every step of a call has in common.                                 *)
SameTime == UNCHANGED <<now, pin, age, waited, width>>
Leads(at, start, value) ==
  /\ call'.fn = "pulseInLong" /\ call'.at = at /\ call'.arg = call.arg
  /\ call'.startMicros = call.startMicros /\ call'.start = start /\ call'.value = value
  /\ call' \in Call /\ idle' = 0 /\ SameTime

LEMMA TypesKeep ==
  ASSUME Types, call' \in Call, idle' = 0, SameTime,
         call'.fn = "pulseInLong" =>
           call'.arg \in Timeouts /\ call'.at \in {"startMicros", "return"} \cup Places
  PROVE  Types'
BY Numbers DEF Types, SameTime, At

(* A step of pulseInLong() that keeps its counters, and one that starts     *)
(* them.                                                                    *)
LEMMA CountersKeep ==
  ASSUME Types, SameTime, call'.startMicros = call.startMicros
  PROVE  Since' = Since /\ (call'.start = call.start => Measured' = Measured)
         /\ Since \in Nat /\ Measured \in Nat
BY ElapsedIs DEF Types, Call, SameTime, Since, Measured, Elapsed

LEMMA ReturningLeads ==
  ASSUME call \in Call, call.fn = "pulseInLong", NEW v \in Int, call' = Returns(v),
         idle' = 0, SameTime
  PROVE  Leads("return", call.start, v)
<1>1. "return" \in AllPlaces  BY DEF AllPlaces
<1> QED  BY <1>1 DEF Returns, Call, Leads

LEMMA PulseReadsKeeps ==
  ASSUME WaitsInv, NEW loop \in Loop, PulseReads(loop)
  PROVE  WaitsInv'
<1>1. Types /\ Timing /\ Measuring /\ Busy  BY DEF WaitsInv
<1>2. At({loop}) /\ Leads(IF Stays(loop) THEN Check(loop) ELSE After(loop), call.start, call.value)
  <2>1. call.fn = "pulseInLong" /\ call.at = loop /\ idle' = 0 /\ SameTime
    BY DEF PulseReads, Step, SameTime
  <2>2. call' = [call EXCEPT !.at = IF Stays(loop) THEN Check(loop) ELSE After(loop)]
    BY DEF PulseReads, Step
  <2>3. (IF Stays(loop) THEN Check(loop) ELSE After(loop)) \in AllPlaces
    BY DEF Loop, Check, After, AllPlaces, Places
  <2> QED  BY <1>1, <2>1, <2>2, <2>3 DEF Types, Call, Leads, At
<1>3. /\ Lag \in Nat \ {0} /\ age \in Nat /\ idle \in 0..Lag /\ waited \in Nat
      /\ pin \in BOOLEAN /\ width \in {NoWidth} \cup Nat /\ call.arg \in Nat
  BY <1>1, Numbers DEF Types, Call
<1>4. /\ Since' = Since /\ Measured' = Measured /\ Since \in Nat /\ Measured \in Nat
      /\ UNCHANGED <<pin, age, waited, width>> /\ idle' = 0 /\ call'.arg = call.arg
      /\ call'.fn = "pulseInLong" /\ call.fn = "pulseInLong"
  BY <1>1, <1>2, CountersKeep DEF Leads, SameTime, At
<1>5. \/ /\ call.at = "previous"
         /\ IF pin THEN call'.at = "previous?" ELSE call'.at = "wait"
      \/ /\ call.at = "wait"
         /\ IF pin THEN call'.at = "start" ELSE call'.at = "wait?"
      \/ /\ call.at = "pulse"
         /\ IF pin THEN call'.at = "pulse?" ELSE call'.at = "end"
  BY <1>2 DEF Leads, At, Loop, Stays, Check, After
<1>6. Types'
  BY <1>1, <1>2, <1>4, <1>5, TypesKeep DEF Leads, Types, Places, At
<1>7. Timing'
  BY <1>1, <1>3, <1>4, <1>5 DEF Timing, StepsBeyond, At, Places
<1>8. Measuring'
  <2>1. CASE call.at = "previous"
    BY <1>1, <1>3, <1>4, <1>5, <2>1 DEF Measuring, At, Rose
  <2>2. CASE call.at = "wait"
    BY <1>1, <1>3, <1>4, <1>5, <2>2 DEF Measuring, At, Rose, Timing
  <2>3. CASE call.at = "pulse"
    BY <1>1, <1>3, <1>4, <1>5, <2>3 DEF Measuring, At, Rose, Fell
  <2> QED  BY <1>5, <2>1, <2>2, <2>3
<1> QED  BY <1>4, <1>6, <1>7, <1>8 DEF WaitsInv, Busy

LEMMA PulseChecksKeeps ==
  ASSUME WaitsInv, NEW loop \in Loop, PulseChecks(loop)
  PROVE  WaitsInv'
<1>1. Types /\ Timing /\ Measuring /\ Busy  BY DEF WaitsInv
<1>2. /\ At({Check(loop)})
      /\ \/ TimedOut(loop) /\ Leads("return", call.start, 0)
         \/ ~TimedOut(loop) /\ Leads(loop, call.start, call.value)
  <2>1. call.fn = "pulseInLong" /\ call.at = Check(loop) /\ idle' = 0 /\ SameTime
    BY DEF PulseChecks, Step, SameTime
  <2>2. call' = IF TimedOut(loop) THEN [call EXCEPT !.at = "return", !.value = 0]
                                  ELSE [call EXCEPT !.at = loop]
    BY DEF PulseChecks, Step, Returns
  <2>3. loop \in AllPlaces /\ "return" \in AllPlaces  BY DEF Loop, AllPlaces, Places
  <2>4. CASE TimedOut(loop)
    <3>1. call' = [call EXCEPT !.at = "return", !.value = 0]  BY <2>2, <2>4
    <3>2. Leads("return", call.start, 0)
      <4>1. call \in Call /\ call' = Returns(0)  BY <1>1, <3>1 DEF Types, Returns
      <4> QED  BY <2>1, <4>1, ReturningLeads
    <3> QED  BY <2>1, <2>4, <3>2 DEF At
  <2>5. CASE ~TimedOut(loop)
    <3>1. call' = [call EXCEPT !.at = loop]  BY <2>2, <2>5
    <3> QED  BY <1>1, <2>1, <2>3, <2>5, <3>1 DEF Types, Call, Leads, At
  <2> QED  BY <2>4, <2>5
<1>3. /\ Lag \in Nat \ {0} /\ age \in Nat /\ idle \in 0..Lag /\ waited \in Nat
      /\ pin \in BOOLEAN /\ width \in {NoWidth} \cup Nat /\ call.arg \in Nat
  BY <1>1, Numbers DEF Types, Call
<1>4. /\ Since' = Since /\ Measured' = Measured /\ Since \in Nat /\ Measured \in Nat
      /\ UNCHANGED <<pin, age, waited, width>> /\ idle' = 0 /\ call'.arg = call.arg
      /\ call'.fn = "pulseInLong" /\ call.fn = "pulseInLong"
  BY <1>1, <1>2, CountersKeep DEF Leads, SameTime, At
<1>5. /\ <<call.at, loop>> \in {<<"previous?", "previous">>, <<"wait?", "wait">>,
                               <<"pulse?", "pulse">>}
      /\ \/ call'.at = "return" /\ call'.value = 0
         \/ call'.at = loop /\ Since <= call.arg
  BY <1>2, <1>3, <1>4 DEF Leads, At, Loop, Check, TimedOut, Since
<1>6. Types'
  BY <1>1, <1>2, <1>4, <1>5, TypesKeep DEF Leads, Types, Places, At
<1>7. Timing'
  BY <1>1, <1>3, <1>4, <1>5 DEF Timing, StepsBeyond, At, Places
<1>8. Measuring'
  <2>1. CASE call'.at = "return"
    BY <1>5, <2>1 DEF Measuring, At
  <2>2. CASE call'.at = loop /\ loop = "previous"
    BY <1>1, <1>3, <1>4, <1>5, <2>2 DEF Measuring, At, Rose
  <2>3. CASE call'.at = loop /\ loop = "wait"
    BY <1>1, <1>3, <1>4, <1>5, <2>3 DEF Measuring, At, Rose
  <2>4. CASE call'.at = loop /\ loop = "pulse"
    BY <1>1, <1>3, <1>4, <1>5, <2>4 DEF Measuring, At, Rose, Fell
  <2> QED  BY <1>5, <2>1, <2>2, <2>3, <2>4
<1> QED  BY <1>4, <1>6, <1>7, <1>8 DEF WaitsInv, Busy

LEMMA PulseStartsKeeps == WaitsInv /\ PulseStarts => WaitsInv'
<1> SUFFICES ASSUME WaitsInv, PulseStarts PROVE WaitsInv'  OBVIOUS
<1>1. Types /\ Timing /\ Busy  BY DEF WaitsInv
<1>2. /\ At({"startMicros"}) /\ idle' = 0 /\ SameTime
      /\ call' = [call EXCEPT !.at = "previous", !.startMicros = now]
  BY DEF PulseStarts, Step, SameTime, At
<1>3. /\ call'.fn = "pulseInLong" /\ call'.at = "previous" /\ call'.arg = call.arg
      /\ call'.startMicros = now /\ call' \in Call
  BY <1>1, <1>2 DEF Types, Call, At, AllPlaces, Places
<1>4. Since' = 0  BY <1>1, <1>2, <1>3, ElapsedIs DEF Since, Elapsed, SameTime, Types
<1>5. Types'  BY <1>1, <1>2, <1>3, TypesKeep DEF Places, Types, At
<1>6. waited' = waited /\ waited \in Nat /\ waited <= Lag /\ Lag \in Nat /\ call.arg \in Nat
  BY <1>1, <1>2, Numbers DEF Timing, Types, Call, SameTime
<1>7. Timing'
  BY <1>2, <1>3, <1>4, <1>6 DEF Timing, StepsBeyond, At, Places
<1>8. Measuring'  BY <1>3 DEF Measuring, At
<1> QED  BY <1>3, <1>5, <1>7, <1>8 DEF WaitsInv, Busy

LEMMA PulseBeginsKeeps == WaitsInv /\ PulseBegins => WaitsInv'
<1> SUFFICES ASSUME WaitsInv, PulseBegins PROVE WaitsInv'  OBVIOUS
<1>1. Types /\ Timing /\ Measuring /\ Busy  BY DEF WaitsInv
<1>2. At({"start"}) /\ Leads("pulse", now, call.value)
  <2>1. /\ call.fn = "pulseInLong" /\ call.at = "start" /\ idle' = 0 /\ SameTime
        /\ call' = [call EXCEPT !.at = "pulse", !.start = now]
    BY DEF PulseBegins, MeasuredFrom, Step, SameTime
  <2> QED  BY <1>1, <2>1 DEF Types, Call, Leads, At, AllPlaces, Places
<1>3. Since' = Since /\ Since \in Nat  BY <1>1, <1>2, CountersKeep DEF Leads
<1>4. Measured' = 0  BY <1>1, <1>2, ElapsedIs DEF Leads, SameTime, Measured, Elapsed, Types
<1>5. Types'  BY <1>1, <1>2, TypesKeep DEF Leads, Places, Types, At
<1>6. /\ Lag \in Nat \ {0} /\ age \in Nat /\ idle \in 0..Lag /\ waited \in Nat
      /\ pin \in BOOLEAN /\ width \in {NoWidth} \cup Nat /\ call.arg \in Nat
  BY <1>1, Numbers DEF Types, Call
<1>7. /\ UNCHANGED <<pin, age, waited, width>> /\ idle' = 0 /\ call'.arg = call.arg
      /\ call'.fn = "pulseInLong" /\ call'.at = "pulse"
      /\ call.fn = "pulseInLong" /\ call.at = "start"
  BY <1>2 DEF Leads, SameTime, At
<1>8. Timing'
  BY <1>1, <1>3, <1>6, <1>7 DEF Timing, StepsBeyond, At, Places
<1>9. Measuring'
  BY <1>1, <1>3, <1>4, <1>6, <1>7 DEF Measuring, At, Rose, Fell
<1> QED  BY <1>5, <1>7, <1>8, <1>9 DEF WaitsInv, Busy

LEMMA PulseEndsKeeps == WaitsInv /\ PulseEnds => WaitsInv'
<1> SUFFICES ASSUME WaitsInv, PulseEnds PROVE WaitsInv'  OBVIOUS
<1>1. Types /\ Timing /\ Measuring /\ Busy  BY DEF WaitsInv
<1>2. At({"end"}) /\ Leads("return", call.start, Measured)
  <2>1. /\ call.fn = "pulseInLong" /\ call.at = "end" /\ idle' = 0 /\ SameTime
        /\ call' = Returns(Measured)
    BY DEF PulseEnds, Measured, Step, SameTime
  <2>2. Measured \in Int  BY <1>1, ElapsedIs DEF Measured, Types, Call
  <2> QED  BY <1>1, <2>1, <2>2, ReturningLeads DEF Types, At
<1>3. Since' = Since /\ Since \in Nat /\ Measured' = Measured /\ Measured \in Nat
  BY <1>1, <1>2, CountersKeep DEF Leads
<1>4. Types'  BY <1>1, <1>2, TypesKeep DEF Leads, Types, At
<1>5. /\ Lag \in Nat \ {0} /\ age \in Nat /\ idle \in 0..Lag /\ waited \in Nat
      /\ pin \in BOOLEAN /\ width \in {NoWidth} \cup Nat /\ call.arg \in Nat
  BY <1>1, Numbers DEF Types, Call
<1>6. /\ UNCHANGED <<pin, age, waited, width>> /\ idle' = 0 /\ call'.arg = call.arg
      /\ call'.fn = "pulseInLong" /\ call'.at = "return" /\ call'.value = Measured
      /\ call.fn = "pulseInLong" /\ call.at = "end"
  BY <1>2 DEF Leads, SameTime, At
<1>7. Timing'
  BY <1>1, <1>3, <1>5, <1>6 DEF Timing, StepsBeyond, At, Places
<1>8. Measuring'
  <2>1. width \in Int /\ width # NoWidth
    BY <1>1, <1>5, <1>6 DEF Measuring, At
  <2> QED  BY <1>1, <1>3, <1>5, <1>6, <2>1 DEF Measuring, At
<1> QED  BY <1>4, <1>6, <1>7, <1>8 DEF WaitsInv, Busy

-----------------------------------------------------------------------------
(* The other functions and the calls.                                       *)

LEMMA CyclesAreNumbers ==
  ASSUME NEW us \in Nat
  PROVE  Cycles(us) \in Int
<1>1. IntSize \in Nat \ {0}  BY WordsAreNumbers
<1>2. (4 * us) % IntSize \in Int  BY <1>1, RestOf
<1>3. ((4 * us) % IntSize) - 5 \in Int  BY <1>2
<1>4. Loops(us) \in 0..IntSize - 1
  <2> DEFINE x == ((4 * us) % IntSize) - 5
  <2>1. x \in Int  BY <1>3
  <2> HIDE DEF x
  <2>2. x % IntSize \in 0..IntSize - 1  BY <1>1, <2>1, RestOf
  <2> QED  BY <2>2 DEF Loops, x
<1> HIDE DEF Loops
<1> QED  BY <1>1, <1>4 DEF Cycles

LEMMA NoCallKeeps ==
  ASSUME WaitsInv, idle' = 0, UNCHANGED <<now, pin, age>>, call' \in Call,
         waited' \in 0..MaxAge, width' \in {NoWidth} \cup 0..MaxAge,
         call'.fn # "pulseInLong", Busy'
  PROVE  WaitsInv'
<1>1. Types'  BY Numbers DEF WaitsInv, Types, At
<1> QED  BY <1>1 DEF WaitsInv, Timing, Measuring, At

LEMMA NoCallIsACall == NoCall \in Call /\ NoCall.fn = "none"
<1>1. 0 \in 0..Wrap - 1  BY Numbers
<1> QED  BY <1>1 DEF NoCall, Call, Functions, AllPlaces

LEMMA CallIs ==
  ASSUME NEW fn \in Functions, NEW at \in AllPlaces, NEW arg \in Nat, Calls(fn, at, arg)
  PROVE  /\ call' \in Call /\ call'.fn = fn /\ call'.at = at /\ call'.arg = arg
         /\ idle' = 0 /\ waited' = 0 /\ width' = NoWidth /\ now' = now
<1>1. call' = [NoCall EXCEPT !.fn = fn, !.at = at, !.arg = arg, !.left = arg]  BY DEF Calls
<1> QED  BY <1>1, NoCallIsACall DEF Call, Calls

LEMMA CalledKeeps == WaitsInv /\ Called => WaitsInv'
<1> SUFFICES ASSUME WaitsInv, Called PROVE WaitsInv'  OBVIOUS
<1>1. 0 \in 0..MaxAge /\ "start" \in AllPlaces /\ "loop" \in AllPlaces
      /\ "startMicros" \in AllPlaces
  BY Numbers DEF AllPlaces, Places
<1>2. CASE PulseCalled
  <2>1. PICK t \in Timeouts, high \in BOOLEAN, since \in 0..MinLevel :
          Calls("pulseInLong", "startMicros", t) /\ pin' = high /\ age' = since
    BY <1>2 DEF PulseCalled
  <2>2. t \in Nat  BY Numbers
  <2>3. /\ call' \in Call /\ call'.fn = "pulseInLong" /\ call'.at = "startMicros"
        /\ call'.arg = t /\ idle' = 0 /\ waited' = 0 /\ width' = NoWidth /\ now' = now
    BY <1>1, <2>1, <2>2, CallIs DEF Functions
  <2>4. age' \in 0..MaxAge  BY <2>1, Numbers
  <2>5. Types'  BY <1>1, <2>1, <2>3, <2>4, Numbers DEF WaitsInv, Types, At
  <2>6. Timing' /\ Measuring' /\ Busy'
    BY <2>3 DEF Timing, Measuring, Busy, At, Places
  <2> QED  BY <2>5, <2>6 DEF WaitsInv
<1>3. CASE DelayCalled
  <2>1. PICK ms \in Delays : Calls("delay", "start", ms) /\ UNCHANGED <<pin, age>>
    BY <1>3 DEF DelayCalled
  <2>2. ms \in Nat  BY WaitsAssumption
  <2>3. /\ call' \in Call /\ call'.fn = "delay" /\ idle' = 0 /\ waited' = 0
        /\ width' = NoWidth /\ now' = now
    BY <1>1, <2>1, <2>2, CallIs DEF Functions
  <2> QED  BY <1>1, <2>1, <2>3, NoCallKeeps DEF Busy
<1>4. CASE BusyCalled
  <2>1. PICK us \in 0..(IntSize - 1) :
          Calls("delayMicroseconds", "loop", us) /\ UNCHANGED <<pin, age>>
    BY <1>4 DEF BusyCalled
  <2>2. us \in Nat  BY WordsAreNumbers
  <2>3. /\ call' \in Call /\ call'.fn = "delayMicroseconds" /\ call'.at = "loop"
        /\ call'.arg = us /\ idle' = 0 /\ waited' = 0 /\ width' = NoWidth /\ now' = now
    BY <1>1, <2>1, <2>2, CallIs DEF Functions
  <2> QED  BY <1>1, <2>1, <2>3, NoCallKeeps DEF Busy
<1>5. CASE Delay2Called
  <2>1. PICK ms \in Delays : Calls("delay2", "loop", ms) /\ UNCHANGED <<pin, age>>
    BY <1>5 DEF Delay2Called
  <2>2. ms \in Nat  BY WaitsAssumption
  <2>3. /\ call' \in Call /\ call'.fn = "delay2" /\ idle' = 0 /\ waited' = 0
        /\ width' = NoWidth /\ now' = now
    BY <1>1, <2>1, <2>2, CallIs DEF Functions
  <2> QED  BY <1>1, <2>1, <2>3, NoCallKeeps DEF Busy
<1> QED  BY <1>2, <1>3, <1>4, <1>5 DEF Called

(* A step outside pulseInLong().                                            *)
LEMMA StepOutsideKeeps ==
  ASSUME WaitsInv, SameTime, idle' = 0, call' \in Call, call'.fn # "pulseInLong", Busy'
  PROVE  WaitsInv'
BY NoCallKeeps DEF SameTime, WaitsInv, Types

LEMMA ReturnKeeps ==
  ASSUME WaitsInv, SameTime, idle' = 0, call' = NoCall
  PROVE  WaitsInv'
<1>1. call' \in Call /\ call'.fn = "none"  BY NoCallIsACall
<1> QED  BY <1>1, StepOutsideKeeps DEF Busy

LEMMA DelayKeeps == WaitsInv /\ (DelayStarts \/ DelayLoops) => WaitsInv'
<1> SUFFICES ASSUME WaitsInv, DelayStarts \/ DelayLoops PROVE WaitsInv'  OBVIOUS
<1>1. SameTime /\ idle' = 0 /\ call.fn = "delay" /\ call \in Call /\ now \in 0..Wrap - 1
  BY DEF DelayStarts, DelayLoops, Step, SameTime, WaitsInv, Types
<1>2. call' \in Call /\ call'.fn = "delay"
  <2>1. CASE DelayStarts
    <3>1. call' = [call EXCEPT !.at = "loop", !.start = now]  BY <2>1 DEF DelayStarts, Step
    <3> QED  BY <1>1, <3>1 DEF Call, AllPlaces
  <2>2. CASE DelayLoops /\ Due
    <3>1. call.left > 0 /\ call' = [call EXCEPT !.left = @ - 1, !.start = Advanced]
      BY <2>2 DEF DelayLoops, Step
    <3>2. call.left - 1 \in Nat  BY <1>1, <3>1 DEF Call
    <3>3. Advanced \in 0..Wrap - 1
      <4>1. call.start + Ms \in Int  BY <1>1, Numbers DEF Call
      <4> QED  BY <4>1, Numbers, RestOf DEF Advanced
    <3> QED  BY <1>1, <3>1, <3>2, <3>3 DEF Call
  <2>3. CASE DelayLoops /\ ~Due
    <3>1. call' = call  BY <2>3 DEF DelayLoops, Step
    <3> QED  BY <1>1, <3>1
  <2> QED  BY <2>1, <2>2, <2>3
<1> QED  BY <1>1, <1>2, StepOutsideKeeps DEF Busy

LEMMA BusyKeeps == WaitsInv /\ (BusyWaits \/ Delay2Loops) => WaitsInv'
<1> SUFFICES ASSUME WaitsInv, BusyWaits \/ Delay2Loops PROVE WaitsInv'  OBVIOUS
<1>1. SameTime /\ idle' = 0 /\ call \in Call /\ Busy
  BY DEF BusyWaits, Delay2Loops, Step, SameTime, WaitsInv, Types
<1>2. CASE BusyWaits
  <2>1. call' = [call EXCEPT !.at = "return", !.value = Cycles(call.arg)]
        /\ call.fn = "delayMicroseconds"
    BY <1>2 DEF BusyWaits, Step, Returns
  <2>2. Cycles(call.arg) \in Int  BY <1>1, CyclesAreNumbers DEF Call
  <2>3. /\ call' \in Call /\ call'.fn = "delayMicroseconds" /\ call'.arg = call.arg
        /\ call'.value = Cycles(call.arg)
    BY <1>1, <2>1, <2>2 DEF Call, AllPlaces
  <2>4. Busy'  BY <1>1, <2>1, <2>3 DEF Busy
  <2> QED  BY <1>1, <2>3, <2>4, StepOutsideKeeps
<1>3. CASE Delay2Loops
  <2>1. call' = [call EXCEPT !.left = @ - 1, !.value = @ + Cycles(Ms)]
        /\ call.fn = "delay2" /\ call.left > 0
    BY <1>3 DEF Delay2Loops, Step
  <2>2. Cycles(Ms) \in Int  BY Numbers, CyclesAreNumbers
  <2>3. call.left - 1 \in Nat /\ call.value + Cycles(Ms) \in Int
    BY <1>1, <2>1, <2>2 DEF Call
  <2>4. call' \in Call /\ call'.fn = "delay2"  BY <1>1, <2>1, <2>3 DEF Call
  <2> QED  BY <1>1, <2>4, StepOutsideKeeps DEF Busy
<1> QED  BY <1>2, <1>3

-----------------------------------------------------------------------------
(* Every step.                                                              *)

LEMMA InitInv == WaitsInit => WaitsInv
<1> SUFFICES ASSUME WaitsInit PROVE WaitsInv  OBVIOUS
<1>1. call \in Call /\ call.fn = "none"  BY NoCallIsACall DEF WaitsInit
<1>2. now = 0 /\ idle = 0 /\ pin = FALSE /\ age = 0 /\ waited = 0 /\ width = NoWidth
  BY DEF WaitsInit
<1>3. Types
  <2>1. pin \in BOOLEAN  BY <1>2
  <2> QED  BY <1>1, <1>2, <2>1, Numbers DEF Types
<1> QED  BY <1>1, <1>3 DEF WaitsInv, Timing, Measuring, Busy, At

LEMMA NextInv == WaitsInv /\ [WaitsNext]_waitsVars => WaitsInv'
<1> SUFFICES ASSUME WaitsInv, [WaitsNext]_waitsVars PROVE WaitsInv'  OBVIOUS
<1>1. CASE Tick  BY <1>1, TickKeeps
<1>2. CASE PinChanges  BY <1>2, PinKeeps
<1>3. CASE Called  BY <1>3, CalledKeeps
<1>4. CASE Program
  <2>1. CASE DelayStarts \/ DelayLoops  BY <2>1, DelayKeeps
  <2>2. CASE BusyWaits \/ Delay2Loops  BY <2>2, BusyKeeps
  <2>3. CASE DelayReturns \/ PulseReturns \/ BusyReturns \/ Delay2Returns
    BY <2>3, ReturnKeeps
    DEF DelayReturns, PulseReturns, BusyReturns, Delay2Returns, Step, SameTime
  <2>4. CASE PulseStarts \/ PulseBegins \/ PulseEnds
    BY <2>4, PulseStartsKeeps, PulseBeginsKeeps, PulseEndsKeeps
  <2>5. CASE \E loop \in Loop : PulseReads(loop) \/ PulseChecks(loop)
    BY <2>5, PulseReadsKeeps, PulseChecksKeeps
  <2> QED  BY <1>4, <2>1, <2>2, <2>3, <2>4, <2>5 DEF Program
<1>5. CASE UNCHANGED waitsVars
  BY <1>5
  DEF waitsVars, WaitsInv, Types, Timing, StepsBeyond, Measuring, Rose, Fell, Busy, At, Since, Measured,
      Elapsed
<1> QED  BY <1>1, <1>2, <1>3, <1>4, <1>5 DEF WaitsNext

LEMMA InvHolds == WaitsSpec => []WaitsInv
BY InitInv, NextInv, PTL DEF WaitsSpec

-----------------------------------------------------------------------------
(* pulseInLong() returns the width of a pulse that began and ended during   *)
(* the call, to three steps of the program, for any lengths of the levels   *)
(* that two steps do not miss (wiring_pulse.c 60-95).                       *)
THEOREM PulsesAreMeasured == WaitsSpec => []WidthIsTrue
<1>1. WaitsInv => WidthIsTrue
  BY DEF WaitsInv, Measuring, At, WidthIsTrue
<1> QED  BY <1>1, InvHolds, PTL

(* All loops together end by the timeout, to seven steps, wherever micros() *)
(* goes round (wiring_pulse.c 71-93).                                       *)
THEOREM CallsKeepTheirTimeout == WaitsSpec => []TimeoutIsKept
<1>1. WaitsInv => TimeoutIsKept
  <2> SUFFICES ASSUME WaitsInv, call.fn = "pulseInLong" PROVE waited <= call.arg + 7 * Lag
    BY DEF TimeoutIsKept
  <2>1. /\ Types /\ Timing /\ Lag \in Nat \ {0} /\ idle \in 0..Lag /\ waited \in Nat
        /\ call.arg \in Nat
    BY Numbers DEF WaitsInv, Types, Call
  <2>2. Since \in Nat  BY <2>1, ElapsedIs DEF Since, Types, Call
  <2> QED  BY <2>1, <2>2 DEF Types, Timing, StepsBeyond, At, Places
<1> QED  BY <1>1, InvHolds, PTL

LEMMA CyclesAreRight ==
  ASSUME NEW us \in 1..(IntSize \div 4 + 1), us < IntSize
  PROVE  Cycles(us) = 16 * us
<1>1. PICK k \in Nat : IntSize = 4 * k
  BY WordsAreNumbers
<1>2. k > 2 /\ IntSize \div 4 = k /\ us \in 1..k + 1  BY <1>1, WordsAreNumbers
<1>3. IntSize \in Nat \ {0} /\ IntSize > 8  BY WordsAreNumbers
<1>r. \A n \in Int : /\ n \in 0..IntSize - 1 => n % IntSize = n
                     /\ n \in -IntSize..-1 => n % IntSize = n + IntSize
  BY <1>3, RestOf
<1> DEFINE f == (4 * us) % IntSize
           g == f - 5
<1>4. Loops(us) = g % IntSize  BY DEF Loops
<1>5. CASE us = 1  BY <1>5 DEF Cycles
<1>6. CASE us > 1 /\ us < k
  <2> DEFINE x == 4 * us
  <2>1. x \in Int /\ x \in 0..IntSize - 1  BY <1>1, <1>2, <1>6
  <2>2. f = x
    <3>1. f = x % IntSize  OBVIOUS
    <3> HIDE DEF f, x
    <3> QED  BY <1>r, <2>1, <3>1
  <2> HIDE DEF f
  <2>3. g \in Int /\ g \in 0..IntSize - 1 /\ g = 4 * us - 5  BY <1>1, <1>2, <1>6, <2>1, <2>2
  <2> HIDE DEF g, x
  <2>4. Loops(us) = 4 * us - 5  BY <1>r, <1>4, <2>3
  <2>5. us > 1 /\ Loops(us) # 0  BY <1>2, <1>6, <2>4
  <2> QED  BY <1>2, <2>4, <2>5 DEF Cycles
<1>7. CASE us = k
  <2>1. f = 0
    <3>1. \A w \in Nat \ {0} : w % w = 0  OBVIOUS
    <3> QED  BY <1>1, <1>3, <1>7, <3>1
  <2> HIDE DEF f
  <2>2. g \in Int /\ g \in -IntSize..-1 /\ g = -5  BY <1>3, <2>1
  <2> HIDE DEF g
  <2>3. Loops(us) = IntSize - 5  BY <1>3, <1>r, <1>4, <2>2
  <2>4. us > 1 /\ Loops(us) # 0  BY <1>2, <1>3, <1>7, <2>3
  <2> QED  BY <1>1, <1>2, <1>7, <2>3, <2>4 DEF Cycles
<1>8. CASE us = k + 1
  <2>1. f = 4
    <3>1. 4 * us = 1 * IntSize + 4  BY <1>1, <1>8
    <3>2. \A w \in Nat \ {0} : w > 8 => (1 * w + 4) % w = 4  OBVIOUS
    <3> QED  BY <1>3, <3>1, <3>2
  <2> HIDE DEF f
  <2>2. g \in Int /\ g \in -IntSize..-1 /\ g = -1  BY <1>3, <2>1
  <2> HIDE DEF g
  <2>3. Loops(us) = IntSize - 1  BY <1>3, <1>r, <1>4, <2>2
  <2>4. us > 1 /\ Loops(us) # 0  BY <1>2, <1>3, <1>8, <2>3
  <2> QED  BY <1>1, <1>2, <1>8, <2>3, <2>4 DEF Cycles
<1> QED  BY <1>2, <1>5, <1>6, <1>7, <1>8

(* delayMicroseconds() takes 16 cycles for each microsecond, up to two more *)
(* than a quarter of its word and so where its counter goes round           *)
(* (wiring.c 167-182, 242-247).                                             *)
THEOREM BusyWaitsAreExact == WaitsSpec => []BusyWaitIsExact
<1>1. WaitsInv => BusyWaitIsExact
  <2> SUFFICES ASSUME WaitsInv, call.fn = "delayMicroseconds", call.at = "return",
                      call.arg \in 1..(IntSize \div 4 + 1)
      PROVE  call.value \in (16 * call.arg - 2)..(16 * call.arg + 2)
    BY DEF BusyWaitIsExact
  <2>1. call.arg \in 0..IntSize - 1 /\ call.value = Cycles(call.arg)
    BY DEF WaitsInv, Busy
  <2>2. call.arg \in Nat /\ call.arg < IntSize  BY <2>1, WordsAreNumbers
  <2>3. call.value = 16 * call.arg  BY <2>1, <2>2, CyclesAreRight
  <2> QED  BY <2>2, <2>3
<1> QED  BY <1>1, InvHolds, PTL
=============================================================================
