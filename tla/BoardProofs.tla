----------------------------- MODULE BoardProofs -----------------------------
(***************************************************************************)
(* Proofs about what runs on the interrupts of the board, for every value  *)
(* of the constants: PhyFake on the serial port, for every length of the   *)
(* frames and size of the buffer, and TimeEvt and TimeMgr on the RTC, for  *)
(* every number of timers and ticks in the day.  The two share nothing.    *)
(*                                                                         *)
(* One buffer serves both directions (phy_layer.c:416).  FrameInv says who *)
(* has it: the frame that was given to _set_send while it is transmitted,  *)
(* with its beginning on the line, or what has been heard.  It holds       *)
(* whatever the far end says and whenever a session is closed, and with it *)
(* SentWhole and GotWhole.                                                 *)
(*                                                                         *)
(* NeverRefused needs that gState and RxState say BUSY only while the      *)
(* interrupts of the transfer are on (PortInv).  BSP_Uart_Init turns these *)
(* off and leaves the states (bsp_uart.c:323): PortInv holds if a session  *)
(* is not closed under a request.                                          *)
(*                                                                         *)
(* CoreInv says that the values of the timers, which are only right at the *)
(* last update, agree with what is left of them, that the list is in their *)
(* order and that the alarm has not been missed.  It takes an update once  *)
(* a day: DailyInv has that from MCTimeEvt, MidTimers from TimeMgr, where  *)
(* PaceInv says when the wake-up comes.                                    *)
(***************************************************************************)
EXTENDS PhyFake, MCTimeEvt, TimeMgr, SequenceTheorems, FiniteSetTheorems,
        WellFoundedInduction, TLAPS

-----------------------------------------------------------------------------
(* The invariants.                                                         *)

Chars == Bytes \cup {EOB, NUL}

\* The types.  CR1, and what was read of it, are sets of interrupts.
TypeOK ==
  /\ tx \in [st : {"READY", "BUSY_TX"}, ptr : Nat, left : Nat]
  /\ rx \in [st : {"READY", "BUSY_RX"}, ptr : Nat, left : Nat]
  /\ cr1 \subseteq {"RXNEIE", "CMIE", "TXEIE", "TCIE"}
  /\ buf \in [0 .. Size -> Chars]
  /\ line \in [rdr : Bytes \cup {EOB, Empty}, cmf : BOOLEAN]
  /\ wire \in Seq(Chars) /\ heard \in Seq(Chars)
  /\ dev \in {"IDLE", "BUSY", "ERROR"}
  /\ pc \in {"idle", "transmit", "receive", "listening"}
  /\ itflags \subseteq {"RXNEIE", "CMIE", "TXEIE", "TCIE"}
  /\ evt \in {"none", "TX", "RX"}
  /\ frame \in Frames \cup {<<>>}

Receives  == "RXNEIE" \in cr1
Transmits == "TXEIE" \in cr1 \/ "TCIE" \in cr1

\* The buffer has the frame that was given to _set_send.
Loaded == \A i \in 0 .. (Len(frame) + 1) : buf[i] = Framed(frame)[i + 1]

\* The line has the beginning of the frame, as far as the pointer.
Sending ==
  /\ tx.ptr + tx.left = Len(frame) + 2
  /\ Len(wire) = tx.ptr
  /\ \A i \in 1 .. Len(wire) : wire[i] = Framed(frame)[i]
  /\ "TCIE" \in cr1 => tx.left = 0 /\ "TXEIE" \notin cr1

\* The buffer has what has been heard.
Stored == Len(heard) =< Size /\ \A i \in 1 .. Len(heard) : buf[i - 1] = heard[i]

Storing == rx.ptr = Len(heard) /\ rx.ptr + rx.left = Size /\ rx.left > 0

\* One direction at a time has the buffer, and only a device that waits for it.
TxInv ==
  /\ pc = "transmit" => dev = "BUSY" /\ evt = "none" /\ ~Receives /\ ~Transmits /\ Loaded
  /\ Transmits => /\ pc = "idle" /\ dev = "BUSY" /\ evt = "none" /\ ~Receives
                  /\ tx.st = "BUSY_TX" /\ Loaded /\ Sending
  /\ evt = "TX" => pc = "idle" /\ dev = "IDLE" /\ ~Receives /\ wire = Framed(frame)

RxInv ==
  /\ pc = "receive" => /\ evt = "none" /\ dev = "IDLE" /\ ~Receives /\ ~Transmits
                       /\ itflags \cap {"TXEIE", "TCIE"} = {}
                       /\ rx.st = "BUSY_RX" /\ Stored /\ Storing
  /\ pc = "listening" => ~Transmits /\ dev = "IDLE"
  /\ Receives => /\ (pc = "listening" \/ (pc = "idle" /\ dev = "BUSY"))
                 /\ evt = "none"
                 /\ rx.st = "BUSY_RX" /\ Stored /\ Storing
  /\ evt = "RX" => Stored

FrameInv == TypeOK /\ TxInv /\ RxInv

\* A port that is busy serves the device.
PortInv ==
  /\ dev # "ERROR"
  /\ tx.st = "BUSY_TX" => Transmits
  /\ rx.st = "BUSY_RX" => (pc = "receive" \/ Receives)

-----------------------------------------------------------------------------
(* Frames and lines.                                                       *)

\* A frame, or none yet, is a sequence that fits.
LEMMA FrameFacts ==
  ASSUME NEW f \in Frames \cup {<<>>}
  PROVE  f \in Seq(Bytes) /\ Len(f) \in 0 .. MaxLen
<1>1. CASE f = <<>>
  BY <1>1, SizesFit, EmptySeq
<1>2. CASE f \in Frames
  <2>1. PICK n \in 1 .. MaxLen : f \in [1 .. n -> Bytes]
    BY <1>2 DEF Frames
  <2>2. n \in Nat
    BY <2>1, SizesFit
  <2>3. f \in Seq(Bytes)
    BY <2>1, <2>2, SeqDef
  <2>4. Len(f) = n
    BY <2>1, <2>2, <2>3, LenProperties
  <2> QED
    BY <2>1, <2>2, <2>3, <2>4, SizesFit
<1> QED
  BY <1>1, <1>2

\* The line of a frame: its length, its bytes, the end.
LEMMA FramedFacts ==
  ASSUME NEW f \in Frames \cup {<<>>}
  PROVE  /\ Framed(f) \in Seq(Chars) /\ Len(Framed(f)) = Len(f) + 2
         /\ Framed(f)[1] = Len(f)
         /\ \A i \in 1 .. Len(f) : Framed(f)[i + 1] = f[i]
         /\ Len(f) + 2 =< Size
<1>1. f \in Seq(Chars) /\ Len(f) \in 0 .. MaxLen
  <2>1. Bytes \subseteq Chars
    BY DEF Chars
  <2> QED
    BY <2>1, FrameFacts, SeqMonotonic
<1>2. <<Len(f)>> \in Seq(Chars) /\ Len(<<Len(f)>>) = 1 /\ <<Len(f)>>[1] = Len(f)
  BY <1>1 DEF Chars, Bytes
<1>3. <<EOB>> \in Seq(Chars) /\ Len(<<EOB>>) = 1
  BY DEF Chars
<1>4. /\ <<Len(f)>> \o f \in Seq(Chars) /\ Len(<<Len(f)>> \o f) = 1 + Len(f)
      /\ \A i \in 1 .. (1 + Len(f)) :
           (<<Len(f)>> \o f)[i] = IF i <= 1 THEN <<Len(f)>>[i] ELSE f[i - 1]
  BY <1>1, <1>2, ConcatProperties
<1>5. /\ Framed(f) \in Seq(Chars) /\ Len(Framed(f)) = (1 + Len(f)) + 1
      /\ \A i \in 1 .. ((1 + Len(f)) + 1) :
           Framed(f)[i] = IF i <= 1 + Len(f) THEN (<<Len(f)>> \o f)[i] ELSE <<EOB>>[i - (1 + Len(f))]
  BY <1>3, <1>4, ConcatProperties DEF Framed
<1>6. Framed(f)[1] = Len(f)
  BY <1>1, <1>2, <1>4, <1>5
<1>7. ASSUME NEW i \in 1 .. Len(f) PROVE Framed(f)[i + 1] = f[i]
  <2>1. /\ i + 1 \in 1 .. (1 + Len(f)) /\ i + 1 \in 1 .. ((1 + Len(f)) + 1)
        /\ i + 1 <= 1 + Len(f) /\ ~(i + 1 <= 1) /\ (i + 1) - 1 = i
    BY <1>1
  <2> QED
    BY <1>4, <1>5, <2>1
<1>8. Len(f) + 2 =< Size /\ (1 + Len(f)) + 1 = Len(f) + 2
  BY <1>1, SizesFit
<1> QED
  BY <1>5, <1>6, <1>7, <1>8

\* What was heard and stored is what WizeNet_Recv gives.
LEMMA DeliveredIs ==
  ASSUME Stored, NEW f \in Frames, heard = Framed(f)
  PROVE  Delivered = {f}
<1>1. f \in Seq(Bytes) /\ Len(f) \in 0 .. MaxLen /\ Len(heard) = Len(f) + 2
  BY FrameFacts, FramedFacts
<1>2. buf[0] = Len(f)
  <2>1. 1 \in 1 .. Len(heard) /\ 1 - 1 = 0
    BY <1>1
  <2>2. buf[1 - 1] = heard[1]
    BY <2>1 DEF Stored
  <2> QED
    BY <2>1, <2>2, FramedFacts
<1>3. ASSUME NEW i \in 1 .. Len(f) PROVE buf[i] = f[i] /\ f[i] \in Bytes
  <2>1. i + 1 \in 1 .. Len(heard) /\ (i + 1) - 1 = i
    BY <1>1
  <2>2. buf[(i + 1) - 1] = heard[i + 1]
    BY <2>1 DEF Stored
  <2> QED
    BY <1>1, <2>1, <2>2, FramedFacts, ElementOfSeq
<1>4. Value(buf[0]) = {Len(f)}
  BY <1>1, <1>2 DEF Value, Bytes
<1>5. Delivered = {g \in [1 .. Len(f) -> Bytes] : \A i \in 1 .. Len(f) : g[i] \in Value(buf[i])}
  BY <1>4 DEF Delivered
<1>6. \A i \in 1 .. Len(f) : Value(buf[i]) = {f[i]}
  BY <1>3 DEF Value
<1>7. f \in [1 .. Len(f) -> Bytes]
  BY <1>1, LenProperties
<1>8. \A g \in [1 .. Len(f) -> Bytes] : (\A i \in 1 .. Len(f) : g[i] = f[i]) => g = f
  BY <1>7
<1> QED
  BY <1>5, <1>6, <1>7, <1>8

-----------------------------------------------------------------------------
\* At first both directions are at rest.
LEMMA InitFrame == Init => FrameInv /\ PortInv
<1> SUFFICES ASSUME Init PROVE FrameInv /\ PortInv
  OBVIOUS
<1> USE DEF Init, UartInit
<1>1. buf \in [0 .. Size -> Chars]
  BY DEF Chars
<1>2. wire \in Seq(Chars) /\ heard \in Seq(Chars)
  BY EmptySeq
<1>3. line \in [rdr : Bytes \cup {EOB, Empty}, cmf : BOOLEAN]
  BY DEF Quiet
<1>4. TypeOK
  BY <1>1, <1>2, <1>3 DEF TypeOK
<1>5. ~Receives /\ ~Transmits
  BY DEF Receives, Transmits
<1>6. TxInv /\ RxInv /\ PortInv
  BY <1>5 DEF TxInv, RxInv, PortInv
<1> QED
  BY <1>4, <1>6 DEF FrameInv

-----------------------------------------------------------------------------
(* Every step keeps FrameInv.                                              *)

\* _set_send fills the buffer while nothing reads or writes it.
LEMMA SendKeeps ==
  ASSUME FrameInv, NEW f \in Frames, Send(f)
  PROVE  FrameInv'
<1>1. TypeOK /\ pc = "idle" /\ dev = "IDLE" /\ evt = "none"
  BY DEF FrameInv, Send, Runs
<1>2. ~Receives /\ ~Transmits
  BY <1>1 DEF FrameInv, TxInv, RxInv
<1>3. /\ dev' = "BUSY" /\ pc' = "transmit" /\ frame' = f /\ evt' = "none"
      /\ buf' = [i \in DOMAIN buf |-> IF i < LineLen(f) THEN Framed(f)[i + 1] ELSE buf[i]]
      /\ UNCHANGED <<tx, rx, cr1, line, wire, heard, itflags>>
  BY <1>1 DEF Send
<1>4. /\ Framed(f) \in Seq(Chars) /\ Len(Framed(f)) = Len(f) + 2 /\ Len(f) \in Nat
      /\ Len(f) + 2 =< Size /\ Size \in Nat
  BY FramedFacts, FrameFacts, SizesFit
<1>5. \A i \in 0 .. (Len(f) + 1) : buf'[i] = Framed(f)[i + 1] /\ Framed(f)[i + 1] \in Chars
  <2>1. ASSUME NEW i \in 0 .. (Len(f) + 1)
        PROVE  i < LineLen(f) /\ i \in DOMAIN buf /\ i + 1 \in 1 .. Len(Framed(f))
    BY <1>1, <1>4 DEF TypeOK, LineLen
  <2> QED
    BY <1>3, <1>4, <2>1, ElementOfSeq
<1>6. buf' \in [0 .. Size -> Chars]
  <2>1. ASSUME NEW i \in 0 .. Size
        PROVE  (IF i < LineLen(f) THEN Framed(f)[i + 1] ELSE buf[i]) \in Chars
    <3>1. CASE i < LineLen(f)
      <4>1. i + 1 \in 1 .. Len(Framed(f))
        BY <1>4, <3>1 DEF LineLen
      <4> QED
        BY <1>4, <3>1, <4>1, ElementOfSeq
    <3> QED
      BY <1>1, <3>1 DEF TypeOK
  <2>2. DOMAIN buf = 0 .. Size
    BY <1>1 DEF TypeOK
  <2> QED
    BY <1>3, <2>1, <2>2
<1>7. TypeOK'
  BY <1>1, <1>3, <1>6 DEF TypeOK
<1>8. ~Receives' /\ ~Transmits'
  BY <1>2, <1>3 DEF Receives, Transmits
<1>9. Loaded'
  BY <1>3, <1>5 DEF Loaded, Framed
<1>10. TxInv' /\ RxInv'
  BY <1>3, <1>8, <1>9 DEF TxInv, RxInv
<1> QED
  BY <1>7, <1>10 DEF FrameInv

\* The transmission begins with nothing on the line.
LEMMA DoTxKeeps ==
  ASSUME FrameInv, DoTx
  PROVE  FrameInv'
<1>1. /\ TypeOK /\ pc = "transmit" /\ pc' = "idle"
      /\ UNCHANGED <<rx, buf, line, heard, itflags, evt, frame>>
  BY DEF FrameInv, DoTx, Runs, Transmit, uartVars
<1>2. dev = "BUSY" /\ evt = "none" /\ ~Receives /\ ~Transmits /\ Loaded
  BY <1>1 DEF FrameInv, TxInv
<1>3. CASE tx.st = "READY"
  <2>1. /\ tx' = [st |-> "BUSY_TX", ptr |-> 0, left |-> LineLen(frame)]
        /\ cr1' = cr1 \cup {"TXEIE"} /\ wire' = <<>> /\ dev' = dev
    BY <1>3 DEF DoTx, Transmit
  <2>2. Len(frame) \in Nat
    BY <1>1, FrameFacts, SizesFit DEF TypeOK
  <2>3. TypeOK'
    <3>1. tx' \in [st : {"READY", "BUSY_TX"}, ptr : Nat, left : Nat]
      BY <2>1, <2>2 DEF LineLen
    <3>2. wire' \in Seq(Chars)
      BY <2>1, EmptySeq
    <3> QED
      BY <1>1, <2>1, <3>1, <3>2 DEF TypeOK
  <2>4. Sending'
    <3>1. tx'.ptr = 0 /\ tx'.left = Len(frame) + 2 /\ Len(wire') = 0
      BY <2>1, EmptySeq DEF LineLen
    <3>2. "TCIE" \notin cr1'
      BY <1>2, <2>1 DEF Transmits
    <3> QED
      BY <1>1, <2>2, <3>1, <3>2 DEF Sending
  <2>5. Loaded' /\ ~Receives'
    BY <1>1, <1>2, <2>1 DEF Loaded, Framed, Receives
  <2>6. tx'.st = "BUSY_TX" /\ pc' = "idle" /\ dev' = "BUSY" /\ evt' = "none"
    BY <1>1, <1>2, <2>1
  <2>7. TxInv' /\ RxInv'
    BY <2>4, <2>5, <2>6 DEF TxInv, RxInv
  <2> QED
    BY <2>3, <2>7 DEF FrameInv
<1>4. CASE tx.st # "READY"
  <2>1. dev' = "ERROR" /\ UNCHANGED <<tx, cr1, wire>>
    BY <1>4 DEF DoTx, uartVars
  <2>2. TypeOK'
    BY <1>1, <2>1 DEF TypeOK
  <2>3. ~Receives' /\ ~Transmits'
    BY <1>2, <2>1 DEF Receives, Transmits
  <2>4. TxInv' /\ RxInv'
    BY <1>1, <1>2, <2>3 DEF TxInv, RxInv
  <2> QED
    BY <2>2, <2>4 DEF FrameInv
<1> QED
  BY <1>3, <1>4

\* The reception begins with nothing heard.
LEMMA ListenKeeps ==
  ASSUME FrameInv, Listen
  PROVE  FrameInv'
<1>1. TypeOK /\ pc = "idle" /\ dev = "IDLE" /\ evt = "none" /\ UNCHANGED <<evt, frame>>
  BY DEF FrameInv, Listen, Runs
<1>2. ~Receives /\ ~Transmits
  BY <1>1 DEF FrameInv, TxInv, RxInv
<1>3. CASE rx.st = "READY"
  <2>1. /\ rx' = [st |-> "BUSY_RX", ptr |-> 0, left |-> Size] /\ heard' = <<>>
        /\ UNCHANGED <<tx, cr1, buf, line, wire, dev>> /\ pc' = "receive" /\ itflags' = cr1
    BY <1>3 DEF Listen, ReceiveBegin
  <2>2. TypeOK'
    <3>1. rx' \in [st : {"READY", "BUSY_RX"}, ptr : Nat, left : Nat]
      BY <2>1, SizesFit
    <3>2. heard' \in Seq(Chars)
      BY <2>1, EmptySeq
    <3> QED
      BY <1>1, <2>1, <3>1, <3>2 DEF TypeOK
  <2>3. ~Receives' /\ ~Transmits' /\ itflags' \cap {"TXEIE", "TCIE"} = {}
    BY <1>2, <2>1 DEF Receives, Transmits
  <2>4. Stored' /\ Storing'
    <3>1. Len(heard') = 0 /\ rx'.ptr = 0 /\ rx'.left = Size
      BY <2>1, EmptySeq
    <3> QED
      BY <3>1, SizesFit DEF Stored, Storing
  <2>5. TxInv' /\ RxInv'
    BY <1>1, <2>1, <2>3, <2>4 DEF TxInv, RxInv
  <2> QED
    BY <2>2, <2>5 DEF FrameInv
<1>4. CASE rx.st # "READY"
  <2>1. dev' = "ERROR" /\ UNCHANGED <<tx, rx, cr1, buf, line, wire, heard, pc, itflags>>
    BY <1>4 DEF Listen, uartVars
  <2>2. TypeOK'
    BY <1>1, <2>1 DEF TypeOK
  <2>3. ~Receives' /\ ~Transmits'
    BY <1>2, <2>1 DEF Receives, Transmits
  <2>4. TxInv' /\ RxInv'
    BY <1>1, <2>1, <2>3 DEF TxInv, RxInv
  <2> QED
    BY <2>2, <2>4 DEF FrameInv
<1> QED
  BY <1>3, <1>4

\* From here on the reception has the buffer.
LEMMA DoRxKeeps ==
  ASSUME FrameInv, DoRx
  PROVE  FrameInv'
<1>1. /\ TypeOK /\ pc = "receive" /\ pc' = "listening" /\ itflags' = {}
      /\ cr1' = itflags \cup {"RXNEIE", "CMIE"}
      /\ UNCHANGED <<tx, rx, buf, line, wire, heard, dev, evt, frame>>
  BY DEF FrameInv, DoRx, Runs, ReceiveEnable
<1>2. /\ evt = "none" /\ dev = "IDLE" /\ itflags \cap {"TXEIE", "TCIE"} = {}
      /\ rx.st = "BUSY_RX" /\ Stored /\ Storing
  BY <1>1 DEF FrameInv, RxInv
<1>3. TypeOK'
  BY <1>1 DEF TypeOK
<1>4. ~Transmits' /\ rx'.st = "BUSY_RX" /\ Stored' /\ Storing'
  BY <1>1, <1>2 DEF Transmits, Stored, Storing
<1>5. TxInv' /\ RxInv'
  BY <1>1, <1>2, <1>4 DEF TxInv, RxInv
<1> QED
  BY <1>3, <1>5 DEF FrameInv

\* The state of the device is all that changes, whether or not a completion came first.
LEMMA ListeningKeeps ==
  ASSUME FrameInv, Listening
  PROVE  FrameInv'
<1>1. /\ TypeOK /\ pc = "listening" /\ pc' = "idle" /\ dev' = "BUSY"
      /\ UNCHANGED <<tx, rx, cr1, buf, line, wire, heard, itflags, evt, frame>>
  BY DEF FrameInv, Listening, Runs, uartVars
<1>2. TypeOK'
  BY <1>1 DEF TypeOK
<1>3. /\ ~Transmits /\ evt # "TX"
      /\ Receives => evt = "none" /\ rx.st = "BUSY_RX" /\ Stored /\ Storing
      /\ evt = "RX" => Stored
  BY <1>1 DEF FrameInv, TxInv, RxInv
<1>4. /\ Receives' = Receives /\ Transmits' = Transmits /\ Stored' = Stored
      /\ Storing' = Storing
  BY <1>1 DEF Receives, Transmits, Stored, Storing
<1>5. TxInv' /\ RxInv'
  BY <1>1, <1>3, <1>4 DEF TxInv, RxInv
<1> QED
  BY <1>2, <1>5 DEF FrameInv

\* What PHY_CTL_CMD_READY and PHY_CTL_CMD_SLEEP leave of a reception.
LEMMA AbortFacts ==
  ASSUME TypeOK, AbortReceive
  PROVE  /\ rx' \in [st : {"READY", "BUSY_RX"}, ptr : Nat, left : Nat]
         /\ line' \in [rdr : Bytes \cup {EOB, Empty}, cmf : BOOLEAN]
         /\ cr1' = cr1 \ {"RXNEIE"} /\ UNCHANGED <<tx, buf, wire, heard>>
         /\ Receives => rx' = Aborted
         /\ ~Receives => rx' = rx
<1>1. /\ rx \in [st : {"READY", "BUSY_RX"}, ptr : Nat, left : Nat]
      /\ line \in [rdr : Bytes \cup {EOB, Empty}, cmf : BOOLEAN]
      /\ UNCHANGED <<tx, buf, wire, heard>>
  BY DEF TypeOK, AbortReceive
<1>2. CASE Receives
  <2>1. /\ rx' = Aborted /\ cr1' = cr1 \ {"RXNEIE"}
        /\ line' = [line EXCEPT !.rdr = Empty]
    BY <1>2 DEF AbortReceive, Receives
  <2>2. Aborted \in [st : {"READY", "BUSY_RX"}, ptr : Nat, left : Nat]
    BY DEF Aborted
  <2> QED
    BY <1>1, <1>2, <2>1, <2>2
<1>3. CASE ~Receives
  <2>1. UNCHANGED <<cr1, rx, line>>
    BY <1>3 DEF AbortReceive, Receives
  <2>2. cr1 = cr1 \ {"RXNEIE"}
    BY <1>3 DEF Receives
  <2> QED
    BY <1>1, <1>3, <2>1, <2>2
<1> QED
  BY <1>2, <1>3

\* The end of a window gives the buffer back.
LEMMA ReadyKeeps ==
  ASSUME FrameInv, Ready
  PROVE  FrameInv'
<1>1. /\ TypeOK /\ pc = "idle" /\ dev # "IDLE" /\ tx.st = "READY" /\ AbortReceive
      /\ dev' = "IDLE" /\ UNCHANGED <<pc, itflags, evt, frame>>
  BY DEF FrameInv, Ready, Runs
<1>2. TypeOK'
  BY <1>1, AbortFacts DEF TypeOK
<1>3. evt # "TX" /\ ~Transmits /\ (evt = "RX" => Stored)
  BY <1>1 DEF FrameInv, TxInv, RxInv
<1>4. ~Receives' /\ ~Transmits' /\ (Stored => Stored')
  BY <1>1, <1>3, AbortFacts DEF Receives, Transmits, Stored
<1>5. TxInv' /\ RxInv'
  BY <1>1, <1>3, <1>4 DEF TxInv, RxInv
<1> QED
  BY <1>2, <1>5 DEF FrameInv

\* A completion that is treated gives the buffer back.
LEMMA TreatKeeps ==
  ASSUME FrameInv, Treat
  PROVE  FrameInv'
<1>1. /\ TypeOK /\ pc = "idle" /\ evt # "none"
      /\ evt' = "none" /\ dev' = "IDLE" /\ UNCHANGED <<pc, itflags, frame>>
  BY DEF FrameInv, Treat, Runs
<1>2. ~Receives /\ ~Transmits
  BY <1>1 DEF FrameInv, TxInv, RxInv
<1>3. AbortReceive \/ UNCHANGED <<tx, rx, cr1, buf, line, wire, heard>>
  BY DEF Treat, uartVars
<1>4. TypeOK'
  BY <1>1, <1>3, AbortFacts DEF TypeOK
<1>5. ~Receives' /\ ~Transmits'
  BY <1>1, <1>2, <1>3, AbortFacts DEF Receives, Transmits
<1>6. TxInv' /\ RxInv'
  BY <1>1, <1>5 DEF TxInv, RxInv
<1> QED
  BY <1>4, <1>6 DEF FrameInv

\* A restart stops both directions.
LEMMA ReopenKeeps ==
  ASSUME FrameInv, Reopen
  PROVE  FrameInv'
<1>1. /\ TypeOK /\ pc = "idle" /\ evt = "none" /\ dev' = "IDLE" /\ cr1' = {} /\ line' = Quiet
      /\ UNCHANGED <<tx, rx, buf, wire, heard, pc, itflags, evt, frame>>
  BY DEF FrameInv, Reopen, Runs, Restart
<1>2. line' \in [rdr : Bytes \cup {EOB, Empty}, cmf : BOOLEAN]
  BY <1>1 DEF Quiet
<1>3. TypeOK'
  BY <1>1, <1>2 DEF TypeOK
<1>4. ~Receives' /\ ~Transmits'
  BY <1>1 DEF Receives, Transmits
<1>5. TxInv' /\ RxInv'
  BY <1>1, <1>4 DEF TxInv, RxInv
<1> QED
  BY <1>3, <1>5 DEF FrameInv

\* A character lies in the buffer behind those before it, and is the last one
\* before there is no more room.
LEMMA RxCharKeeps ==
  ASSUME FrameInv, RxChar
  PROVE  FrameInv'
<1>1. /\ TypeOK /\ Receives /\ line.rdr # Empty /\ rx.st = "BUSY_RX"
      /\ UNCHANGED <<tx, wire, pc, itflags, frame>>
  BY DEF FrameInv, RxChar, RxStore, RxPending, Receives
<1>2. /\ pc = "listening" \/ (pc = "idle" /\ dev = "BUSY")
      /\ evt = "none" /\ Stored /\ Storing /\ ~Transmits
  BY <1>1 DEF FrameInv, TxInv, RxInv
<1>3. /\ buf' = [i \in DOMAIN buf |-> CASE i = rx.ptr                   -> line.rdr
                                        [] i = rx.ptr + 1 /\ Completes  -> NUL
                                        [] OTHER                        -> buf[i]]
      /\ rx' = [st |-> IF Completes THEN "READY" ELSE "BUSY_RX", ptr |-> rx.ptr + 1, left |-> rx.left - 1]
      /\ cr1' = IF Completes THEN cr1 \ {"RXNEIE", "CMIE"} ELSE cr1
      /\ heard' = Append(heard, line.rdr)
      /\ line' = Quiet
      /\ evt' = IF Completes THEN "RX" ELSE evt
      /\ dev' = IF Completes THEN "IDLE" ELSE dev
  BY DEF RxChar, RxStore
<1>4. /\ line.rdr \in Chars /\ rx.ptr \in Nat /\ rx.left \in Nat /\ rx.left > 0
      /\ rx.ptr = Len(heard) /\ rx.ptr + rx.left = Size /\ Size \in Nat
  BY <1>1, <1>2, SizesFit DEF TypeOK, Storing, Chars
<1>5. buf' \in [0 .. Size -> Chars]
  <2>1. NUL \in Chars /\ DOMAIN buf = 0 .. Size /\ \A i \in 0 .. Size : buf[i] \in Chars
    BY <1>1 DEF Chars, TypeOK
  <2> QED
    BY <1>3, <1>4, <2>1
<1>6. /\ heard' \in Seq(Chars) /\ Len(heard') = Len(heard) + 1
      /\ heard'[Len(heard) + 1] = line.rdr
      /\ \A i \in 1 .. Len(heard) : heard'[i] = heard[i]
  BY <1>1, <1>3, <1>4 DEF TypeOK
<1>7. TypeOK'
  <2>1. rx' \in [st : {"READY", "BUSY_RX"}, ptr : Nat, left : Nat]
    BY <1>3, <1>4
  <2>2. line' \in [rdr : Bytes \cup {EOB, Empty}, cmf : BOOLEAN]
    BY <1>3 DEF Quiet
  <2> QED
    BY <1>1, <1>3, <1>5, <1>6, <2>1, <2>2 DEF TypeOK
<1>8. Stored'
  <2>1. Len(heard') =< Size
    BY <1>4, <1>6
  <2>2. ASSUME NEW i \in 1 .. Len(heard') PROVE buf'[i - 1] = heard'[i]
    <3>1. i - 1 \in 0 .. Size /\ DOMAIN buf = 0 .. Size
      BY <1>1, <1>4, <1>6 DEF TypeOK
    <3>2. CASE i = Len(heard) + 1
      BY <1>3, <1>4, <1>6, <3>1, <3>2
    <3>3. CASE i # Len(heard) + 1
      <4>1. i \in 1 .. Len(heard) /\ i - 1 # rx.ptr /\ i - 1 # rx.ptr + 1
        BY <1>4, <1>6, <3>3
      <4>2. buf'[i - 1] = buf[i - 1]
        BY <1>3, <3>1, <4>1
      <4> QED
        BY <1>2, <1>6, <4>1, <4>2 DEF Stored
    <3> QED
      BY <3>2, <3>3
  <2> QED
    BY <2>1, <2>2 DEF Stored
<1>9. ~Transmits'
  BY <1>2, <1>3 DEF Transmits
<1>10. CASE Completes
  <2>1. ~Receives' /\ evt' = "RX" /\ dev' = "IDLE" /\ pc' # "transmit" /\ pc' # "receive"
    BY <1>1, <1>2, <1>3, <1>10 DEF Receives
  <2>2. TxInv' /\ RxInv'
    BY <1>8, <1>9, <2>1 DEF TxInv, RxInv
  <2> QED
    BY <1>7, <2>2 DEF FrameInv
<1>11. CASE ~Completes
  <2>1. /\ evt' = "none" /\ dev' = dev /\ pc' = pc /\ pc' # "transmit" /\ pc' # "receive"
        /\ Receives' = Receives
    BY <1>1, <1>2, <1>3, <1>11 DEF Receives
  <2>2. Storing'
    <3>1. rx.left # 1
      BY <1>11 DEF Completes
    <3> QED
      BY <1>3, <1>4, <1>6, <3>1 DEF Storing
  <2>3. pc' = "listening" => dev' = "IDLE"
    BY <1>1, <2>1 DEF FrameInv, RxInv
  <2>4. TxInv'
    BY <1>9, <2>1 DEF TxInv
  <2>5. RxInv'
    BY <1>2, <1>3, <1>8, <1>9, <2>1, <2>2, <2>3 DEF RxInv
  <2> QED
    BY <1>7, <2>4, <2>5 DEF FrameInv
<1> QED
  BY <1>10, <1>11

\* A character of the far end waits in RDR, in the place of the last one.
LEMMA ArriveKeeps ==
  ASSUME FrameInv, NEW c \in Bytes \cup {EOB}, Arrive(c), UNCHANGED devVars
  PROVE  FrameInv'
<1>1. /\ TypeOK /\ line' = [rdr |-> c, cmf |-> c = EOB \/ line.cmf]
      /\ UNCHANGED <<tx, rx, cr1, buf, wire, heard, dev, pc, itflags, evt, frame>>
  BY DEF FrameInv, Arrive, devVars
<1>2. line' \in [rdr : Bytes \cup {EOB, Empty}, cmf : BOOLEAN]
  <2>1. c \in Bytes \cup {EOB, Empty} /\ (c = EOB \/ line.cmf) \in BOOLEAN
    OBVIOUS
  <2> QED
    BY <1>1, <2>1
<1>3. TypeOK'
  BY <1>1, <1>2 DEF TypeOK
<1>4. TxInv' /\ RxInv'
  BY <1>1 DEF FrameInv, TxInv, RxInv, Receives, Transmits, Loaded, Framed, Sending, Stored, Storing
<1> QED
  BY <1>3, <1>4 DEF FrameInv

\* The next character of the frame is put on the line.
LEMMA TxIsrKeeps ==
  ASSUME FrameInv, TxIsr, UNCHANGED devVars
  PROVE  FrameInv'
<1>1. /\ TypeOK /\ "TXEIE" \in cr1
      /\ UNCHANGED <<rx, buf, line, heard, dev, pc, itflags, evt, frame>>
  BY DEF FrameInv, TxIsr, devVars
<1>2. /\ pc = "idle" /\ dev = "BUSY" /\ evt = "none" /\ ~Receives
      /\ tx.st = "BUSY_TX" /\ Loaded /\ Sending
  BY <1>1 DEF FrameInv, TxInv, Transmits
<1>3. tx.ptr \in Nat /\ tx.left \in Nat /\ Len(frame) \in Nat /\ Size \in Nat /\ Len(frame) + 2 =< Size
  BY <1>1, FrameFacts, FramedFacts, SizesFit DEF TypeOK
<1>4. Loaded'
  BY <1>1, <1>2 DEF Loaded, Framed
<1>5. CASE tx.left = 0
  <2>1. cr1' = (cr1 \ {"TXEIE"}) \cup {"TCIE"} /\ UNCHANGED <<tx, wire>>
    BY <1>5 DEF TxIsr, AllSent
  <2>2. TypeOK'
    BY <1>1, <2>1 DEF TypeOK
  <2>3. ~Receives' /\ Sending'
    BY <1>1, <1>2, <1>5, <2>1 DEF Receives, Sending, Framed
  <2>4. TxInv' /\ RxInv'
    BY <1>1, <1>2, <1>4, <2>1, <2>3 DEF TxInv, RxInv
  <2> QED
    BY <2>2, <2>4 DEF FrameInv
<1>6. CASE tx.left # 0
  <2>1. /\ tx' = [tx EXCEPT !.ptr = @ + 1, !.left = @ - 1]
        /\ wire' = Append(wire, buf[tx.ptr]) /\ cr1' = cr1
    BY <1>6 DEF TxIsr
  <2>2. /\ tx' \in [st : {"READY", "BUSY_TX"}, ptr : Nat, left : Nat] /\ tx'.st = "BUSY_TX"
        /\ tx'.ptr = tx.ptr + 1 /\ tx'.left = tx.left - 1
    <3>1. tx \in [st : {"READY", "BUSY_TX"}, ptr : Nat, left : Nat]
      BY <1>1 DEF TypeOK
    <3>2. tx.ptr + 1 \in Nat /\ tx.left - 1 \in Nat
      BY <1>3, <1>6
    <3> QED
      BY <1>2, <2>1, <3>1, <3>2
  <2>3. tx.ptr \in 0 .. (Len(frame) + 1) /\ tx.ptr \in 0 .. Size
    BY <1>2, <1>3, <1>6 DEF Sending
  <2>4. buf[tx.ptr] = Framed(frame)[tx.ptr + 1] /\ buf[tx.ptr] \in Chars
    BY <1>1, <1>2, <2>3 DEF Loaded, TypeOK
  <2>5. /\ wire' \in Seq(Chars) /\ Len(wire') = Len(wire) + 1
        /\ wire'[Len(wire) + 1] = buf[tx.ptr]
        /\ \A i \in 1 .. Len(wire) : wire'[i] = wire[i]
    BY <1>1, <2>1, <2>4 DEF TypeOK
  <2>6. TypeOK'
    BY <1>1, <2>1, <2>2, <2>5 DEF TypeOK
  <2>7. Sending'
    <3>1. Len(wire) = tx.ptr /\ tx.ptr + tx.left = Len(frame) + 2 /\ "TCIE" \notin cr1
      BY <1>2, <1>6 DEF Sending
    <3>2. ASSUME NEW i \in 1 .. Len(wire') PROVE wire'[i] = Framed(frame)[i]
      <4>1. CASE i = Len(wire) + 1
        BY <2>4, <2>5, <3>1, <4>1
      <4>2. CASE i # Len(wire) + 1
        <5>1. i \in 1 .. Len(wire)
          BY <1>3, <2>5, <3>1, <4>2
        <5> QED
          BY <1>2, <2>5, <5>1 DEF Sending
      <4> QED
        BY <4>1, <4>2
    <3>3. frame' = frame /\ Framed(frame)' = Framed(frame)
      BY <1>1 DEF Framed
    <3>4. Len(wire') = tx'.ptr /\ tx'.ptr + tx'.left = Len(frame) + 2
      BY <1>3, <2>2, <2>5, <3>1
    <3> QED
      BY <2>1, <3>1, <3>2, <3>3, <3>4 DEF Sending
  <2>8. ~Receives'
    BY <1>2, <2>1 DEF Receives
  <2>9. TxInv' /\ RxInv'
    BY <1>1, <1>2, <1>4, <2>2, <2>7, <2>8 DEF TxInv, RxInv
  <2> QED
    BY <2>6, <2>9 DEF FrameInv
<1> QED
  BY <1>5, <1>6

\* When nothing is left, the line has the whole frame.
LEMMA TxCompleteKeeps ==
  ASSUME FrameInv, TxComplete
  PROVE  FrameInv'
<1>1. /\ TypeOK /\ "TCIE" \in cr1 /\ cr1' = cr1 \ {"TCIE"}
      /\ tx' = [tx EXCEPT !.st = "READY"] /\ evt' = "TX" /\ dev' = "IDLE"
      /\ UNCHANGED <<rx, buf, line, wire, heard, pc, itflags, frame>>
  BY DEF FrameInv, TxComplete, TxEnd
<1>2. pc = "idle" /\ ~Receives /\ Sending
  BY <1>1 DEF FrameInv, TxInv, Transmits
<1>3. frame \in Frames \cup {<<>>} /\ wire \in Seq(Chars)
  BY <1>1 DEF TypeOK
<1>4. /\ Framed(frame) \in Seq(Chars) /\ Len(Framed(frame)) = Len(frame) + 2
      /\ tx.ptr \in Nat /\ Len(frame) \in Nat
  BY <1>1, <1>3, FramedFacts, FrameFacts, SizesFit DEF TypeOK
<1>5. wire = Framed(frame)
  <2>1. Len(wire) = Len(Framed(frame)) /\ \A i \in 1 .. Len(wire) : wire[i] = Framed(frame)[i]
    BY <1>1, <1>2, <1>4 DEF Sending
  <2> QED
    BY <1>3, <1>4, <2>1, SeqEqual
<1>6. wire' = Framed(frame')
  BY <1>1, <1>5
<1>7. TypeOK'
  BY <1>1 DEF TypeOK
<1>8. ~Receives'
  BY <1>1, <1>2 DEF Receives
<1>9. ~Transmits'
  <2>1. "TXEIE" \notin cr1
    BY <1>1, <1>2 DEF Sending
  <2> QED
    BY <1>1, <2>1 DEF Transmits
<1>10. TxInv' /\ RxInv'
  BY <1>1, <1>2, <1>6, <1>8, <1>9 DEF TxInv, RxInv, Framed
<1> QED
  BY <1>7, <1>10 DEF FrameInv

\* Every step keeps FrameInv.
LEMMA NextFrame == FrameInv /\ [Next]_vars => FrameInv'
<1> SUFFICES ASSUME FrameInv, [Next]_vars PROVE FrameInv'
  OBVIOUS
<1>1. CASE Port
  BY <1>1, RxCharKeeps, TxCompleteKeeps, TxIsrKeeps DEF Port
<1>2. CASE FarEnd
  BY <1>2, ArriveKeeps DEF FarEnd
<1>3. CASE InCall
  BY <1>3, DoTxKeeps, DoRxKeeps, ListeningKeeps DEF InCall
<1>4. CASE Call
  BY <1>4, SendKeeps, ListenKeeps, ReadyKeeps, TreatKeeps, ReopenKeeps DEF Call
<1>5. CASE UNCHANGED vars
  <2>1. UNCHANGED <<tx, rx, cr1, buf, line, wire, heard, dev, pc, itflags, evt, frame>>
    BY <1>5 DEF vars, uartVars, devVars
  <2>2. TypeOK'
    BY <2>1 DEF FrameInv, TypeOK
  <2>3. TxInv' /\ RxInv'
    BY <2>1 DEF FrameInv, TxInv, RxInv, Receives, Transmits, Loaded, Framed, Sending, Stored, Storing
  <2> QED
    BY <2>2, <2>3 DEF FrameInv
<1> QED
  BY <1>1, <1>2, <1>3, <1>4, <1>5 DEF Next

\* FrameInv is an invariant.
LEMMA FrameAlways == Spec => []FrameInv
<1>1. Init => FrameInv
  BY InitFrame
<1> QED
  BY <1>1, NextFrame, PTL DEF Spec

\* The variables keep their types: the counters of the port, unsigned in the
\* code (bsp_uart.c), never go below 0.
THEOREM TypeCorrect == Spec => []TypeOK
<1>1. FrameInv => TypeOK
  BY DEF FrameInv
<1> QED
  BY <1>1, FrameAlways, PTL

\* A transmission that completes has put on the line the frame that was given
\* to _set_send (phy_layer.c:416), although one buffer serves both directions.
THEOREM SentWholeAlways == Spec => []SentWhole
<1>1. FrameInv => SentWhole
  BY DEF FrameInv, TxInv, SentWhole
<1> QED
  BY <1>1, FrameAlways, PTL

\* A frame that came whole while the device listened is what _get_recv gives
\* when the completion is treated, whatever comes after it on the line.
THEOREM GotWholeAlways == Spec => []GotWhole
<1>1. FrameInv => GotWhole
  BY DeliveredIs DEF FrameInv, RxInv, GotWhole
<1> QED
  BY <1>1, FrameAlways, PTL

-----------------------------------------------------------------------------
\* Every step keeps PortInv, while the manager closes no session under a request.
LEMMA NextPort ==
  ASSUME ~ClosesUnderRequest, FrameInv, PortInv, [Next]_vars
  PROVE  PortInv'
<1>0. /\ TypeOK /\ dev # "ERROR" /\ (tx.st = "BUSY_TX" => Transmits)
      /\ (rx.st = "BUSY_RX" => (pc = "receive" \/ Receives))
  BY DEF FrameInv, PortInv
<1>t. tx.st \in {"READY", "BUSY_TX"} /\ rx.st \in {"READY", "BUSY_RX"}
  BY <1>0 DEF TypeOK
<1>x. /\ Transmits => pc = "idle" /\ dev = "BUSY" /\ evt = "none" /\ ~Receives
      /\ pc = "receive" => dev = "IDLE"
      /\ Receives => (pc = "listening" \/ (pc = "idle" /\ dev = "BUSY"))
  BY DEF FrameInv, TxInv, RxInv
<1>1. ASSUME RxChar PROVE PortInv'
  <2>1. /\ Receives /\ UNCHANGED <<tx, pc>>
        /\ rx'.st = IF Completes THEN "READY" ELSE "BUSY_RX"
        /\ cr1' = IF Completes THEN cr1 \ {"RXNEIE", "CMIE"} ELSE cr1
        /\ dev' = IF Completes THEN "IDLE" ELSE dev
    BY <1>1 DEF RxChar, RxStore, RxPending, Receives
  <2>2. tx.st # "BUSY_TX"
    BY <1>0, <1>x, <2>1
  <2>3. CASE Completes
    BY <2>1, <2>2, <2>3 DEF PortInv
  <2>4. CASE ~Completes
    BY <1>0, <2>1, <2>2, <2>4 DEF PortInv, Receives
  <2> QED
    BY <2>3, <2>4
<1>2. ASSUME TxComplete PROVE PortInv'
  <2>1. tx'.st = "READY" /\ dev' = "IDLE" /\ cr1' = cr1 \ {"TCIE"} /\ UNCHANGED <<rx, pc>>
    BY <1>0, <1>2 DEF TxComplete, TxEnd, TypeOK
  <2> QED
    BY <1>0, <2>1 DEF PortInv, Receives
<1>3. ASSUME FarEnd \/ UNCHANGED vars, UNCHANGED devVars PROVE PortInv'
  <2>1. UNCHANGED <<tx, rx, cr1, dev, pc, evt>>
    BY <1>3 DEF FarEnd, Arrive, vars, uartVars, devVars
  <2> QED
    BY <1>0, <2>1 DEF PortInv, Receives, Transmits
<1>4. ASSUME TxIsr, UNCHANGED devVars PROVE PortInv'
  <2>1. (Receives => Receives') /\ Transmits' /\ UNCHANGED <<rx, dev, pc>>
    BY <1>4 DEF TxIsr, AllSent, devVars, Receives, Transmits
  <2> QED
    BY <1>0, <2>1 DEF PortInv
<1>5. ASSUME DoTx PROVE PortInv'
  <2>1. pc = "transmit" /\ tx.st = "READY" /\ UNCHANGED rx
    BY <1>0, <1>5, <1>t, <1>x DEF DoTx, Runs, Transmit, uartVars
  <2>2. dev' = dev /\ cr1' = cr1 \cup {"TXEIE"}
    BY <1>5, <2>1 DEF DoTx, Transmit
  <2> QED
    BY <1>0, <2>1, <2>2 DEF PortInv, Receives, Transmits
<1>6. ASSUME DoRx PROVE PortInv'
  <2>1. Receives' /\ pc = "receive" /\ UNCHANGED <<tx, rx, dev>>
    BY <1>6 DEF DoRx, Runs, ReceiveEnable, Receives
  <2> QED
    BY <1>0, <1>x, <2>1 DEF PortInv
<1>7. ASSUME Listening PROVE PortInv'
  <2>1. pc = "listening" /\ dev' = "BUSY" /\ UNCHANGED <<tx, rx, cr1>>
    BY <1>7 DEF Listening, Runs, uartVars
  <2> QED
    BY <1>0, <2>1 DEF PortInv, Receives, Transmits
<1>8. ASSUME NEW f \in Frames, Send(f) PROVE PortInv'
  <2>1. pc = "idle" /\ dev' = "BUSY" /\ UNCHANGED <<tx, rx, cr1>>
    BY <1>8 DEF Send, Runs
  <2> QED
    BY <1>0, <2>1 DEF PortInv, Receives, Transmits
<1>9. ASSUME Listen PROVE PortInv'
  <2>1. pc = "idle" /\ dev = "IDLE"
    BY <1>9 DEF Listen, Runs
  <2>2. rx.st = "READY" /\ tx.st = "READY"
    BY <1>0, <1>t, <1>x, <2>1
  <2>3. pc' = "receive" /\ UNCHANGED <<tx, dev>>
    BY <1>9, <2>2 DEF Listen, ReceiveBegin
  <2> QED
    BY <1>0, <2>2, <2>3 DEF PortInv
<1>10. ASSUME Ready \/ Treat PROVE PortInv'
  <2>1. pc = "idle" /\ dev' = "IDLE"
    BY <1>10 DEF Ready, Treat, Runs
  <2>2. AbortReceive \/ UNCHANGED <<tx, rx, cr1>>
    BY <1>10 DEF Ready, Treat, uartVars
  <2>3. tx' = tx /\ (Transmits => Transmits') /\ (rx'.st = "BUSY_RX" => rx' = rx /\ ~Receives)
    <3>1. CASE AbortReceive
      BY <1>0, <3>1, AbortFacts DEF Aborted, Transmits
    <3>2. CASE UNCHANGED <<tx, rx, cr1>>
      <4>1. Ready => AbortReceive
        BY DEF Ready
      <4>2. Treat => ~Receives
        BY <1>x DEF FrameInv, RxInv, Treat
      <4>3. Transmits' = Transmits
        BY <3>2 DEF Transmits
      <4> QED
        BY <1>10, <3>1, <3>2, <4>1, <4>2, <4>3
    <3> QED
      BY <2>2, <3>1, <3>2
  <2>4. rx'.st # "BUSY_RX"
    BY <1>0, <2>1, <2>3
  <2> QED
    BY <1>0, <2>1, <2>3, <2>4 DEF PortInv
<1>11. ASSUME Reopen PROVE PortInv'
  <2>1. pc = "idle" /\ dev = "IDLE" /\ dev' = "IDLE" /\ UNCHANGED <<tx, rx>>
    BY <1>11 DEF Reopen, Runs, Restart
  <2>2. rx.st = "READY" /\ tx.st = "READY"
    BY <1>0, <1>t, <1>x, <2>1
  <2> QED
    BY <2>1, <2>2 DEF PortInv
<1>12. CASE Port
  BY <1>1, <1>2, <1>3, <1>4, <1>12 DEF Port
<1>13. CASE FarEnd \/ UNCHANGED vars
  BY <1>3, <1>13 DEF FarEnd, vars
<1>14. CASE InCall
  BY <1>5, <1>6, <1>7, <1>14 DEF InCall
<1>15. CASE Call
  BY <1>8, <1>9, <1>10, <1>11, <1>15 DEF Call
<1> QED
  BY <1>12, <1>13, <1>14, <1>15 DEF Next

\* While no session is closed under a request, an idle device finds the port
\* ready, however the last window has ended (bsp_uart.c:526).
THEOREM NeverRefusedAlways == ~ClosesUnderRequest => (Spec => []NeverRefused)
<1> SUFFICES ASSUME ~ClosesUnderRequest PROVE Spec => []NeverRefused
  OBVIOUS
<1>1. Init => FrameInv /\ PortInv
  BY InitFrame
<1>2. FrameInv /\ PortInv /\ [Next]_vars => (FrameInv /\ PortInv)'
  BY NextFrame, NextPort
<1>3. FrameInv /\ PortInv => NeverRefused
  BY DEF FrameInv, TypeOK, TxInv, RxInv, PortInv, NeverRefused
<1> QED
  BY <1>1, <1>2, <1>3, PTL DEF Spec

-----------------------------------------------------------------------------
(* The list.                                                               *)

\* A set of naturals that is not empty has a least element, which Min returns.
LEMMA MinIsLeast ==
  ASSUME NEW S \in SUBSET Nat, S # {}
  PROVE  Min(S) \in S /\ \A y \in S : Min(S) <= y
<1> DEFINE R == OpToRel(<, Nat)
<1>1. IsWellFoundedOn(R, Nat)
  BY NatLessThanWellFounded
<1>2. R = {ss \in Nat \X Nat : ss[1] < ss[2]}
  BY DEF OpToRel
<1> HIDE DEF R
<1>3. PICK x \in S : \A y \in S : ~ (<<y, x>> \in R)
  BY <1>1, WFMin
<1>4. \A y \in S : x <= y
  <2> SUFFICES ASSUME NEW y \in S, y < x PROVE FALSE
    OBVIOUS
  <2>1. <<y, x>> \in Nat \X Nat /\ <<y, x>>[1] < <<y, x>>[2]
    OBVIOUS
  <2>2. <<y, x>> \in R
    BY <1>2, <2>1, Zenon
  <2> QED BY <1>3, <2>2
<1>5. \E m \in S : \A y \in S : m <= y
  BY <1>4
<1> QED BY <1>5, Zenon DEF Min

Distinct(l) == \A i, j \in 1 .. Len(l) : l[i] = l[j] => i = j

\* No timer of l has more than the bound of any from there on.
Sorted(l, v, bound) == \A j \in 1 .. Len(l) : \A i \in 1 .. j : v[l[i]] <= bound[l[j]]

\* m is l with t at place p.
Put(l, p, t, m) ==
  /\ p \in 1 .. Len(l) + 1 /\ Len(m) = Len(l) + 1
  /\ \A i \in 1 .. Len(m) : m[i] = IF i < p THEN l[i] ELSE IF i = p THEN t ELSE l[i - 1]

\* m is l without the timer at place p.
Cut(l, p, m) ==
  /\ p \in 1 .. Len(l) /\ Len(m) = Len(l) - 1
  /\ \A i \in 1 .. Len(m) : m[i] = IF i < p THEN l[i] ELSE l[i + 1]

LEMMA InRange ==
  ASSUME NEW l \in Seq(Timers), NEW i \in 1 .. Len(l)
  PROVE  l[i] \in Timers /\ l[i] \in Range(l)
<1>1. i \in DOMAIN l
  OBVIOUS
<1> QED BY <1>1 DEF Range

LEMMA RangeIs ==
  ASSUME NEW l \in Seq(Timers)
  PROVE  Range(l) = {l[i] : i \in 1 .. Len(l)}
<1>1. DOMAIN l = 1 .. Len(l)
  OBVIOUS
<1> QED BY <1>1, Zenon DEF Range

LEMMA PartIs ==
  ASSUME NEW l \in Seq(Timers), NEW m \in 1 .. Len(l) + 1, NEW n \in m - 1 .. Len(l)
  PROVE  /\ SubSeq(l, m, n) \in Seq(Timers) /\ Len(SubSeq(l, m, n)) = n - m + 1
         /\ \A i \in 1 .. n - m + 1 : SubSeq(l, m, n)[i] = l[m + i - 1]
<1>1. m \in Int /\ n \in Int /\ \A i \in m .. n : l[i] \in Timers
  OBVIOUS
<1>2. (IF m <= n THEN n - m + 1 ELSE 0) = n - m + 1
  OBVIOUS
<1> QED BY <1>1, <1>2, SubSeqProperties

\* The beginning and the end of a list.
LEMMA FrontIs ==
  ASSUME NEW l \in Seq(Timers), NEW p \in 0 .. Len(l)
  PROVE  /\ SubSeq(l, 1, p) \in Seq(Timers) /\ Len(SubSeq(l, 1, p)) = p
         /\ \A i \in 1 .. p : SubSeq(l, 1, p)[i] = l[i]
<1>1. 1 \in 1 .. Len(l) + 1 /\ p \in 1 - 1 .. Len(l) /\ p - 1 + 1 = p
  OBVIOUS
<1>2. /\ SubSeq(l, 1, p) \in Seq(Timers) /\ Len(SubSeq(l, 1, p)) = p - 1 + 1
      /\ \A i \in 1 .. p - 1 + 1 : SubSeq(l, 1, p)[i] = l[1 + i - 1]
  BY <1>1, PartIs
<1>3. \A i \in 1 .. p : 1 + i - 1 = i
  OBVIOUS
<1> QED BY <1>1, <1>2, <1>3

LEMMA EndIs ==
  ASSUME NEW l \in Seq(Timers), NEW p \in 0 .. Len(l)
  PROVE  /\ SubSeq(l, p + 1, Len(l)) \in Seq(Timers) /\ Len(SubSeq(l, p + 1, Len(l))) = Len(l) - p
         /\ \A i \in 1 .. Len(l) - p : SubSeq(l, p + 1, Len(l))[i] = l[p + i]
<1>1. p + 1 \in 1 .. Len(l) + 1 /\ Len(l) \in (p + 1) - 1 .. Len(l) /\ Len(l) - (p + 1) + 1 = Len(l) - p
  OBVIOUS
<1> DEFINE b == SubSeq(l, p + 1, Len(l))
<1>2. /\ b \in Seq(Timers) /\ Len(b) = Len(l) - (p + 1) + 1
      /\ \A i \in 1 .. Len(l) - (p + 1) + 1 : b[i] = l[(p + 1) + i - 1]
  BY <1>1, PartIs
<1>3. \A i \in 1 .. Len(l) - p : (p + 1) + i - 1 = p + i
  OBVIOUS
<1> HIDE DEF b
<1>4. b \in Seq(Timers) /\ Len(b) = Len(l) - p /\ \A i \in 1 .. Len(l) - p : b[i] = l[p + i]
  BY <1>1, <1>2, <1>3
<1> QED BY <1>4 DEF b

LEMMA CutIs ==
  ASSUME NEW l \in Seq(Timers), NEW p \in 1 .. Len(l)
  PROVE  RemoveAt(l, p) \in Seq(Timers) /\ Cut(l, p, RemoveAt(l, p))
<1> DEFINE a == SubSeq(l, 1, p - 1)
           b == SubSeq(l, p + 1, Len(l))
           m == RemoveAt(l, p)
<1>1. p - 1 \in 0 .. Len(l) /\ p \in 0 .. Len(l)
  OBVIOUS
<1>2. a \in Seq(Timers) /\ Len(a) = p - 1 /\ \A i \in 1 .. p - 1 : a[i] = l[i]
  BY <1>1, FrontIs
<1>3. b \in Seq(Timers) /\ Len(b) = Len(l) - p /\ \A i \in 1 .. Len(l) - p : b[i] = l[p + i]
  BY <1>1, EndIs
<1>4. m = a \o b
  BY DEF RemoveAt
<1> HIDE DEF a, b
<1>5. /\ a \o b \in Seq(Timers) /\ Len(a \o b) = Len(a) + Len(b)
      /\ \A i \in 1 .. Len(a) + Len(b) : (a \o b)[i] = IF i <= Len(a) THEN a[i] ELSE b[i - Len(a)]
  BY <1>2, <1>3, ConcatProperties
<1> HIDE DEF m
<1>6. /\ m \in Seq(Timers) /\ Len(m) = Len(l) - 1
      /\ \A i \in 1 .. Len(m) : m[i] = IF i <= p - 1 THEN a[i] ELSE b[i - (p - 1)]
  BY <1>2, <1>3, <1>4, <1>5
<1>7. ASSUME NEW i \in 1 .. Len(m) PROVE m[i] = IF i < p THEN l[i] ELSE l[i + 1]
  <2>1. CASE i < p
    BY <1>2, <1>6, <2>1
  <2>2. CASE ~(i < p)
    <3>1. i - (p - 1) \in 1 .. Len(l) - p /\ p + (i - (p - 1)) = i + 1 /\ ~(i <= p - 1)
      BY <1>6, <2>2
    <3> QED BY <1>3, <1>6, <2>2, <3>1
  <2> QED BY <2>1, <2>2
<1>8. m \in Seq(Timers) /\ Cut(l, p, m)
  BY <1>6, <1>7 DEF Cut
<1> QED BY <1>8 DEF m

LEMMA PutIs ==
  ASSUME NEW l \in Seq(Timers), NEW p \in 1 .. Len(l) + 1, NEW t \in Timers
  PROVE  InsertAt(l, p, t) \in Seq(Timers) /\ Put(l, p, t, InsertAt(l, p, t))
<1> DEFINE a == SubSeq(l, 1, p - 1)
           b == SubSeq(l, (p - 1) + 1, Len(l))
           one == <<t>>
           c == a \o one
           m == InsertAt(l, p, t)
<1>1. p - 1 \in 0 .. Len(l) /\ (p - 1) + 1 = p
  OBVIOUS
<1>2. a \in Seq(Timers) /\ Len(a) = p - 1 /\ \A i \in 1 .. p - 1 : a[i] = l[i]
  BY <1>1, FrontIs
<1>3. b \in Seq(Timers) /\ Len(b) = Len(l) - (p - 1) /\ \A i \in 1 .. Len(l) - (p - 1) : b[i] = l[(p - 1) + i]
  BY <1>1, EndIs
<1>4. one \in Seq(Timers) /\ Len(one) = 1 /\ one[1] = t
  OBVIOUS
<1>5. m = c \o b
  BY <1>1 DEF InsertAt
<1> HIDE DEF a, b, one
<1>6. /\ c \in Seq(Timers) /\ Len(c) = Len(a) + Len(one)
      /\ \A i \in 1 .. Len(a) + Len(one) : c[i] = IF i <= Len(a) THEN a[i] ELSE one[i - Len(a)]
  BY <1>2, <1>4, ConcatProperties
<1> HIDE DEF c
<1>7. Len(c) = p /\ \A i \in 1 .. p : c[i] = IF i < p THEN l[i] ELSE t
  <2>1. Len(c) = p
    BY <1>2, <1>4, <1>6
  <2>2. ASSUME NEW i \in 1 .. p, i < p PROVE c[i] = l[i]
    BY <1>2, <1>4, <1>6, <2>2
  <2>3. c[p] = t
    <3>1. p \in 1 .. Len(a) + Len(one) /\ ~(p <= Len(a)) /\ p - Len(a) = 1
      BY <1>2, <1>4
    <3> QED BY <1>4, <1>6, <3>1
  <2> QED BY <2>1, <2>2, <2>3
<1>8. /\ c \o b \in Seq(Timers) /\ Len(c \o b) = Len(c) + Len(b)
      /\ \A i \in 1 .. Len(c) + Len(b) : (c \o b)[i] = IF i <= Len(c) THEN c[i] ELSE b[i - Len(c)]
  <2>1. b \in Seq(Timers) /\ c \in Seq(Timers)
    BY <1>3, <1>6
  <2> QED BY <2>1, ConcatProperties
<1> HIDE DEF m
<1>9. /\ m \in Seq(Timers) /\ Len(m) = Len(l) + 1
      /\ \A i \in 1 .. Len(m) : m[i] = IF i <= p THEN c[i] ELSE b[i - p]
  BY <1>3, <1>5, <1>7, <1>8
<1>10. ASSUME NEW i \in 1 .. Len(m)
       PROVE  m[i] = IF i < p THEN l[i] ELSE IF i = p THEN t ELSE l[i - 1]
  <2>1. CASE i <= p
    BY <1>7, <1>9, <2>1
  <2>2. CASE ~(i <= p)
    <3>1. i - p \in 1 .. Len(l) - (p - 1) /\ (p - 1) + (i - p) = i - 1
      BY <1>9, <2>2
    <3>2. m[i] = b[i - p]
      BY <1>9, <2>2
    <3> QED BY <1>3, <2>2, <3>1, <3>2
  <2> QED BY <2>1, <2>2
<1>11. m \in Seq(Timers) /\ Put(l, p, t, m)
  BY <1>9, <1>10 DEF Put
<1> QED BY <1>11 DEF m

\* What Removed returns.
LEMMA RemovedIs ==
  ASSUME NEW l \in Seq(Timers), NEW t
  PROVE  /\ Removed(l, t) \in Seq(Timers)
         /\ t \notin Range(l) => Removed(l, t) = l
         /\ t \in Range(l) => \E p \in 1 .. Len(l) : l[p] = t /\ Cut(l, p, Removed(l, t))
<1> DEFINE I == {i \in 1 .. Len(l) : l[i] = t}
<1>1. Removed(l, t) = IF I = {} THEN l ELSE RemoveAt(l, Min(I))
  BY DEF Removed, RemoveFirst, SelectInSeq
<1>2. CASE I = {}
  BY <1>1, <1>2 DEF Range
<1>3. CASE I # {}
  <2>1. Min(I) \in I
    <3>1. I \in SUBSET Nat
      OBVIOUS
    <3> HIDE DEF I
    <3> QED BY <1>3, <3>1, MinIsLeast
  <2>2. PICK p \in 1 .. Len(l) : p = Min(I) /\ l[p] = t
    BY <2>1
  <2>3. Removed(l, t) = RemoveAt(l, p)
    BY <1>1, <1>3, <2>2
  <2>4. Removed(l, t) \in Seq(Timers) /\ Cut(l, p, Removed(l, t))
    BY <2>3, CutIs
  <2>5. t \in Range(l)
    BY <2>2, InRange
  <2> QED BY <2>2, <2>4, <2>5
<1> QED BY <1>2, <1>3

\* What Insert returns; the place is between the timers that are not greater and one that is.
LEMMA InsertIs ==
  ASSUME NEW l \in Seq(Timers), NEW v \in [Timers -> Nat], NEW t \in Timers
  PROVE  /\ Insert(l, v, t) \in Seq(Timers)
         /\ t \notin Range(l) =>
              \E p \in 1 .. Len(l) + 1 :
                /\ Put(l, p, t, Insert(l, v, t))
                /\ \A i \in 1 .. p - 1 : v[l[i]] <= v[t]
                /\ p <= Len(l) => v[t] < v[l[p]]
<1> DEFINE later == {i \in 1 .. Len(l) : v[t] < v[l[i]]}
<1>1. CASE later = {}
  <2>1. Insert(l, v, t) = IF IsLast(l, t) THEN l ELSE Append(l, t)
    BY <1>1 DEF Insert
  <2>2. t \notin Range(l) => Insert(l, v, t) = Append(l, t)
    BY <2>1 DEF IsLast, Range
  <2>3. \A i \in 1 .. Len(l) : v[l[i]] <= v[t]
    BY <1>1
  <2>4. Insert(l, v, t) \in Seq(Timers)
    BY <2>1
  <2> DEFINE p == Len(l) + 1
  <2>5. p \in 1 .. Len(l) + 1 /\ ~(p <= Len(l)) /\ p - 1 = Len(l)
    OBVIOUS
  <2>6. Put(l, p, t, Append(l, t))
    BY DEF Put
  <2> HIDE DEF p
  <2> QED BY <2>2, <2>3, <2>4, <2>5, <2>6
<1>2. CASE later # {}
  <2>1. \E i \in later : \A j \in later : i <= j
    <3>1. later \in SUBSET Nat
      OBVIOUS
    <3> HIDE DEF later
    <3> QED BY <1>2, <3>1, MinIsLeast
  <2> DEFINE p == CHOOSE i \in later : \A j \in later : i <= j
  <2>2. p \in later /\ \A j \in later : p <= j
    BY <2>1, Zenon
  <2>3. Insert(l, v, t) = InsertAt(l, p, t)
    BY <1>2 DEF Insert
  <2> HIDE DEF p
  <2>4. p \in 1 .. Len(l) /\ p \in 1 .. Len(l) + 1 /\ v[t] < v[l[p]]
    BY <2>2
  <2>5. \A i \in 1 .. p - 1 : v[l[i]] <= v[t]
    <3> SUFFICES ASSUME NEW i \in 1 .. p - 1, v[t] < v[l[i]] PROVE FALSE
      BY <2>4
    <3>1. i \in later
      BY <2>4
    <3> QED BY <2>2, <2>4, <3>1
  <2>6. Insert(l, v, t) \in Seq(Timers) /\ Put(l, p, t, Insert(l, v, t))
    BY <2>3, <2>4, PutIs
  <2> QED BY <2>4, <2>5, <2>6
<1> QED BY <1>1, <1>2

LEMMA RemovedKeeps ==
  ASSUME NEW l \in Seq(Timers), NEW t, Distinct(l)
  PROVE  /\ Removed(l, t) \in Seq(Timers) /\ Distinct(Removed(l, t))
         /\ Range(Removed(l, t)) = Range(l) \ {t}
         /\ l # <<>> /\ l[1] # t => Removed(l, t) # <<>> /\ Removed(l, t)[1] = l[1]
         /\ \A v \in [Timers -> Nat], bound \in [Timers -> Int] :
              Sorted(l, v, bound) => Sorted(Removed(l, t), v, bound)
<1> DEFINE m == Removed(l, t)
<1>0. m \in Seq(Timers)
  BY RemovedIs
<1>1. CASE t \notin Range(l)
  <2>1. m = l /\ Range(l) = Range(l) \ {t}
    BY <1>1, RemovedIs
  <2> QED BY <2>1
<1>2. CASE t \in Range(l)
  <2>1. PICK p \in 1 .. Len(l) : l[p] = t /\ Cut(l, p, m)
    BY <1>2, RemovedIs
  <2> HIDE DEF m
  <2> DEFINE from(i) == IF i < p THEN i ELSE i + 1
  <2>2. \A i \in 1 .. Len(m) : from(i) \in 1 .. Len(l) /\ from(i) # p /\ m[i] = l[from(i)]
    BY <1>0, <2>1 DEF Cut
  <2>3. \A j \in 1 .. Len(m) : \A i \in 1 .. j : from(i) \in 1 .. from(j) /\ (from(i) = from(j) => i = j)
    BY <1>0, <2>1
  <2>4. \A k \in 1 .. Len(l) : k # p => \E i \in 1 .. Len(m) : from(i) = k
    <3> SUFFICES ASSUME NEW k \in 1 .. Len(l), k # p PROVE \E i \in 1 .. Len(m) : from(i) = k
      OBVIOUS
    <3> DEFINE i == IF k < p THEN k ELSE k - 1
    <3>1. i \in 1 .. Len(m) /\ from(i) = k
      BY <2>1 DEF Cut
    <3> QED BY <3>1
  <2> HIDE DEF from
  <2>5. Distinct(m)
    <3> SUFFICES ASSUME NEW i \in 1 .. Len(m), NEW j \in 1 .. Len(m), m[i] = m[j] PROVE i = j
      BY DEF Distinct
    <3>1. from(i) = from(j)
      BY <2>2 DEF Distinct
    <3>2. i \in 1 .. j \/ j \in 1 .. i
      BY <1>0
    <3> QED BY <2>3, <3>1, <3>2
  <2>6. Range(m) = Range(l) \ {t}
    <3>1. \A k \in 1 .. Len(l) : l[k] = t => k = p
      BY <2>1 DEF Distinct
    <3>2. Range(m) = {m[i] : i \in 1 .. Len(m)} /\ Range(l) = {l[i] : i \in 1 .. Len(l)}
      BY <1>0, RangeIs
    <3>3. \A i \in 1 .. Len(m) : m[i] \in Range(l) \ {t}
      BY <2>2, <3>1, <3>2
    <3>4. \A k \in 1 .. Len(l) : l[k] # t => l[k] \in Range(m)
      BY <2>1, <2>2, <2>4, <3>2
    <3> QED BY <3>2, <3>3, <3>4
  <2>7. ASSUME l # <<>>, l[1] # t PROVE m # <<>> /\ m[1] = l[1]
    <3>1. 1 \in 1 .. Len(l) /\ 1 < p
      BY <2>1, <2>7
    <3>2. Len(m) >= 1 /\ m[1] = l[1]
      BY <1>0, <2>1, <3>1 DEF Cut
    <3> QED BY <3>2
  <2>8. ASSUME NEW v \in [Timers -> Nat], NEW bound \in [Timers -> Int], Sorted(l, v, bound)
        PROVE  Sorted(m, v, bound)
    <3> SUFFICES ASSUME NEW j \in 1 .. Len(m), NEW i \in 1 .. j PROVE v[m[i]] <= bound[m[j]]
      BY DEF Sorted
    <3>1. i \in 1 .. Len(m)
      BY <1>0
    <3> QED BY <2>2, <2>3, <2>8, <3>1 DEF Sorted
  <2> QED BY <1>0, <2>5, <2>6, <2>7, <2>8 DEF m
<1> QED BY <1>1, <1>2

LEMMA InsertKeeps ==
  ASSUME NEW l \in Seq(Timers), NEW v \in [Timers -> Nat], NEW bound \in [Timers -> Int],
         NEW t \in Timers, t \notin Range(l), Distinct(l), Sorted(l, v, bound), v[t] <= bound[t]
  PROVE  /\ Insert(l, v, t) \in Seq(Timers) /\ Distinct(Insert(l, v, t))
         /\ Range(Insert(l, v, t)) = Range(l) \cup {t}
         /\ Sorted(Insert(l, v, t), v, bound)
<1> DEFINE m == Insert(l, v, t)
<1>0. m \in Seq(Timers)
  BY InsertIs
<1>1. PICK p \in 1 .. Len(l) + 1 : /\ Put(l, p, t, m)
                                   /\ \A i \in 1 .. p - 1 : v[l[i]] <= v[t]
                                   /\ p <= Len(l) => v[t] < v[l[p]]
  BY InsertIs
<1> HIDE DEF m
<1> DEFINE from(i) == IF i < p THEN i ELSE i - 1
<1>11. Len(l) \in Nat /\ Len(m) = Len(l) + 1 /\ p \in 1 .. Len(l) + 1
  BY <1>1 DEF Put
<1>12. \A i \in 1 .. Len(m) : m[i] = IF i < p THEN l[i] ELSE IF i = p THEN t ELSE l[i - 1]
  BY <1>1, Zenon DEF Put
<1>2. /\ m[p] = t /\ p \in 1 .. Len(m)
      /\ \A i \in 1 .. Len(m) : i # p => from(i) \in 1 .. Len(l) /\ m[i] = l[from(i)]
  <2>1. m[p] = t /\ p \in 1 .. Len(m)
    BY <1>11, <1>12
  <2>2. \A i \in 1 .. Len(m) : i # p => from(i) \in 1 .. Len(l)
    BY <1>11
  <2>3. ASSUME NEW i \in 1 .. Len(m), i # p PROVE m[i] = l[from(i)]
    BY <1>12, <2>3
  <2> QED BY <2>1, <2>2, <2>3
<1>3. \A i, j \in 1 .. Len(m) : i # p /\ j # p =>
        (i <= j => from(i) \in 1 .. from(j)) /\ (from(i) = from(j) => i = j)
  BY <1>11
<1>4. \A k \in 1 .. Len(l) : \E i \in 1 .. Len(m) : i # p /\ from(i) = k
  <2> SUFFICES ASSUME NEW k \in 1 .. Len(l) PROVE \E i \in 1 .. Len(m) : i # p /\ from(i) = k
    OBVIOUS
  <2> DEFINE i == IF k < p THEN k ELSE k + 1
  <2>1. i \in 1 .. Len(m) /\ i # p /\ from(i) = k
    BY <1>11
  <2> QED BY <2>1
<1>5. \A i \in 1 .. Len(m) : (i < p => from(i) \in 1 .. p - 1) /\ (i > p => p <= Len(l) /\ p \in 1 .. from(i))
  BY <1>11
<1> HIDE DEF from
<1>6. Range(m) = {m[i] : i \in 1 .. Len(m)} /\ Range(l) = {l[i] : i \in 1 .. Len(l)}
  BY <1>0, RangeIs
<1>7. Distinct(m)
  <2> SUFFICES ASSUME NEW i \in 1 .. Len(m), NEW j \in 1 .. Len(m), m[i] = m[j] PROVE i = j
    BY DEF Distinct
  <2>1. CASE i # p /\ j # p
    BY <1>2, <1>3, <2>1 DEF Distinct
  <2>2. CASE i = p \/ j = p
    BY <1>2, <1>6, <2>2
  <2> QED BY <2>1, <2>2
<1>8. Range(m) = Range(l) \cup {t}
  BY <1>2, <1>4, <1>6
<1>9. Sorted(m, v, bound)
  <2> SUFFICES ASSUME NEW j \in 1 .. Len(m), NEW i \in 1 .. j PROVE v[m[i]] <= bound[m[j]]
    BY DEF Sorted
  <2>0. i \in 1 .. Len(m) /\ i <= j
    BY <1>0
  <2>1. CASE i # p /\ j # p
    BY <1>2, <1>3, <2>0, <2>1 DEF Sorted
  <2>2. CASE i = p /\ j = p
    BY <1>2, <2>2
  <2>3. CASE i < p /\ j = p
    <3>0. i < p /\ i # p /\ i \in 1 .. Len(m) /\ p \in Int
      BY <1>11, <2>0, <2>3
    <3>1. from(i) \in 1 .. p - 1 /\ from(i) \in 1 .. Len(l) /\ m[i] = l[from(i)]
      BY <1>2, <1>5, <3>0, Zenon
    <3>2. v[l[from(i)]] <= v[t]
      BY <1>1, <3>1, Zenon
    <3>3. m[j] = t
      BY <1>2, <2>3
    <3>4. l[from(i)] \in Timers
      BY <3>1
    <3>5. v[l[from(i)]] \in Nat /\ v[t] \in Nat /\ bound[t] \in Int
      BY <3>4
    <3>6. v[l[from(i)]] <= bound[t]
      BY <3>2, <3>5
    <3> QED BY <3>1, <3>3, <3>6, Zenon
  <2>4. CASE i = p /\ j > p
    <3>1. /\ v[t] < v[l[p]] /\ p \in 1 .. from(j) /\ from(j) \in 1 .. Len(l)
          /\ m[j] = l[from(j)] /\ l[p] \in Timers
      <4>1. j > p /\ j # p
        BY <1>11, <2>4
      <4>2. p <= Len(l) /\ p \in 1 .. from(j) /\ from(j) \in 1 .. Len(l) /\ m[j] = l[from(j)]
        BY <1>2, <1>5, <4>1, Zenon
      <4>3. p \in 1 .. Len(l)
        BY <1>11, <4>2
      <4> QED BY <1>1, <4>2, <4>3
    <3>2. v[l[p]] <= bound[l[from(j)]]
      BY <3>1 DEF Sorted
    <3>3. l[from(j)] \in Timers
      BY <3>1
    <3>4. m[i] = t /\ v[t] \in Nat /\ v[l[p]] \in Nat /\ bound[l[from(j)]] \in Int
      BY <1>2, <2>4, <3>1, <3>3
    <3>5. v[t] <= bound[l[from(j)]]
      <4>1. v[t] < v[l[p]]
        BY <3>1, Zenon
      <4> DEFINE x == v[t]
                 y == v[l[p]]
                 z == bound[l[from(j)]]
      <4>2. x \in Nat /\ y \in Nat /\ z \in Int /\ x < y /\ y <= z
        BY <3>2, <3>4, <4>1, Zenon
      <4> HIDE DEF x, y, z
      <4>3. x <= z
        BY <4>2
      <4> QED BY <4>3 DEF x, z
    <3> QED BY <3>1, <3>4, <3>5, Zenon
  <2> QED BY <1>11, <2>0, <2>1, <2>2, <2>3, <2>4
<1> QED BY <1>0, <1>7, <1>8, <1>9 DEF m

-----------------------------------------------------------------------------
(* The loop of the alarm's interrupt.                                      *)

\* What holds of 0, and of each number if of the one before it, holds of all up to n.
LEMMA UpTo ==
  ASSUME NEW n \in Nat, NEW P, 0 \in P, \A k \in 1 .. n : k - 1 \in P => k \in P
  PROVE  \A k \in 0 .. n : k \in P
<1> DEFINE missed == {k \in 0 .. n : k \notin P}
<1> SUFFICES ASSUME missed # {} PROVE FALSE
  OBVIOUS
<1>1. missed \in SUBSET Nat
  OBVIOUS
<1>2. PICK m \in missed : \A y \in missed : m <= y
  <2> HIDE DEF missed
  <2> QED BY <1>1, MinIsLeast
<1>3. m \in 1 .. n /\ m \notin P
  OBVIOUS
<1>4. m - 1 \in 0 .. n /\ ~(m <= m - 1)
  BY <1>3
<1>5. m - 1 \notin missed
  BY <1>2, <1>4
<1> QED BY <1>3, <1>4, <1>5

\* f on 0..m begins with x and goes on by the steps.
Iterates(f, m, x, step) == f[0] = x /\ \A k \in 1 .. m : f[k] = step[k][f[k - 1]]

\* Such a function exists, if every step stays in a set.
LEMMA Iteration ==
  ASSUME NEW n \in Nat, NEW S, NEW x \in S, NEW step \in [1 .. n -> [S -> S]]
  PROVE  \E f \in [0 .. n -> S] : Iterates(f, n, x, step)
<1> USE DEF Iterates
<1> DEFINE Reached(f, m) == Iterates(f, m, x, step)
           reached == {m \in 0 .. n : \E f \in [0 .. n -> S] : Reached(f, m)}
<1>1. 0 \in reached
  <2> DEFINE f == [k \in 0 .. n |-> x]
  <2>1. f \in [0 .. n -> S] /\ Reached(f, 0)
    OBVIOUS
  <2> HIDE DEF f
  <2>2. 0 \in 0 .. n
    OBVIOUS
  <2> QED BY <2>1, <2>2
<1>2. ASSUME NEW m \in 1 .. n, m - 1 \in reached PROVE m \in reached
  <2>1. m - 1 \in 0 .. n /\ m \in 0 .. n
    OBVIOUS
  <2>2. PICK f \in [0 .. n -> S] : Reached(f, m - 1)
    BY <1>2
  <2> DEFINE g == [f EXCEPT ![m] = step[m][f[m - 1]]]
  <2>3. step[m][f[m - 1]] \in S
    BY <2>1
  <2>4. g \in [0 .. n -> S] /\ g[0] = x
    BY <2>1, <2>2, <2>3
  <2>5. ASSUME NEW k \in 1 .. m PROVE g[k] = step[k][g[k - 1]]
    <3>1. k - 1 \in 0 .. n /\ k - 1 # m /\ k \in 0 .. n
      OBVIOUS
    <3>2. CASE k = m
      BY <2>1, <3>1, <3>2
    <3>3. CASE k # m
      <4>1. k \in 1 .. m - 1
        BY <3>3
      <4> QED BY <2>2, <3>1, <3>3, <4>1
    <3> QED BY <3>2, <3>3
  <2> QED BY <2>1, <2>4, <2>5
<1>3. n \in reached
  <2>1. n \in 0 .. n
    OBVIOUS
  <2> HIDE DEF reached
  <2>2. \A k \in 0 .. n : k \in reached
    BY <1>1, <1>2, UpTo
  <2> QED BY <2>1, <2>2
<1> QED BY <1>3

States == [list : Seq(Timers), value : [Timers -> Nat]]

LEMMA ExpiredTyped ==
  ASSUME initVal \in [Timers -> Nat], NEW c \in States, NEW t \in Timers
  PROVE  Expired(c, t) \in States
<1>1. c.list \in Seq(Timers) /\ c.value \in [Timers -> Nat]
  BY DEF States
<1>2. Removed(c.list, t) \in Seq(Timers)
  BY <1>1, RemovedIs
<1> DEFINE v == [c.value EXCEPT ![t] = initVal[t]]
<1>3. v \in [Timers -> Nat]
  BY <1>1
<1> HIDE DEF v
<1>4. Insert(Removed(c.list, t), v, t) \in Seq(Timers)
  BY <1>2, <1>3, InsertIs
<1>5. Expired(c, t) = IF c.value[t] # 0 THEN c
                      ELSE IF cfg[t] # "PERIODIC" THEN [c EXCEPT !.list = Removed(c.list, t)]
                      ELSE [list |-> Insert(Removed(c.list, t), v, t), value |-> v]
  BY DEF Expired, v
<1>6. [c EXCEPT !.list = Removed(c.list, t)] \in States
  BY <1>2 DEF States
<1>7. [list |-> Insert(Removed(c.list, t), v, t), value |-> v] \in States
  BY <1>3, <1>4 DEF States
<1> QED BY <1>5, <1>6, <1>7

\* What the turns of the loop leave, one after the other.
Turns(l, v, after) ==
  /\ after \in [0 .. Len(l) -> States]
  /\ after[0] = [list |-> l, value |-> v]
  /\ \A k \in 1 .. Len(l) : after[k] = Expired(after[k - 1], l[k])

LEMMA ScannedIs ==
  ASSUME NEW l \in Seq(Timers), NEW v \in [Timers -> Nat], initVal \in [Timers -> Nat]
  PROVE  \E after : Turns(l, v, after) /\ Scanned(l, v) = after[Len(l)]
<1> DEFINE n == Len(l)
           x == [list |-> l, value |-> v]
           step == [k \in 1 .. n |-> [c \in States |-> Expired(c, l[k])]]
           Body(f) == [i \in 0 .. n |-> IF i = 0 THEN x ELSE Expired(f[i - 1], l[i])]
           after == CHOOSE f : f = Body(f)
<1>0. n \in Nat /\ x \in States
  BY DEF States
<1>1. step \in [1 .. n -> [States -> States]]
  <2>1. ASSUME NEW k \in 1 .. n PROVE [c \in States |-> Expired(c, l[k])] \in [States -> States]
    <3>1. l[k] \in Timers
      OBVIOUS
    <3> QED BY <3>1, ExpiredTyped
  <2> QED BY <2>1
<1>2. PICK f \in [0 .. n -> States] : Iterates(f, n, x, step)
  <2> HIDE DEF n, x, step
  <2> QED BY <1>0, <1>1, Iteration
<1>3. f[0] = x /\ \A k \in 1 .. n : f[k] = Expired(f[k - 1], l[k])
  <2>1. ASSUME NEW k \in 1 .. n PROVE f[k] = Expired(f[k - 1], l[k])
    <3>1. f[k] = step[k][f[k - 1]]
      BY <1>2 DEF Iterates
    <3>2. f[k - 1] \in States
      <4>1. k - 1 \in 0 .. n
        BY <1>0
      <4> HIDE DEF n, x, step
      <4> QED BY <1>2, <4>1
    <3> QED BY <3>1, <3>2
  <2> QED BY <1>2, <2>1 DEF Iterates
<1>4. f = Body(f)
  <2>1. \A k \in 0 .. n : f[k] = Body(f)[k]
    BY <1>0, <1>3
  <2> QED BY <1>2, <2>1
<1>5. after = Body(after)
  BY <1>4, Zenon
<1>6. Scanned(l, v) = after[n]
  BY Zenon DEF Scanned
<1>7. after[0] = x /\ \A k \in 1 .. n : after[k] = Expired(after[k - 1], l[k])
  <2> HIDE DEF after
  <2>1. \A k \in 0 .. n : after[k] = IF k = 0 THEN x ELSE Expired(after[k - 1], l[k])
    BY <1>5, Zenon
  <2> HIDE DEF x
  <2> QED BY <1>0, <2>1
<1>8. \A k \in 0 .. n : after[k] \in States
  <2> HIDE DEF after, x, Body
  <2> DEFINE P == {k \in 0 .. n : after[k] \in States}
  <2>1. 0 \in P
    BY <1>0, <1>7
  <2>2. ASSUME NEW k \in 1 .. n, k - 1 \in P PROVE k \in P
    <3>1. l[k] \in Timers
      OBVIOUS
    <3> QED BY <1>0, <1>7, <2>2, <3>1, ExpiredTyped
  <2> HIDE DEF P
  <2>3. \A k \in 0 .. n : k \in P
    BY <1>0, <2>1, <2>2, UpTo
  <2> QED BY <2>3 DEF P
<1>9. after = [k \in 0 .. n |-> after[k]]
  <2> HIDE DEF after
  <2> QED BY <1>5, Zenon
<1>10. Turns(l, v, after)
  <2> HIDE DEF after
  <2> QED BY <1>7, <1>8, <1>9 DEF Turns
<1> QED BY <1>6, <1>10, Zenon

\* A list stays sorted if its timers have no more, and the bounds are no less.
LEMMA SortedAgain ==
  ASSUME NEW l \in Seq(Timers), NEW v \in [Timers -> Nat], NEW bound \in [Timers -> Int],
         NEW w \in [Timers -> Nat], NEW other \in [Timers -> Int], Sorted(l, v, bound),
         \A t \in Range(l) : w[t] <= v[t] /\ bound[t] <= other[t]
  PROVE  Sorted(l, w, other)
<1> SUFFICES ASSUME NEW j \in 1 .. Len(l), NEW i \in 1 .. j PROVE w[l[i]] <= other[l[j]]
  BY DEF Sorted
<1>1. i \in 1 .. Len(l) /\ l[i] \in Timers /\ l[j] \in Timers
  OBVIOUS
<1>2. l[i] \in Range(l) /\ l[j] \in Range(l)
  BY <1>1, InRange
<1>3. v[l[i]] <= bound[l[j]]
  BY DEF Sorted
<1>4. w[l[i]] <= v[l[i]] /\ bound[l[j]] <= other[l[j]]
  BY <1>2
<1> DEFINE x == w[l[i]]  y == v[l[i]]  z == bound[l[j]]  u == other[l[j]]
<1>5. x \in Nat /\ y \in Nat /\ z \in Int /\ u \in Int /\ x <= y /\ y <= z /\ z <= u
  BY <1>1, <1>3, <1>4
<1> HIDE DEF x, y, z, u
<1>6. x <= u
  BY <1>5
<1> QED BY <1>6 DEF x, u

\* Where the loop is when the timers of o have been found with nothing left, of those of R.
Again(o) == {u \in o : cfg[u] = "PERIODIC"}

Passed(R, v, bound, o, c) ==
  /\ Distinct(c.list) /\ Range(c.list) = (R \ o) \cup Again(o)
  /\ c.value = [u \in Timers |-> IF u \in Again(o) THEN initVal[u] ELSE v[u]]
  /\ Sorted(c.list, c.value, [u \in Timers |-> IF u \in Again(o) THEN initVal[u] ELSE bound[u]])

LEMMA ExpiredKeeps ==
  ASSUME initVal \in [Timers -> Nat], NEW R, NEW v \in [Timers -> Nat], NEW bound \in [Timers -> Int],
         NEW o \in SUBSET R, NEW t \in Timers, t \in R, t \notin o, NEW c \in States,
         Passed(R, v, bound, o, c)
  PROVE  Passed(R, v, bound, IF v[t] = 0 THEN o \cup {t} ELSE o, Expired(c, t))
<1> DEFINE init(q) == [u \in Timers |-> IF u \in Again(q) THEN initVal[u] ELSE bound[u]]
           m == Removed(c.list, t)
<1>1. c.list \in Seq(Timers) /\ c.value \in [Timers -> Nat]
  BY DEF States
<1>2. c.value[t] = v[t]
  BY DEF Passed, Again
<1>3. CASE v[t] # 0
  <2>1. Expired(c, t) = c
    BY <1>2, <1>3 DEF Expired
  <2> QED BY <1>3, <2>1
<1>4. CASE v[t] = 0
  <2> DEFINE q == o \cup {t}
  <2>0. init(o) \in [Timers -> Int] /\ init(q) \in [Timers -> Int]
    OBVIOUS
  <2>1. /\ m \in Seq(Timers) /\ Distinct(m) /\ Range(m) = Range(c.list) \ {t}
        /\ Sorted(m, c.value, init(o))
    <3>1. Distinct(c.list) /\ Sorted(c.list, c.value, init(o))
      BY DEF Passed
    <3> HIDE DEF init
    <3> QED BY <1>1, <2>0, <3>1, RemovedKeeps
  <2>2. Range(c.list) = (R \ o) \cup Again(o)
    BY DEF Passed
  <2>3. CASE cfg[t] # "PERIODIC"
    <3>1. Again(q) = Again(o)
      BY <2>3 DEF Again
    <3>2. Range(m) = (R \ q) \cup Again(q)
      BY <2>1, <2>2, <2>3 DEF Again
    <3>3. Expired(c, t) = [c EXCEPT !.list = m]
      BY <1>2, <1>4, <2>3 DEF Expired
    <3>4. Expired(c, t).list = m /\ Expired(c, t).value = c.value
      BY <3>3 DEF States
    <3>5. Sorted(m, c.value, init(q))
      BY <2>1, <3>1
    <3>6. c.value = [u \in Timers |-> IF u \in Again(q) THEN initVal[u] ELSE v[u]]
      BY <3>1 DEF Passed
    <3>7. Passed(R, v, bound, q, Expired(c, t))
      <4> HIDE DEF m, q
      <4> QED BY <2>1, <3>2, <3>4, <3>5, <3>6 DEF Passed
    <3> QED BY <1>4, <3>7
  <2>4. CASE cfg[t] = "PERIODIC"
    <3> DEFINE w == [c.value EXCEPT ![t] = initVal[t]]
    <3>0. w \in [Timers -> Nat] /\ w[t] = initVal[t]
      BY <1>1
    <3>1. Again(q) = Again(o) \cup {t}
      BY <2>4 DEF Again
    <3>2. t \notin Range(m) /\ Range(m) \cup {t} = (R \ q) \cup Again(q)
      BY <2>1, <2>2, <3>1 DEF Again
    <3>3. Expired(c, t) = [list |-> Insert(m, w, t), value |-> w]
      BY <1>2, <1>4, <2>4 DEF Expired
    <3>4. w = [u \in Timers |-> IF u \in Again(q) THEN initVal[u] ELSE v[u]]
      BY <1>1, <3>1 DEF Passed
    <3>5. Sorted(m, w, init(q))
      <4>1. Range(m) \subseteq Timers
        BY <2>1 DEF Range
      <4>2. \A u \in Range(m) : w[u] <= c.value[u] /\ init(o)[u] <= init(q)[u]
        <5> SUFFICES ASSUME NEW u \in Range(m) PROVE w[u] <= c.value[u] /\ init(o)[u] <= init(q)[u]
          OBVIOUS
        <5>1. u \in Timers /\ u # t
          BY <2>1, <4>1
        <5>2. w[u] = c.value[u] /\ init(o)[u] = init(q)[u]
          BY <1>1, <3>1, <5>1
        <5>3. c.value[u] \in Nat /\ init(o)[u] \in Int
          BY <1>1, <2>0, <5>1
        <5> HIDE DEF w, init
        <5> QED BY <5>2, <5>3
      <4> HIDE DEF w, init, q, m
      <4> QED BY <1>1, <2>0, <2>1, <3>0, <4>2, SortedAgain
    <3>6. w[t] <= init(q)[t]
      <4>1. t \in Again(q)
        BY <3>1
      <4>2. init(q)[t] = initVal[t]
        BY <4>1
      <4>3. initVal[t] \in Nat
        OBVIOUS
      <4> HIDE DEF w, init
      <4> QED BY <3>0, <4>2, <4>3
    <3> DEFINE e == Insert(m, w, t)
    <3>7. e \in Seq(Timers) /\ Distinct(e) /\ Range(e) = Range(m) \cup {t} /\ Sorted(e, w, init(q))
      <4> HIDE DEF w, init, q, m
      <4> QED BY <2>0, <2>1, <3>0, <3>2, <3>5, <3>6, InsertKeeps
    <3>8. Expired(c, t).list = e /\ Expired(c, t).value = w
      BY <3>3
    <3>9. Passed(R, v, bound, q, Expired(c, t))
      <4>1. Range(e) = (R \ q) \cup Again(q)
        BY <3>2, <3>7, Zenon
      <4> HIDE DEF e, q, w
      <4> QED BY <3>4, <3>7, <3>8, <4>1 DEF Passed
    <3> QED BY <1>4, <3>9
  <2> QED BY <2>3, <2>4
<1> QED BY <1>3, <1>4

LEMMA ScanKeeps ==
  ASSUME initVal \in [Timers -> Nat], NEW l \in Seq(Timers), NEW v \in [Timers -> Nat],
         NEW bound \in [Timers -> Int], Distinct(l), Sorted(l, v, bound)
  PROVE  /\ Scanned(l, v) \in States
         /\ Passed(Range(l), v, bound, {u \in Range(l) : v[u] = 0}, Scanned(l, v))
<1> DEFINE n == Len(l)
           over(k) == {u \in {l[j] : j \in 1 .. k} : v[u] = 0}
<1>0. n \in Nat
  OBVIOUS
<1>1. PICK after : Turns(l, v, after) /\ Scanned(l, v) = after[n]
  BY ScannedIs
<1> DEFINE P == {k \in 0 .. n : Passed(Range(l), v, bound, over(k), after[k])}
<1>2. 0 \in P
  <2>1. over(0) = {}
    OBVIOUS
  <2>2. after[0].list = l /\ after[0].value = v
    BY <1>1 DEF Turns
  <2>3. v = [u \in Timers |-> v[u]] /\ bound = [u \in Timers |-> bound[u]]
    OBVIOUS
  <2>4. Passed(Range(l), v, bound, {}, after[0])
    BY <2>2, <2>3 DEF Passed, Again
  <2>5. Passed(Range(l), v, bound, over(0), after[0])
    BY <2>1, <2>4
  <2> QED BY <1>0, <2>5
<1>3. ASSUME NEW k \in 1 .. n, k - 1 \in P PROVE k \in P
  <2>1. k - 1 \in 0 .. n /\ k \in 0 .. n /\ k \in 1 .. Len(l) /\ l[k] \in Timers /\ l[k] \in Range(l)
    BY <1>0, InRange
  <2>2. after[k - 1] \in States /\ after[k] = Expired(after[k - 1], l[k])
    BY <1>1, <2>1 DEF Turns
  <2>3. \A j \in 1 .. k - 1 : j \in 1 .. Len(l) /\ l[j] # l[k]
    BY <1>0, <2>1 DEF Distinct
  <2>4. over(k - 1) \in SUBSET Range(l) /\ l[k] \notin over(k - 1)
    <3>1. \A j \in 1 .. k - 1 : l[j] \in Range(l)
      BY <2>3, InRange
    <3> QED BY <2>3, <3>1
  <2>5. over(k) = IF v[l[k]] = 0 THEN over(k - 1) \cup {l[k]} ELSE over(k - 1)
    <3>1. \A j \in 1 .. k : j = k \/ j \in 1 .. k - 1
      OBVIOUS
    <3>2. {l[j] : j \in 1 .. k} = {l[j] : j \in 1 .. k - 1} \cup {l[k]}
      BY <3>1
    <3> QED BY <3>2
  <2>6. Passed(Range(l), v, bound, over(k - 1), after[k - 1])
    BY <1>3
  <2> HIDE DEF over
  <2>7. Passed(Range(l), v, bound, over(k), after[k])
    <3>1. Passed(Range(l), v, bound, IF v[l[k]] = 0 THEN over(k - 1) \cup {l[k]} ELSE over(k - 1),
                 Expired(after[k - 1], l[k]))
      BY <2>1, <2>2, <2>4, <2>6, ExpiredKeeps
    <3> QED BY <2>2, <2>5, <3>1, Zenon
  <2> QED BY <2>1, <2>7
<1>4. n \in P
  <2>1. n \in 0 .. n
    BY <1>0
  <2> HIDE DEF P, n
  <2> QED BY <1>0, <1>2, <1>3, <2>1, UpTo
<1>5. over(n) = {u \in Range(l) : v[u] = 0}
  BY RangeIs, Zenon
<1>6. Scanned(l, v) \in States
  <2>1. n \in 0 .. n
    BY <1>0
  <2> QED BY <1>1, <2>1 DEF Turns
<1> QED BY <1>1, <1>4, <1>5, <1>6

-----------------------------------------------------------------------------
(* The types.                                                              *)

LEMMA Division ==
  ASSUME NEW n \in Int, NEW d \in Int, d > 0,
         NEW q \in Int, NEW r \in Int, q = n \div d, r = n % d
  PROVE  n = d * q + r
OBVIOUS

LEMMA Remainder ==
  ASSUME NEW q \in Nat, NEW r \in 0 .. Day - 1
  PROVE  (Day * q + r) % Day = r
BY TimeConstants

\* The time of the day, and the one after it.
LEMMA ModDay ==
  ASSUME NEW n \in Nat
  PROVE  /\ n % Day \in 0 .. Day - 1
         /\ (n + 1) % Day = IF n % Day = Day - 1 THEN 0 ELSE (n % Day) + 1
         /\ n = 0 => n % Day = 0
<1>1. n % Day \in 0 .. Day - 1 /\ n \div Day \in Nat
  BY TimeConstants
<1>2. PICK q \in Nat, r \in 0 .. Day - 1 : q = n \div Day /\ r = n % Day
  BY <1>1
<1>3. n = Day * q + r
  <2>1. Day \in Int /\ Day > 0 /\ n \in Int
    BY TimeConstants
  <2> QED BY <1>2, <2>1, Division
<1>4. CASE r = Day - 1
  <2>1. n + 1 = Day * (q + 1) + 0
    BY <1>3, <1>4, TimeConstants
  <2>2. (Day * (q + 1) + 0) % Day = 0
    <3>1. q + 1 \in Nat /\ 0 \in 0 .. Day - 1
      BY TimeConstants
    <3> QED BY <3>1, Remainder
  <2> QED BY <1>1, <1>2, <1>4, <2>1, <2>2, TimeConstants
<1>5. CASE r # Day - 1
  <2>1. n + 1 = Day * q + (r + 1)
    <3>1. Day * q \in Int
      BY TimeConstants
    <3> QED BY <1>3, <3>1
  <2>2. (Day * q + (r + 1)) % Day = r + 1
    <3>1. r + 1 \in 0 .. Day - 1
      BY <1>5, TimeConstants
    <3> QED BY <3>1, Remainder
  <2>3. (n + 1) % Day = r + 1
    BY <2>1, <2>2
  <2>4. n = 0 => n % Day = 0
    BY TimeConstants
  <2> QED BY <1>1, <1>2, <1>5, <2>3, <2>4
<1> QED BY <1>4, <1>5

LEMMA AlarmTyped ==
  ASSUME NEW l \in Seq(Timers), NEW v \in [Timers -> Nat], NEW n \in Nat
  PROVE  AlarmFor(l, v, n) \in 0 .. (Day - 1) \cup {Off}
<1>1. CASE l = <<>> \/ v[Head(l)] >= Day
  BY <1>1 DEF AlarmFor
<1>2. CASE ~(l = <<>> \/ v[Head(l)] >= Day)
  <2>1. Head(l) \in Timers
    BY <1>2
  <2>2. n + v[Head(l)] \in Nat
    BY <2>1
  <2>3. (n + v[Head(l)]) % Day \in 0 .. Day - 1
    BY <2>2, ModDay
  <2> QED BY <1>2, <2>3 DEF AlarmFor, AlarmIn
<1> QED BY <1>1, <1>2

LEMMA UpdatedIs ==
  ASSUME TimeTypeOK, NEW l, NEW v \in [Timers -> Nat]
  PROVE  /\ Elapsed \in Nat
         /\ Updated(l, v) \in [Timers -> Nat]
         /\ \A t \in Timers : Updated(l, v)[t] = IF t \notin Range(l) THEN v[t]
                                               ELSE IF v[t] >= Elapsed THEN v[t] - Elapsed ELSE 0
<1>1. Elapsed \in Nat
  BY TimeConstants DEF Elapsed, TimeTypeOK
<1>2. \A t \in Timers : v[t] >= Elapsed => v[t] - Elapsed \in Nat
  BY <1>1
<1> QED BY <1>1, <1>2 DEF Updated

LEMMA InitTyped == TimeInit => TimeTypeOK
BY TimeConstants DEF TimeInit, TimeTypeOK, Cfgs

LEMMA TimerInitTyped ==
  ASSUME TimeTypeOK, NEW t \in Timers, NEW c \in Cfgs, TimerInit(t, c)
  PROVE  TimeTypeOK'
<1>1. list' \in Seq(Timers)
  BY RemovedIs DEF TimeTypeOK, TimerInit
<1>2. armed' \subseteq Timers
  BY DEF TimeTypeOK, TimerInit
<1>3. /\ cfg' \in [Timers -> Cfgs] /\ initVal' \in [Timers -> Nat] /\ value' \in [Timers -> Nat]
      /\ left' \in [Timers -> Int]
  BY DEF TimeTypeOK, TimerInit
<1> QED BY <1>1, <1>2, <1>3 DEF TimeTypeOK, TimerInit

LEMMA TimerStartTyped ==
  ASSUME TimeTypeOK, NEW t \in Timers, NEW val \in Nat, TimerStart(t, val)
  PROVE  TimeTypeOK'
<1> DEFINE v0   == Updated(list, [value EXCEPT ![t] = val])
           past == cfg[t] = "ABSOLUTE" /\ v0[t] <= now
           v    == IF cfg[t] = "ABSOLUTE" /\ ~past THEN [v0 EXCEPT ![t] = v0[t] - now] ELSE v0
           l    == IF past THEN list ELSE Insert(list, v, t)
<1>0. now \in 0 .. MaxNow /\ now \in Nat
  BY TimeConstants DEF TimeTypeOK
<1>1. v0 \in [Timers -> Nat]
  <2>1. [value EXCEPT ![t] = val] \in [Timers -> Nat]
    BY DEF TimeTypeOK
  <2> QED BY <2>1, UpdatedIs
<1>2. v \in [Timers -> Nat]
  <2>1. CASE cfg[t] = "ABSOLUTE" /\ ~past
    <3>1. v0[t] - now \in Nat
      <4>1. v0[t] \in Nat /\ ~(v0[t] <= now)
        BY <1>1, <2>1
      <4> HIDE DEF v0
      <4> QED BY <1>0, <4>1
    <3> HIDE DEF v0
    <3> QED BY <1>1, <2>1, <3>1
  <2>2. CASE ~(cfg[t] = "ABSOLUTE" /\ ~past)
    BY <1>1, <2>2
  <2> QED BY <2>1, <2>2
<1>3. l \in Seq(Timers)
  <2> HIDE DEF v, past
  <2> QED BY <1>2, InsertIs DEF TimeTypeOK
<1>4. /\ list' = l /\ value' = v /\ alarm' = AlarmFor(l, v, now)
      /\ armed' = IF past THEN armed ELSE armed \cup {t}
      /\ left' = [left EXCEPT ![t] = IF past THEN left[t] ELSE v[t]]
      /\ initVal' = [initVal EXCEPT ![t] = val] /\ lastUpd' = now
      /\ UNCHANGED <<now, cfg, stopping>>
  BY DEF TimerStart
<1>5. alarm' \in 0 .. (Day - 1) \cup {Off}
  <2> HIDE DEF l, v
  <2> QED BY <1>0, <1>2, <1>3, <1>4, AlarmTyped
<1>6. left' \in [Timers -> Int] /\ armed' \subseteq Timers /\ initVal' \in [Timers -> Nat]
  <2> HIDE DEF l, v, past
  <2>0. left \in [Timers -> Int]
    BY Zenon DEF TimeTypeOK
  <2>1. v[t] \in Int /\ left \in [Timers -> Int]
    BY <1>2, <2>0
  <2>2. (IF past THEN left[t] ELSE v[t]) \in Int
    BY <2>1
  <2>3. left' \in [Timers -> Int]
    BY <1>4, <2>1, <2>2
  <2> QED BY <1>4, <2>3 DEF TimeTypeOK
<1> HIDE DEF l, v, past
<1> QED BY <1>0, <1>2, <1>3, <1>4, <1>5, <1>6 DEF TimeTypeOK

LEMMA StopHeadTyped ==
  ASSUME TimeTypeOK, NEW t \in Timers, list # <<>>, StopHead(t), stopping' \in Timers \cup {None}
  PROVE  TimeTypeOK'
<1> DEFINE l == Removed(Tail(list), t)
           v == Updated(l, value)
<1>0. now \in 0 .. MaxNow /\ now \in Nat
  BY TimeConstants DEF TimeTypeOK
<1>1. l \in Seq(Timers)
  <2>1. Tail(list) \in Seq(Timers)
    BY DEF TimeTypeOK
  <2> QED BY <2>1, RemovedIs
<1>2. v \in [Timers -> Nat]
  BY UpdatedIs DEF TimeTypeOK
<1>3. /\ list' = l /\ value' = v /\ alarm' = AlarmFor(l, v, now) /\ lastUpd' = now
      /\ armed' = armed \ {t} /\ left' = [left EXCEPT ![t] = 0]
      /\ UNCHANGED <<now, cfg, initVal>>
  BY DEF StopHead
<1> HIDE DEF l, v
<1>4. alarm' \in 0 .. (Day - 1) \cup {Off}
  BY <1>0, <1>1, <1>2, <1>3, AlarmTyped
<1>5. left' \in [Timers -> Int] /\ armed' \subseteq Timers
  <2>1. left \in [Timers -> Int] /\ armed \subseteq Timers
    BY Zenon DEF TimeTypeOK
  <2>2. left' = [left EXCEPT ![t] = 0] /\ armed' = armed \ {t}
    BY <1>3
  <2> QED BY <2>1, <2>2
<1> QED BY <1>0, <1>1, <1>2, <1>3, <1>4, <1>5 DEF TimeTypeOK

LEMMA TimerStopTyped ==
  ASSUME TimeTypeOK, NEW t \in Timers, TimerStop(t)
  PROVE  TimeTypeOK'
<1>1. CASE list # <<>> /\ Head(list) = t /\ Preempt
  BY <1>1 DEF TimerStop, TimeTypeOK
<1>2. CASE list # <<>> /\ Head(list) = t /\ ~Preempt
  <2>1. StopHead(t) /\ stopping' \in Timers \cup {None}
    BY <1>2 DEF TimerStop, TimeTypeOK
  <2> QED BY <1>2, <2>1, StopHeadTyped
<1>3. CASE ~(list # <<>> /\ Head(list) = t)
  <2>1. StopInner(t) /\ UNCHANGED stopping
    BY <1>3 DEF TimerStop
  <2>2. list' \in Seq(Timers)
    BY <2>1, RemovedIs DEF TimeTypeOK, StopInner
  <2>3. left' \in [Timers -> Int] /\ armed' \subseteq Timers
    BY <2>1 DEF StopInner, TimeTypeOK
  <2> QED BY <2>1, <2>2, <2>3 DEF TimeTypeOK, StopInner
<1> QED BY <1>1, <1>2, <1>3

LEMMA TimerStopGoTyped ==
  ASSUME TimeTypeOK, TimerStopGo
  PROVE  TimeTypeOK'
<1>1. stopping \in Timers /\ list # <<>> /\ StopHead(stopping) /\ stopping' \in Timers \cup {None}
  BY DEF TimerStopGo, TimeTypeOK
<1> QED BY <1>1, StopHeadTyped

LEMMA CorrectedIs ==
  ASSUME TimeTypeOK, NEW v \in [Timers -> Nat], NEW t \in Nat
  PROVE  /\ Corrected(v, t) \in [Timers -> Nat]
         /\ \A u \in Timers : Corrected(v, t)[u] =
              IF u \in Range(list) /\ cfg[u] = "ABSOLUTE"
              THEN IF initVal[u] > t THEN initVal[u] - t ELSE 0 ELSE v[u]
<1>1. \A u \in Timers : initVal[u] > t => initVal[u] - t \in Nat
  BY DEF TimeTypeOK
<1> QED BY <1>1 DEF Corrected, InList

LEMMA UpdateTimeTyped ==
  ASSUME TimeTypeOK, NEW t \in 0 .. MaxNow, UpdateTime(t)
  PROVE  TimeTypeOK'
<1> DEFINE v    == Updated(list, value)
           then == IF t = 0 THEN now ELSE t
           v1   == IF t = 0 THEN v ELSE Corrected(v, t)
<1>1. then \in 0 .. MaxNow /\ then \in Nat
  BY TimeConstants DEF TimeTypeOK
<1>2. v1 \in [Timers -> Nat]
  <2>1. v \in [Timers -> Nat] /\ t \in Nat
    BY UpdatedIs, TimeConstants DEF TimeTypeOK
  <2> HIDE DEF v
  <2> QED BY <2>1, CorrectedIs
<1>3. /\ now' = then
      /\ IF list = <<>> THEN UNCHANGED <<value, lastUpd, alarm>>
         ELSE value' = v1 /\ lastUpd' = then /\ alarm' = AlarmFor(list, v1, then)
      /\ UNCHANGED <<list, cfg, initVal, stopping, armed, left>>
  BY DEF UpdateTime
<1> HIDE DEF v1, then
<1>4. list # <<>> => alarm' \in 0 .. (Day - 1) \cup {Off}
  BY <1>1, <1>2, <1>3, AlarmTyped DEF TimeTypeOK
<1> QED BY <1>1, <1>2, <1>3, <1>4 DEF TimeTypeOK

LEMMA ScannedTyped ==
  ASSUME NEW l \in Seq(Timers), NEW v \in [Timers -> Nat], initVal \in [Timers -> Nat]
  PROVE  Scanned(l, v) \in States
<1>1. PICK after : Turns(l, v, after) /\ Scanned(l, v) = after[Len(l)]
  BY ScannedIs
<1>2. Len(l) \in 0 .. Len(l)
  OBVIOUS
<1> QED BY <1>1, <1>2 DEF Turns

\* What the interrupt does.
LEMMA EventHandlerIs ==
  ASSUME EventHandler, NEW v, v = Updated(list, value), NEW c, c = Scanned(list, v),
         NEW over, over = {t \in Range(list) : v[t] = 0}
  PROVE  /\ list' = c.list /\ value' = c.value /\ alarm' = AlarmFor(c.list, c.value, now)
         /\ armed' = (armed \ over) \cup Again(over)
         /\ left' = [t \in Timers |-> IF t \in Again(over) THEN initVal[t]
                                      ELSE IF t \in over THEN 0 ELSE left[t]]
         /\ lastUpd' = IF list = <<>> THEN lastUpd ELSE now
         /\ UNCHANGED <<now, cfg, initVal, stopping>>
BY Zenon DEF EventHandler, Again

LEMMA EventHandlerTyped ==
  ASSUME TimeTypeOK, EventHandler
  PROVE  TimeTypeOK'
<1> DEFINE v    == Updated(list, value)
           c    == Scanned(list, v)
           over == {t \in Range(list) : v[t] = 0}
<1>1. v \in [Timers -> Nat] /\ now \in 0 .. MaxNow /\ now \in Nat
  BY UpdatedIs, TimeConstants DEF TimeTypeOK
<1>2. c \in States
  <2> HIDE DEF v
  <2> QED BY <1>1, ScannedTyped DEF TimeTypeOK
<1>3. over \subseteq Timers /\ Again(over) \subseteq Timers
  BY DEF TimeTypeOK, Range, Again
<1> HIDE DEF v, c, over
<1>4. /\ list' = c.list /\ value' = c.value /\ alarm' = AlarmFor(c.list, c.value, now)
      /\ armed' = (armed \ over) \cup Again(over)
      /\ left' = [t \in Timers |-> IF t \in Again(over) THEN initVal[t]
                                   ELSE IF t \in over THEN 0 ELSE left[t]]
      /\ lastUpd' = IF list = <<>> THEN lastUpd ELSE now
      /\ UNCHANGED <<now, cfg, initVal, stopping>>
  BY EventHandlerIs DEF v, c, over
<1>5. c.list \in Seq(Timers) /\ c.value \in [Timers -> Nat]
  BY <1>2 DEF States
<1>6. alarm' \in 0 .. (Day - 1) \cup {Off}
  BY <1>1, <1>4, <1>5, AlarmTyped
<1>7. left' \in [Timers -> Int] /\ armed' \subseteq Timers
  <2>1. \A t \in Timers : left[t] \in Int /\ initVal[t] \in Int
    BY DEF TimeTypeOK
  <2> QED BY <1>3, <1>4, <2>1 DEF TimeTypeOK
<1>8. lastUpd' \in 0 .. MaxNow
  BY <1>1, <1>4 DEF TimeTypeOK
<1> QED BY <1>4, <1>5, <1>6, <1>7, <1>8 DEF TimeTypeOK

LEMMA TickTyped ==
  ASSUME TimeTypeOK, Tick
  PROVE  TimeTypeOK'
<1>1. now' \in 0 .. MaxNow
  BY TimeConstants DEF TimeTypeOK, Tick
<1>2. left' \in [Timers -> Int]
  <2>1. \A t \in Timers : left[t] \in Int /\ left[t] - 1 \in Int
    BY DEF TimeTypeOK
  <2> QED BY <2>1 DEF Tick
<1> QED BY <1>1, <1>2 DEF TimeTypeOK, Tick

LEMMA ClockStays == TimerCall \/ TimerStopGo \/ EventHandler => now' = now
<1>1. ASSUME NEW t \in Timers, TimerStop(t) PROVE now' = now
  BY <1>1 DEF TimerStop, StopHead, StopInner
<1>2. TimerCall => now' = now
  <2>1. ASSUME NEW t \in Timers, NEW c, TimerInit(t, c) PROVE now' = now
    BY <2>1 DEF TimerInit
  <2>2. ASSUME NEW t \in Timers, NEW val, TimerStart(t, val) PROVE now' = now
    BY <2>2, Zenon DEF TimerStart
  <2> QED BY <1>1, <2>1, <2>2 DEF TimerCall
<1>3. TimerStopGo => now' = now
  BY DEF TimerStopGo, StopHead
<1>4. EventHandler => now' = now
  BY DEF EventHandler
<1> QED BY <1>2, <1>3, <1>4

LEMMA CallTyped ==
  ASSUME TimeTypeOK, TimerCall
  PROVE  TimeTypeOK'
<1>1. PICK t \in Timers :
        \/ \E c \in Cfgs : TimerInit(t, c)
        \/ \E v \in Values : TimerStart(t, IF cfg[t] = "ABSOLUTE" THEN now + v ELSE v)
        \/ TimerStop(t)
  BY DEF TimerCall
<1>2. ASSUME NEW c \in Cfgs, TimerInit(t, c) PROVE TimeTypeOK'
  BY <1>2, TimerInitTyped
<1>3. ASSUME NEW v \in Values, TimerStart(t, IF cfg[t] = "ABSOLUTE" THEN now + v ELSE v) PROVE TimeTypeOK'
  <2>1. (IF cfg[t] = "ABSOLUTE" THEN now + v ELSE v) \in Nat
    BY TimeConstants DEF TimeTypeOK
  <2> QED BY <1>3, <2>1, TimerStartTyped
<1>4. TimerStop(t) => TimeTypeOK'
  BY TimerStopTyped
<1> QED BY <1>1, <1>2, <1>3, <1>4

-----------------------------------------------------------------------------
(* The timers run.                                                         *)

\* The time since the last update.
Age == now - lastUpd

\* What a timer knows agrees with what is left of it: an absolute one may have more
\* than what is left to its date, if the clock was advanced, and never less.
Agrees(t, c, ini, v, rest, upd, n) ==
  IF c[t] = "ABSOLUTE" THEN ini[t] <= v[t] + upd /\ ini[t] <= rest[t] + n
  ELSE v[t] = rest[t] + (n - upd)

\* The list is in the order of the values, as they were at the last update, and no
\* timer has less left than those before it; the alarm is set for the head, unless
\* that is a day away, and has not been missed.
ListInv   == stopping = None /\ Distinct(list) /\ Range(list) = armed
OrderInv  == Sorted(list, value, [t \in Timers |-> left[t] + Age])
AgreeInv  == \A t \in armed : Agrees(t, cfg, initVal, value, left, lastUpd, now)
AlarmInv  == /\ alarm = AlarmFor(list, value, lastUpd)
             /\ list # <<>> /\ value[Head(list)] < Day => Age <= value[Head(list)]

CoreInv == TimeTypeOK /\ lastUpd <= now /\ ListInv /\ OrderInv /\ AgreeInv /\ AlarmInv

\* There has been an update within a day.
Recent == list # <<>> => Age <= Day

LEMMA CoreFacts ==
  ASSUME TimeTypeOK
  PROVE  /\ now \in Nat /\ lastUpd \in Nat /\ Age \in Int /\ Day \in Nat \ {0}
         /\ list \in Seq(Timers) /\ value \in [Timers -> Nat] /\ initVal \in [Timers -> Nat]
         /\ left \in [Timers -> Int] /\ armed \subseteq Timers /\ cfg \in [Timers -> Cfgs]
<1>1. now \in Nat /\ lastUpd \in Nat
  BY TimeConstants DEF TimeTypeOK
<1>2. Age \in Int
  BY <1>1 DEF Age
<1>3. /\ list \in Seq(Timers) /\ value \in [Timers -> Nat] /\ initVal \in [Timers -> Nat]
      /\ left \in [Timers -> Int] /\ armed \subseteq Timers /\ cfg \in [Timers -> Cfgs]
  BY Zenon DEF TimeTypeOK
<1> QED BY <1>1, <1>2, <1>3, TimeConstants

LEMMA HeadIs ==
  ASSUME NEW l \in Seq(Timers), l # <<>>
  PROVE  Head(l) = l[1] /\ 1 \in 1 .. Len(l) /\ Head(l) \in Timers /\ Head(l) \in Range(l)
<1>1. Head(l) = l[1] /\ 1 \in 1 .. Len(l)
  OBVIOUS
<1> QED BY <1>1, InRange

LEMMA Places ==
  ASSUME NEW l \in Seq(Timers), NEW t \in Range(l)
  PROVE  t \in Timers /\ \E i \in 1 .. Len(l) : l[i] = t
<1>1. PICK i \in DOMAIN l : l[i] = t
  BY DEF Range
<1> QED BY <1>1

\* After an update, the new state is judged by what is left of the timers alone.
LEMMA Settled ==
  ASSUME TimeTypeOK', stopping' = None, lastUpd' = now', Distinct(list'), Range(list') = armed',
         Sorted(list', value', left'), alarm' = AlarmFor(list', value', now'),
         \A t \in armed' : Agrees(t, cfg', initVal', value', left', now', now')
  PROVE  CoreInv'
<1>1. now' \in Nat /\ list' \in Seq(Timers) /\ value' \in [Timers -> Nat] /\ left' \in [Timers -> Int]
  <2>1. now' \in Nat
    BY TimeConstants DEF TimeTypeOK
  <2> QED BY <2>1, Zenon DEF TimeTypeOK
<1>2. Age' = 0 /\ lastUpd' <= now'
  <2>1. now' - now' = 0 /\ now' <= now'
    <3>1. \A n \in Nat : n - n = 0 /\ n <= n
      OBVIOUS
    <3> QED BY <1>1, <3>1, Zenon
  <2>2. Age' = now' - lastUpd'
    BY DEF Age
  <2> QED BY <2>1, <2>2, Zenon
<1>3. OrderInv'
  <2>1. [t \in Timers |-> left'[t] + Age'] = left'
    <3>1. \A t \in Timers : left'[t] + Age' = left'[t]
      BY <1>1, <1>2
    <3>2. [t \in Timers |-> left'[t] + Age'] = [t \in Timers |-> left'[t]]
      BY <3>1
    <3> QED BY <1>1, <3>2
  <2> QED BY <2>1 DEF OrderInv
<1>4. AlarmInv'
  <2>1. list' # <<>> => value'[Head(list')] \in Nat
    BY <1>1, HeadIs
  <2> QED BY <1>2, <2>1 DEF AlarmInv
<1> QED BY <1>2, <1>3, <1>4 DEF CoreInv, ListInv, AgreeInv

\* What the update of the values finds.
LEMMA UpdateFinds ==
  ASSUME CoreInv, Recent, NEW v, v = Updated(list, value)
  PROVE  /\ v \in [Timers -> Nat] /\ Elapsed = Age
         /\ \A t \in armed : left[t] >= 0 /\ (v[t] = 0 => value[t] <= Age)
         /\ Sorted(list, v, left)
         /\ \A t \in armed : Agrees(t, cfg, initVal, v, left, now, now)
<1>1. /\ now \in Nat /\ lastUpd \in Nat /\ Age \in Int /\ Day \in Nat \ {0}
      /\ list \in Seq(Timers) /\ value \in [Timers -> Nat] /\ initVal \in [Timers -> Nat]
      /\ left \in [Timers -> Int] /\ armed \subseteq Timers /\ cfg \in [Timers -> Cfgs]
  BY CoreFacts DEF CoreInv
<1>2. lastUpd <= now /\ Age \in Nat /\ Elapsed = Age /\ now = lastUpd + Age
  BY <1>1 DEF CoreInv, Age, Elapsed
<1>3. /\ v \in [Timers -> Nat]
      /\ \A t \in armed : v[t] = IF value[t] >= Age THEN value[t] - Age ELSE 0
  <2>1. armed = Range(list)
    BY DEF CoreInv, ListInv
  <2> QED BY <1>1, <1>2, <2>1, UpdatedIs DEF CoreInv
<1>4. ASSUME NEW j \in 1 .. Len(list), NEW i \in 1 .. j
      PROVE  value[list[i]] <= left[list[j]] + Age
  <2>1. list[j] \in Timers
    BY <1>1
  <2> QED BY <2>1 DEF CoreInv, OrderInv, Sorted
<1>5. ASSUME NEW t \in armed PROVE left[t] >= 0
  <2>1. PICK j \in 1 .. Len(list) : list[j] = t
    BY <1>1, Places DEF CoreInv, ListInv
  <2>2. list # <<>> /\ Head(list) = list[1] /\ 1 \in 1 .. j /\ Head(list) \in Timers
    BY <1>1, <2>1
  <2>3. value[Head(list)] <= left[t] + Age
    BY <1>4, <2>1, <2>2
  <2>4. Age <= Day /\ (value[Head(list)] < Day => Age <= value[Head(list)])
    BY <2>2 DEF Recent, CoreInv, AlarmInv
  <2> DEFINE x == value[Head(list)]  y == left[t]
  <2>5. x \in Nat /\ y \in Int /\ x <= y + Age /\ Age <= Day /\ (x < Day => Age <= x)
    BY <1>1, <2>2, <2>3, <2>4
  <2> HIDE DEF x, y
  <2>6. y >= 0
    BY <1>1, <2>5
  <2> QED BY <2>6 DEF y
<1>6. Sorted(list, v, left)
  <2> SUFFICES ASSUME NEW j \in 1 .. Len(list), NEW i \in 1 .. j PROVE v[list[i]] <= left[list[j]]
    BY DEF Sorted
  <2>1. i \in 1 .. Len(list) /\ list[i] \in armed /\ list[j] \in armed /\ list[i] \in Timers /\ list[j] \in Timers
    <3>1. i \in 1 .. Len(list)
      OBVIOUS
    <3> QED BY <1>1, <3>1, InRange DEF CoreInv, ListInv
  <2> DEFINE x == value[list[i]]  y == left[list[j]]  z == v[list[i]]
  <2>2. x \in Nat /\ y \in Int /\ y >= 0 /\ x <= y + Age /\ z = IF x >= Age THEN x - Age ELSE 0
    BY <1>1, <1>3, <1>4, <1>5, <2>1
  <2> HIDE DEF x, y, z
  <2>3. z <= y
    BY <1>2, <2>2
  <2> QED BY <2>3 DEF y, z
<1>7. ASSUME NEW t \in armed PROVE Agrees(t, cfg, initVal, v, left, now, now)
  <2> DEFINE x == value[t]  y == left[t]  z == v[t]  a == initVal[t]
  <2>1. x \in Nat /\ y \in Int /\ y >= 0 /\ z = (IF x >= Age THEN x - Age ELSE 0) /\ a \in Nat
    BY <1>1, <1>3, <1>5
  <2>2. CASE cfg[t] = "ABSOLUTE"
    <3>1. a <= x + lastUpd /\ a <= y + now
      BY <2>2 DEF CoreInv, AgreeInv, Agrees
    <3> HIDE DEF x, y, z, a
    <3>2. a <= z + now /\ a <= y + now
      BY <1>1, <1>2, <2>1, <3>1
    <3> QED BY <2>2, <3>2 DEF Agrees, a, y, z
  <2>3. CASE cfg[t] # "ABSOLUTE"
    <3>1. x = y + (now - lastUpd)
      BY <2>3 DEF CoreInv, AgreeInv, Agrees
    <3> HIDE DEF x, y, z, a
    <3>2. z = y + (now - now)
      BY <1>1, <1>2, <2>1, <3>1
    <3> QED BY <2>3, <3>2 DEF Agrees, y, z
  <2> QED BY <2>2, <2>3
<1>8. ASSUME NEW t \in armed, v[t] = 0 PROVE value[t] <= Age
  <2> DEFINE x == value[t]  z == v[t]
  <2>1. x \in Nat /\ z = (IF x >= Age THEN x - Age ELSE 0) /\ z = 0
    BY <1>1, <1>3, <1>8
  <2> HIDE DEF x, z
  <2>2. x <= Age
    BY <1>2, <2>1
  <2> QED BY <2>2 DEF x
<1> QED BY <1>2, <1>3, <1>5, <1>6, <1>7, <1>8

LEMMA CoreInit == TimeInit => CoreInv
<1> SUFFICES ASSUME TimeInit PROVE CoreInv
  OBVIOUS
<1>1. /\ now = 0 /\ list = <<>> /\ lastUpd = 0 /\ alarm = Off /\ stopping = None /\ armed = {}
      /\ left = [t \in Timers |-> 0]
  BY DEF TimeInit
<1>2. Len(list) = 0 /\ Range(list) = {}
  BY <1>1 DEF Range
<1>3. OrderInv /\ ListInv
  BY <1>1, <1>2 DEF OrderInv, ListInv, Sorted, Distinct
<1>4. AgreeInv /\ AlarmInv
  BY <1>1 DEF AgreeInv, AlarmInv, AlarmFor
<1>5. lastUpd <= now
  BY <1>1
<1> QED BY <1>3, <1>4, <1>5, InitTyped DEF CoreInv

\* A step without an update that leaves the times as they are.
LEMMA Undisturbed ==
  ASSUME CoreInv, TimeTypeOK', now' = now, lastUpd' = lastUpd, alarm' = alarm, ListInv',
         Range(list') \subseteq Range(list), list' # <<>> => list # <<>> /\ list'[1] = list[1],
         list' = <<>> => list = <<>>,
         \A v \in [Timers -> Nat], bound \in [Timers -> Int] :
           Sorted(list, v, bound) => Sorted(list', v, bound),
         \A t \in Range(list') : /\ value'[t] = value[t] /\ left'[t] = left[t]
                                /\ cfg'[t] = cfg[t] /\ initVal'[t] = initVal[t]
  PROVE  CoreInv'
<1>1. /\ now \in Nat /\ lastUpd \in Nat /\ Age \in Int /\ Day \in Nat \ {0}
      /\ list \in Seq(Timers) /\ value \in [Timers -> Nat] /\ left \in [Timers -> Int]
  BY CoreFacts DEF CoreInv
<1>2. list' \in Seq(Timers) /\ value' \in [Timers -> Nat] /\ left' \in [Timers -> Int]
  BY Zenon DEF TimeTypeOK
<1>3. Age' = Age /\ lastUpd' <= now'
  BY DEF Age, CoreInv
<1>4. OrderInv'
  <2> DEFINE b == [t \in Timers |-> left[t] + Age]
             c == [t \in Timers |-> left'[t] + Age]
  <2>1. b \in [Timers -> Int] /\ c \in [Timers -> Int]
    BY <1>1, <1>2
  <2>2. Sorted(list', value, b)
    BY <1>1, <2>1 DEF CoreInv, OrderInv
  <2>3. \A t \in Range(list') : value'[t] <= value[t] /\ b[t] <= c[t]
    <3> SUFFICES ASSUME NEW t \in Range(list') PROVE value'[t] <= value[t] /\ b[t] <= c[t]
      OBVIOUS
    <3>1. t \in Timers /\ value'[t] = value[t] /\ left'[t] = left[t]
      BY <1>2, Places
    <3>2. b[t] = c[t] /\ b[t] \in Int /\ value[t] \in Int
      BY <1>1, <2>1, <3>1
    <3> QED BY <3>1, <3>2
  <2> HIDE DEF b, c
  <2>4. Sorted(list', value', c)
    BY <1>1, <1>2, <2>1, <2>2, <2>3, SortedAgain
  <2> QED BY <1>3, <2>4 DEF OrderInv, c
<1>5. AgreeInv'
  <2> SUFFICES ASSUME NEW t \in armed' PROVE Agrees(t, cfg', initVal', value', left', lastUpd', now')
    BY DEF AgreeInv
  <2>1. t \in Range(list') /\ t \in armed
    BY DEF ListInv, CoreInv
  <2>2. Agrees(t, cfg, initVal, value, left, lastUpd, now)
    BY <2>1 DEF CoreInv, AgreeInv
  <2> QED BY <2>1, <2>2 DEF Agrees
<1>6. AlarmInv'
  <2>1. CASE list' = <<>>
    BY <2>1 DEF AlarmInv, AlarmFor, CoreInv
  <2>2. CASE list' # <<>>
    <3>1. list # <<>> /\ Head(list') = Head(list) /\ value'[Head(list')] = value[Head(list)]
      <4>1. list # <<>> /\ list'[1] = list[1]
        BY <2>2
      <4>2. Head(list') = list'[1] /\ Head(list') \in Range(list')
        BY <1>2, <2>2, HeadIs
      <4>3. Head(list) = list[1]
        BY <1>1, <4>1, HeadIs
      <4> QED BY <4>1, <4>2, <4>3, Zenon
    <3>2. AlarmFor(list', value', lastUpd') = AlarmFor(list, value, lastUpd)
      BY <2>2, <3>1, Zenon DEF AlarmFor, AlarmIn
    <3>3. AlarmInv
      BY DEF CoreInv
    <3> QED BY <1>3, <2>2, <3>1, <3>2, <3>3, Zenon DEF AlarmInv
  <2> QED BY <2>1, <2>2
<1> QED BY <1>3, <1>4, <1>5, <1>6 DEF CoreInv

LEMMA InitCore ==
  ASSUME Disciplined, CoreInv, NEW t \in Timers, NEW c \in Cfgs, TimerInit(t, c)
  PROVE  CoreInv' /\ lastUpd' = lastUpd /\ list' = list
<1>1. TimeTypeOK' /\ list \in Seq(Timers)
  BY TimerInitTyped, CoreFacts DEF CoreInv
<1>2. t \notin armed /\ armed = Range(list)
  BY DEF TimerInit, CoreInv, ListInv
<1>3. list' = list
  BY <1>1, <1>2, RemovedIs DEF TimerInit
<1>4. /\ UNCHANGED <<now, lastUpd, alarm, stopping>> /\ armed' = armed
  BY <1>2 DEF TimerInit
<1>5. ListInv'
  BY <1>3, <1>4 DEF CoreInv, ListInv
<1>6. \A u \in Range(list') : /\ value'[u] = value[u] /\ left'[u] = left[u]
                             /\ cfg'[u] = cfg[u] /\ initVal'[u] = initVal[u]
  <2> SUFFICES ASSUME NEW u \in Range(list)
               PROVE  /\ value'[u] = value[u] /\ left'[u] = left[u]
                      /\ cfg'[u] = cfg[u] /\ initVal'[u] = initVal[u]
    BY <1>3
  <2>1. u # t /\ u \in Timers
    BY <1>1, <1>2, Places
  <2>2. /\ value \in [Timers -> Nat] /\ initVal \in [Timers -> Nat] /\ left \in [Timers -> Int]
        /\ cfg \in [Timers -> Cfgs]
    BY CoreFacts DEF CoreInv
  <2> QED BY <2>1, <2>2 DEF TimerInit
<1> QED BY <1>1, <1>3, <1>4, <1>5, <1>6, Undisturbed

LEMMA InnerCore ==
  ASSUME CoreInv, NEW t \in Timers, StopInner(t), ~(list # <<>> /\ Head(list) = t), TimeTypeOK',
         stopping' = stopping
  PROVE  CoreInv' /\ lastUpd' = lastUpd /\ (list' # <<>> => list # <<>>)
<1>1. list \in Seq(Timers) /\ Distinct(list) /\ Range(list) = armed /\ left \in [Timers -> Int]
  BY CoreFacts DEF CoreInv, ListInv
<1>2. /\ list' = Removed(list, t) /\ armed' = armed \ {t} /\ left' = [left EXCEPT ![t] = 0]
      /\ UNCHANGED <<now, cfg, initVal, value, lastUpd, alarm>>
  BY DEF StopInner
<1>3. /\ Distinct(list') /\ Range(list') = Range(list) \ {t}
      /\ list # <<>> /\ list[1] # t => list' # <<>> /\ list'[1] = list[1]
      /\ \A v \in [Timers -> Nat], bound \in [Timers -> Int] :
           Sorted(list, v, bound) => Sorted(list', v, bound)
  BY <1>1, <1>2, RemovedKeeps
<1>4. list # <<>> => list' # <<>> /\ list'[1] = list[1]
  BY <1>1, <1>3, HeadIs
<1>5. list = <<>> => list' = <<>>
  <2>1. list = <<>> => t \notin Range(list)
    BY DEF Range
  <2> QED BY <1>1, <1>2, <2>1, RemovedIs, Zenon
<1>6. ListInv'
  BY <1>1, <1>2, <1>3 DEF ListInv, CoreInv
<1>7. \A u \in Range(list') : left'[u] = left[u]
  <2> SUFFICES ASSUME NEW u \in Range(list') PROVE left'[u] = left[u]
    OBVIOUS
  <2>1. u # t /\ u \in Timers
    BY <1>1, <1>3, Places
  <2> QED BY <1>1, <1>2, <2>1
<1> QED BY <1>2, <1>3, <1>4, <1>5, <1>6, <1>7, Undisturbed

\* Without the head.
LEMMA TailKeeps ==
  ASSUME NEW l \in Seq(Timers), l # <<>>, Distinct(l)
  PROVE  /\ Tail(l) \in Seq(Timers) /\ Distinct(Tail(l)) /\ Range(Tail(l)) = Range(l) \ {Head(l)}
         /\ \A v \in [Timers -> Nat], bound \in [Timers -> Int] :
              Sorted(l, v, bound) => Sorted(Tail(l), v, bound)
<1> DEFINE m == Tail(l)
<1>1. m \in Seq(Timers) /\ Len(m) = Len(l) - 1 /\ Len(l) \in Nat /\ Len(m) \in Nat
      /\ \A i \in 1 .. Len(m) : m[i] = l[i + 1] /\ i + 1 \in 1 .. Len(l)
  OBVIOUS
<1>2. Head(l) = l[1] /\ 1 \in 1 .. Len(l)
  BY HeadIs
<1> HIDE DEF m
<1>3. Distinct(m)
  <2> SUFFICES ASSUME NEW i \in 1 .. Len(m), NEW j \in 1 .. Len(m), m[i] = m[j] PROVE i = j
    BY DEF Distinct
  <2>1. l[i + 1] = l[j + 1] /\ i + 1 \in 1 .. Len(l) /\ j + 1 \in 1 .. Len(l)
    BY <1>1
  <2>2. i + 1 = j + 1
    BY <2>1 DEF Distinct
  <2> QED BY <2>2
<1>4. Range(m) = Range(l) \ {Head(l)}
  <2>1. ASSUME NEW u \in Range(m) PROVE u \in Range(l) /\ u # Head(l)
    <3>1. PICK i \in 1 .. Len(m) : m[i] = u
      BY <1>1, Places
    <3>2. l[i + 1] = u /\ i + 1 \in 1 .. Len(l) /\ i + 1 # 1
      BY <1>1, <3>1
    <3>3. u # l[1]
      BY <1>2, <3>2 DEF Distinct
    <3>4. u \in Range(l)
      BY <3>2, InRange
    <3> QED BY <1>2, <3>3, <3>4
  <2>2. ASSUME NEW u \in Range(l), u # Head(l) PROVE u \in Range(m)
    <3>1. PICK i \in 1 .. Len(l) : l[i] = u
      BY Places
    <3>2. i # 1
      BY <1>2, <2>2, <3>1
    <3>3. i - 1 \in 1 .. Len(m) /\ (i - 1) + 1 = i
      BY <1>1, <3>2
    <3>4. m[i - 1] = u
      BY <1>1, <3>1, <3>3
    <3> QED BY <1>1, <3>3, <3>4, InRange
  <2> QED BY <2>1, <2>2
<1>5. ASSUME NEW v \in [Timers -> Nat], NEW bound \in [Timers -> Int], Sorted(l, v, bound)
      PROVE  Sorted(m, v, bound)
  <2> SUFFICES ASSUME NEW j \in 1 .. Len(m), NEW i \in 1 .. j PROVE v[m[i]] <= bound[m[j]]
    BY DEF Sorted
  <2>1. i \in 1 .. Len(m)
    BY <1>1
  <2>4. m[i] = l[i + 1] /\ m[j] = l[j + 1]
    BY <1>1, <2>1, Zenon
  <2>2. j + 1 \in 1 .. Len(l) /\ i + 1 \in 1 .. j + 1
    BY <1>1
  <2>3. v[l[i + 1]] <= bound[l[j + 1]]
    BY <1>5, <2>2 DEF Sorted
  <2> QED BY <2>3, <2>4, Zenon
<1> QED BY <1>1, <1>3, <1>4, <1>5 DEF m

LEMMA HeadCore ==
  ASSUME CoreInv, Recent, list # <<>>, Head(list) \in Timers, StopHead(Head(list)), stopping' = stopping
  PROVE  CoreInv' /\ lastUpd' = now'
<1> DEFINE t == Head(list)
           l == Removed(Tail(list), t)
           v == Updated(list, value)
           w == Updated(l, value)
<1>1. /\ now \in Nat /\ list \in Seq(Timers) /\ value \in [Timers -> Nat] /\ left \in [Timers -> Int]
      /\ Distinct(list) /\ Range(list) = armed
  BY CoreFacts DEF CoreInv, ListInv
<1>2. /\ v \in [Timers -> Nat] /\ Elapsed = Age /\ Sorted(list, v, left)
      /\ \A u \in armed : Agrees(u, cfg, initVal, v, left, now, now)
  BY UpdateFinds
<1>3. /\ list' = l /\ value' = w /\ alarm' = AlarmFor(l, w, now) /\ lastUpd' = now
      /\ armed' = armed \ {t} /\ left' = [left EXCEPT ![t] = 0]
      /\ UNCHANGED <<now, cfg, initVal>>
  BY DEF StopHead
<1>4. TimeTypeOK'
  <2>1. stopping' \in Timers \cup {None}
    BY DEF CoreInv, ListInv
  <2> QED BY <2>1, StopHeadTyped DEF CoreInv
<1> HIDE DEF v
<1>5. /\ Tail(list) \in Seq(Timers) /\ Distinct(Tail(list)) /\ Range(Tail(list)) = armed \ {t}
      /\ Sorted(Tail(list), v, left)
  BY <1>1, <1>2, TailKeeps
<1>6. l = Tail(list)
  BY <1>5, RemovedIs
<1>7. Range(l) = armed'
  BY <1>3, <1>5, <1>6
<1> HIDE DEF l, t
<1>8. w \in [Timers -> Nat] /\ \A u \in armed' : u \in Timers /\ w[u] = v[u] /\ left'[u] = left[u] /\ u \in armed
  <2>1. /\ w \in [Timers -> Nat] /\ v \in [Timers -> Nat]
        /\ \A u \in Timers : w[u] = IF u \notin Range(l) THEN value[u]
                                   ELSE IF value[u] >= Elapsed THEN value[u] - Elapsed ELSE 0
    <3>1. TimeTypeOK
      BY DEF CoreInv
    <3> HIDE DEF l
    <3> QED BY <1>1, <1>2, <3>1, UpdatedIs DEF w
  <2>2. \A u \in Timers : v[u] = IF u \notin Range(list) THEN value[u]
                                   ELSE IF value[u] >= Elapsed THEN value[u] - Elapsed ELSE 0
    <3>1. TimeTypeOK
      BY DEF CoreInv
    <3> QED BY <1>1, <3>1, UpdatedIs DEF v
  <2> HIDE DEF w
  <2> SUFFICES ASSUME NEW u \in armed'
               PROVE  u \in Timers /\ w[u] = v[u] /\ left'[u] = left[u] /\ u \in armed
    BY <2>1
  <2>3. u \in armed /\ u # t /\ u \in Timers /\ u \in Range(l) /\ u \in Range(list)
    BY <1>1, <1>3, <1>7, Places
  <2>4. w[u] = v[u]
    BY <2>1, <2>2, <2>3, Zenon
  <2> QED BY <1>1, <1>3, <2>3, <2>4
<1> HIDE DEF w
<1>9. Sorted(list', value', left')
  <2>1. \A u \in Range(l) : w[u] <= v[u] /\ left[u] <= left'[u]
    <3> SUFFICES ASSUME NEW u \in armed' PROVE w[u] <= v[u] /\ left[u] <= left'[u]
      BY <1>7
    <3>1. v[u] \in Nat /\ left[u] \in Int /\ w[u] = v[u] /\ left'[u] = left[u]
      BY <1>1, <1>2, <1>8
    <3> QED BY <3>1
  <2>2. l \in Seq(Timers) /\ Sorted(l, v, left)
    BY <1>5, <1>6
  <2>3. left' \in [Timers -> Int]
    BY <1>4, Zenon DEF TimeTypeOK
  <2> QED BY <1>1, <1>2, <1>3, <1>8, <2>1, <2>2, <2>3, SortedAgain
<1>10. \A u \in armed' : Agrees(u, cfg', initVal', value', left', now', now')
  <2> SUFFICES ASSUME NEW u \in armed' PROVE Agrees(u, cfg, initVal, w, left', now, now)
    BY <1>3
  <2>1. Agrees(u, cfg, initVal, v, left, now, now) /\ w[u] = v[u] /\ left'[u] = left[u]
    BY <1>2, <1>8
  <2> QED BY <2>1, Zenon DEF Agrees
<1>11. stopping' = None /\ Distinct(list')
  BY <1>3, <1>5, <1>6 DEF CoreInv, ListInv
<1>12. lastUpd' = now' /\ Range(list') = armed' /\ alarm' = AlarmFor(list', value', now')
  BY <1>3, <1>7
<1> QED BY <1>4, <1>9, <1>10, <1>11, <1>12, Settled

LEMMA StopCore ==
  ASSUME ~Preempt, CoreInv, Recent, NEW t \in Timers, TimerStop(t)
  PROVE  CoreInv' /\ (list' # <<>> => lastUpd' = now' \/ (lastUpd' = lastUpd /\ list # <<>>))
<1>1. TimeTypeOK'
  BY TimerStopTyped DEF CoreInv
<1>2. CASE list # <<>> /\ Head(list) = t
  <2>1. StopHead(Head(list)) /\ stopping' = stopping
    BY <1>2 DEF TimerStop
  <2> QED BY <1>2, <2>1, HeadCore
<1>3. CASE ~(list # <<>> /\ Head(list) = t)
  <2>1. StopInner(t) /\ stopping' = stopping
    BY <1>3 DEF TimerStop
  <2> QED BY <1>1, <1>3, <2>1, InnerCore
<1> QED BY <1>2, <1>3

\* The values that TimeEvt_TimerStart computes.
Started(t, val) ==
  LET v0 == Updated(list, [value EXCEPT ![t] = val])
  IN  IF cfg[t] = "ABSOLUTE" /\ ~(v0[t] <= now) THEN [v0 EXCEPT ![t] = v0[t] - now] ELSE v0

Past(t, val) == cfg[t] = "ABSOLUTE" /\ val <= now

LEMMA StartedIs ==
  ASSUME CoreInv, NEW t \in Timers, t \notin armed, NEW val \in Nat, NEW v, v = Updated(list, value)
  PROVE  /\ Started(t, val) \in [Timers -> Nat]
         /\ \A u \in Timers \ {t} : Started(t, val)[u] = v[u]
         /\ Started(t, val)[t] = IF cfg[t] = "ABSOLUTE" /\ ~Past(t, val) THEN val - now ELSE val
         /\ Updated(list, [value EXCEPT ![t] = val])[t] = val
<1> DEFINE x  == [value EXCEPT ![t] = val]
           v0 == Updated(list, x)
           w  == Started(t, val)
<1>1. now \in Nat /\ value \in [Timers -> Nat] /\ t \notin Range(list) /\ TimeTypeOK
  BY CoreFacts DEF CoreInv, ListInv
<1>2. x \in [Timers -> Nat] /\ x[t] = val /\ \A u \in Timers \ {t} : x[u] = value[u]
  BY <1>1
<1> HIDE DEF x
<1>3. /\ v0 \in [Timers -> Nat]
      /\ \A u \in Timers : v0[u] = IF u \notin Range(list) THEN x[u]
                                  ELSE IF x[u] >= Elapsed THEN x[u] - Elapsed ELSE 0
  BY <1>1, <1>2, UpdatedIs
<1>4. \A u \in Timers : v[u] = IF u \notin Range(list) THEN value[u]
                             ELSE IF value[u] >= Elapsed THEN value[u] - Elapsed ELSE 0
  BY <1>1, UpdatedIs
<1>5. w = IF cfg[t] = "ABSOLUTE" /\ ~(v0[t] <= now) THEN [v0 EXCEPT ![t] = v0[t] - now] ELSE v0
  BY DEF Started, v0, x
<1> HIDE DEF v0, w
<1>6. v0[t] = val
  BY <1>1, <1>2, <1>3
<1>7. \A u \in Timers \ {t} : v0[u] = v[u]
  <2> SUFFICES ASSUME NEW u \in Timers \ {t} PROVE v0[u] = v[u]
    OBVIOUS
  <2>1. x[u] = value[u] /\ u \in Timers
    BY <1>2
  <2> QED BY <1>3, <1>4, <2>1, Zenon
<1>8. CASE cfg[t] = "ABSOLUTE" /\ ~Past(t, val)
  <2>1. w = [v0 EXCEPT ![t] = val - now] /\ val - now \in Nat
    BY <1>1, <1>5, <1>6, <1>8 DEF Past
  <2>2. w \in [Timers -> Nat] /\ w[t] = val - now /\ \A u \in Timers \ {t} : w[u] = v[u]
    BY <1>3, <1>7, <2>1
  <2> QED BY <1>6, <1>8, <2>2 DEF w, v0, x
<1>9. CASE ~(cfg[t] = "ABSOLUTE" /\ ~Past(t, val))
  <2>1. w = v0
    BY <1>5, <1>6, <1>9 DEF Past
  <2> QED BY <1>3, <1>6, <1>7, <1>9, <2>1 DEF w, v0, x
<1> QED BY <1>8, <1>9

LEMMA StartCore ==
  ASSUME Disciplined, CoreInv, Recent, NEW t \in Timers, NEW val \in Nat, TimerStart(t, val)
  PROVE  CoreInv' /\ lastUpd' = now'
<1> DEFINE v    == Updated(list, value)
           w    == Started(t, val)
           past == Past(t, val)
           l    == IF past THEN list ELSE Insert(list, w, t)
<1>1. /\ now \in Nat /\ list \in Seq(Timers) /\ left \in [Timers -> Int] /\ initVal \in [Timers -> Nat]
      /\ Distinct(list) /\ Range(list) = armed /\ armed \subseteq Timers /\ stopping = None
  BY CoreFacts DEF CoreInv, ListInv
<1>2. /\ v \in [Timers -> Nat] /\ Sorted(list, v, left)
      /\ \A u \in armed : Agrees(u, cfg, initVal, v, left, now, now)
  BY UpdateFinds
<1>3. t \notin armed
  BY DEF TimerStart
<1>4. TimeTypeOK'
  BY TimerStartTyped DEF CoreInv
<1>5. /\ w \in [Timers -> Nat] /\ \A u \in Timers \ {t} : w[u] = v[u]
      /\ w[t] = IF cfg[t] = "ABSOLUTE" /\ ~past THEN val - now ELSE val
      /\ Updated(list, [value EXCEPT ![t] = val])[t] = val
  BY <1>3, StartedIs
<1>6. /\ list' = l /\ value' = w /\ alarm' = AlarmFor(l, w, now)
      /\ armed' = IF past THEN armed ELSE armed \cup {t}
      /\ left' = [left EXCEPT ![t] = IF past THEN left[t] ELSE w[t]]
      /\ initVal' = [initVal EXCEPT ![t] = val] /\ lastUpd' = now
      /\ UNCHANGED <<now, cfg, stopping>>
  <2> DEFINE v0 == Updated(list, [value EXCEPT ![t] = val])
             p0 == cfg[t] = "ABSOLUTE" /\ v0[t] <= now
             w0 == IF cfg[t] = "ABSOLUTE" /\ ~p0 THEN [v0 EXCEPT ![t] = v0[t] - now] ELSE v0
             l0 == IF p0 THEN list ELSE Insert(list, w0, t)
  <2>1. /\ list' = l0 /\ value' = w0 /\ alarm' = AlarmFor(l0, w0, now)
        /\ armed' = IF p0 THEN armed ELSE armed \cup {t}
        /\ left' = [left EXCEPT ![t] = IF p0 THEN left[t] ELSE w0[t]]
        /\ initVal' = [initVal EXCEPT ![t] = val] /\ lastUpd' = now
        /\ UNCHANGED <<now, cfg, stopping>>
    BY DEF TimerStart
  <2>2. p0 <=> past
    BY <1>5 DEF Past
  <2>3. w0 = w
    <3> HIDE DEF v0
    <3>1. w = IF cfg[t] = "ABSOLUTE" /\ ~(v0[t] <= now) THEN [v0 EXCEPT ![t] = v0[t] - now] ELSE v0
      BY DEF Started, v0
    <3> QED BY <3>1
  <2> HIDE DEF w0, p0, w, past
  <2>4. l0 = l
    BY <2>2, <2>3, Zenon
  <2> HIDE DEF l0, l
  <2>5. CASE past
    BY <2>1, <2>2, <2>3, <2>4, <2>5, Zenon
  <2>6. CASE ~past
    BY <2>1, <2>2, <2>3, <2>4, <2>6, Zenon
  <2> QED BY <2>5, <2>6, Zenon
<1> HIDE DEF v, w, past
<1>7. \A u \in armed : u \in Timers \ {t} /\ w[u] = v[u] /\ left'[u] = left[u] /\ initVal'[u] = initVal[u]
  BY <1>1, <1>3, <1>5, <1>6
<1>8. left' \in [Timers -> Int]
  BY <1>4, Zenon DEF TimeTypeOK
<1>9. Sorted(list, w, left')
  <2>1. \A u \in Range(list) : w[u] <= v[u] /\ left[u] <= left'[u]
    <3> SUFFICES ASSUME NEW u \in armed PROVE w[u] <= v[u] /\ left[u] <= left'[u]
      BY <1>1
    <3>1. u \in Timers /\ w[u] = v[u] /\ left'[u] = left[u]
      BY <1>7
    <3>2. v[u] \in Nat /\ left[u] \in Int
      BY <1>1, <1>2, <3>1
    <3> QED BY <3>1, <3>2
  <2> QED BY <1>1, <1>2, <1>5, <1>8, <2>1, SortedAgain
<1>10. \A u \in armed : Agrees(u, cfg, initVal', w, left', now, now)
  <2> SUFFICES ASSUME NEW u \in armed PROVE Agrees(u, cfg, initVal', w, left', now, now)
    OBVIOUS
  <2>1. Agrees(u, cfg, initVal, v, left, now, now) /\ w[u] = v[u] /\ left'[u] = left[u] /\ initVal'[u] = initVal[u]
    BY <1>2, <1>7
  <2> QED BY <2>1, Zenon DEF Agrees
<1>11. Distinct(l) /\ Range(l) = armed' /\ Sorted(l, w, left')
       /\ \A u \in armed' : Agrees(u, cfg, initVal', w, left', now, now)
  <2>1. CASE past
    <3>1. l = list /\ armed' = armed
      BY <1>6, <2>1
    <3> QED BY <1>1, <1>9, <1>10, <3>1
  <2>2. CASE ~past
    <3>1. l = Insert(list, w, t) /\ armed' = armed \cup {t} /\ left'[t] = w[t] /\ initVal'[t] = val
      BY <1>1, <1>6, <2>2
    <3>2. w[t] \in Nat /\ w[t] <= left'[t]
      BY <1>5, <3>1
    <3>3. Distinct(l) /\ Range(l) = armed' /\ Sorted(l, w, left')
      <4>1. t \notin Range(list) /\ list \in Seq(Timers) /\ Distinct(list) /\ w \in [Timers -> Nat]
        BY <1>1, <1>3, <1>5
      <4>2. /\ Distinct(Insert(list, w, t)) /\ Range(Insert(list, w, t)) = Range(list) \cup {t}
            /\ Sorted(Insert(list, w, t), w, left')
        BY <1>8, <1>9, <3>2, <4>1, InsertKeeps
      <4> HIDE DEF l
      <4> QED BY <1>1, <3>1, <4>2, Zenon
    <3>4. Agrees(t, cfg, initVal', w, left', now, now)
      <4>1. CASE cfg[t] = "ABSOLUTE"
        <5>1. w[t] = val - now
          BY <1>5, <2>2, <4>1
        <5>2. val <= (val - now) + now
          BY <1>1
        <5> QED BY <3>1, <4>1, <5>1, <5>2 DEF Agrees
      <4>2. CASE cfg[t] # "ABSOLUTE"
        <5> DEFINE x == w[t]
        <5>1. x \in Nat /\ x = x + (now - now)
          BY <1>1, <3>2
        <5> QED BY <3>1, <4>2, <5>1 DEF Agrees
      <4> QED BY <4>1, <4>2
    <3> QED BY <1>10, <3>1, <3>3, <3>4
  <2> QED BY <2>1, <2>2
<1> HIDE DEF l
<1>12. /\ stopping' = None /\ lastUpd' = now' /\ Distinct(list') /\ Range(list') = armed'
       /\ Sorted(list', value', left') /\ alarm' = AlarmFor(list', value', now')
  BY <1>1, <1>6, <1>11
<1>13. \A u \in armed' : Agrees(u, cfg', initVal', value', left', now', now')
  BY <1>6, <1>11
<1> QED BY <1>4, <1>12, <1>13, Settled

\* The clock is never put back.
LEMMA UpdateCore ==
  ASSUME CoreInv, Recent, NEW t \in 0 .. MaxNow, t = 0 \/ t >= now, UpdateTime(t)
  PROVE  CoreInv' /\ (list' # <<>> => lastUpd' = now')
<1> DEFINE v    == Updated(list, value)
           then == IF t = 0 THEN now ELSE t
           w    == IF t = 0 THEN v ELSE Corrected(v, t)
<1>1. /\ now \in Nat /\ list \in Seq(Timers) /\ left \in [Timers -> Int] /\ initVal \in [Timers -> Nat]
      /\ Distinct(list) /\ Range(list) = armed /\ armed \subseteq Timers /\ stopping = None
      /\ TimeTypeOK /\ lastUpd \in Nat /\ lastUpd <= now
  BY CoreFacts DEF CoreInv, ListInv
<1>2. /\ v \in [Timers -> Nat] /\ Sorted(list, v, left)
      /\ \A u \in armed : Agrees(u, cfg, initVal, v, left, now, now)
  BY UpdateFinds
<1>3. TimeTypeOK'
  BY <1>1, UpdateTimeTyped
<1>4. /\ now' = then
      /\ IF list = <<>> THEN UNCHANGED <<value, lastUpd, alarm>>
         ELSE value' = w /\ lastUpd' = then /\ alarm' = AlarmFor(list, w, then)
      /\ UNCHANGED <<list, cfg, initVal, stopping, armed, left>>
  BY DEF UpdateTime
<1>5. then \in Nat /\ then >= now /\ t \in Nat
  BY <1>1, TimeConstants
<1> HIDE DEF v
<1>6. w \in [Timers -> Nat]
  BY <1>1, <1>2, <1>5, CorrectedIs
<1>7. \A u \in armed : w[u] <= v[u] /\ Agrees(u, cfg, initVal, w, left, then, then)
  <2> SUFFICES ASSUME NEW u \in armed
               PROVE  w[u] <= v[u] /\ Agrees(u, cfg, initVal, w, left, then, then)
    OBVIOUS
  <2> DEFINE a == initVal[u]  x == v[u]  y == w[u]  r == left[u]
  <2>1. u \in Timers /\ a \in Nat /\ x \in Nat /\ y \in Nat /\ r \in Int
    BY <1>1, <1>2, <1>6
  <2>2. CASE cfg[u] = "ABSOLUTE"
    <3>1. a <= x + now /\ a <= r + now
      BY <1>2, <2>2 DEF Agrees
    <3>2. y = IF t = 0 THEN x ELSE IF a > t THEN a - t ELSE 0
      <4>1. Corrected(v, t)[u] = IF a > t THEN a - t ELSE 0
        <5>1. u \in Range(list)
          BY <1>1
        <5> QED BY <1>1, <1>2, <1>5, <2>1, <2>2, <5>1, CorrectedIs
      <4> HIDE DEF a, x
      <4>2. CASE t = 0
        BY <4>2 DEF x
      <4>3. CASE t # 0
        BY <4>1, <4>3
      <4> QED BY <4>2, <4>3
    <3>3. t # 0 => then = t
      OBVIOUS
    <3>4. t = 0 => then = now
      OBVIOUS
    <3> HIDE DEF a, x, y, r, then, w
    <3>5. CASE t = 0
      <4>1. y = x /\ then = now
        BY <3>2, <3>4, <3>5
      <4>2. y <= x /\ a <= y + then /\ a <= r + then
        BY <1>1, <2>1, <3>1, <4>1
      <4> QED BY <2>2, <4>2 DEF Agrees, a, x, y, r
    <3>6. CASE t # 0
      <4>1. y = (IF a > t THEN a - t ELSE 0) /\ then = t /\ t >= now
        BY <3>2, <3>3, <3>6
      <4>2. y <= x /\ a <= y + t /\ a <= r + t
        BY <1>1, <1>5, <2>1, <3>1, <4>1
      <4> QED BY <2>2, <4>1, <4>2 DEF Agrees, a, x, y, r
    <3> QED BY <3>5, <3>6
  <2>3. CASE cfg[u] # "ABSOLUTE"
    <3>1. x = r + (now - now)
      BY <1>2, <2>3 DEF Agrees
    <3>2. y = x
      BY <1>1, <1>2, <1>5, <2>1, <2>3, CorrectedIs
    <3> HIDE DEF a, x, y, r, then, w
    <3>3. y <= x /\ y = r + (then - then)
      BY <1>1, <1>5, <2>1, <3>1, <3>2
    <3> QED BY <2>3, <3>3 DEF Agrees, x, y, r
  <2> QED BY <2>2, <2>3
<1> HIDE DEF w, then
<1>8. CASE list # <<>>
  <2>1. Sorted(list, w, left)
    <3>1. \A u \in Range(list) : w[u] <= v[u] /\ left[u] <= left[u]
      <4>1. \A u \in Timers : left[u] \in Int /\ left[u] <= left[u]
        BY <1>1
      <4> QED BY <1>1, <1>7, <4>1
    <3> QED BY <1>1, <1>2, <1>6, <3>1, SortedAgain
  <2>2. /\ stopping' = None /\ lastUpd' = now' /\ Distinct(list') /\ Range(list') = armed'
        /\ Sorted(list', value', left') /\ alarm' = AlarmFor(list', value', now')
    BY <1>1, <1>4, <1>8, <2>1
  <2>3. \A u \in armed' : Agrees(u, cfg', initVal', value', left', now', now')
    BY <1>4, <1>7, <1>8
  <2> QED BY <1>3, <2>2, <2>3, Settled
<1>9. CASE list = <<>>
  <2>1. list' = <<>> /\ armed' = {} /\ lastUpd' = lastUpd /\ alarm' = alarm /\ ListInv'
    <3>1. armed = {}
      BY <1>1, <1>9 DEF Range
    <3> QED BY <1>1, <1>4, <1>9, <3>1 DEF ListInv
  <2>2. OrderInv' /\ AgreeInv'
    BY <2>1 DEF OrderInv, AgreeInv, Sorted
  <2>3. AlarmInv'
    BY <1>9, <2>1 DEF CoreInv, AlarmInv, AlarmFor
  <2>4. lastUpd' <= now'
    BY <1>1, <1>4, <1>5, <2>1
  <2> QED BY <1>3, <2>1, <2>2, <2>3, <2>4 DEF CoreInv
<1> QED BY <1>8, <1>9

\* An alarm is only due when there is a timer.
LEMMA DueHead == CoreInv /\ AlarmDue => list # <<>>
<1> SUFFICES ASSUME CoreInv, AlarmDue, list = <<>> PROVE FALSE
  OBVIOUS
<1>1. alarm = Off
  BY DEF CoreInv, AlarmInv, AlarmFor
<1>2. now % Day \in 0 .. Day - 1
  BY CoreFacts, ModDay DEF CoreInv
<1> QED BY <1>1, <1>2, TimeConstants DEF AlarmDue, Off

LEMMA AlarmCore ==
  ASSUME CoreInv, Recent, EventHandler
  PROVE  /\ CoreInv' /\ lastUpd' = now' /\ list # <<>>
         /\ \A t \in armed : (t \notin armed' \/ left'[t] # left[t]) =>
              left[t] <= 0 \/ (cfg[t] = "ABSOLUTE" /\ now >= initVal[t])
<1> DEFINE v    == Updated(list, value)
           c    == Scanned(list, v)
           over == {t \in Range(list) : v[t] = 0}
           rest == [u \in Timers |-> IF u \in Again(over) THEN initVal[u] ELSE left[u]]
<1>1. /\ now \in Nat /\ list \in Seq(Timers) /\ left \in [Timers -> Int] /\ initVal \in [Timers -> Nat]
      /\ Distinct(list) /\ Range(list) = armed /\ armed \subseteq Timers /\ stopping = None
      /\ lastUpd \in Nat /\ value \in [Timers -> Nat]
  BY CoreFacts DEF CoreInv, ListInv
<1>2. /\ v \in [Timers -> Nat] /\ Sorted(list, v, left)
      /\ \A u \in armed : Agrees(u, cfg, initVal, v, left, now, now)
      /\ \A u \in armed : left[u] >= 0 /\ (v[u] = 0 => value[u] <= Age)
  BY UpdateFinds
<1>3. TimeTypeOK'
  BY EventHandlerTyped DEF CoreInv
<1>4. list # <<>>
  BY DueHead DEF EventHandler
<1>5. /\ list' = c.list /\ value' = c.value /\ alarm' = AlarmFor(c.list, c.value, now)
      /\ armed' = (armed \ over) \cup Again(over)
      /\ left' = [t \in Timers |-> IF t \in Again(over) THEN initVal[t]
                                   ELSE IF t \in over THEN 0 ELSE left[t]]
      /\ lastUpd' = IF list = <<>> THEN lastUpd ELSE now
      /\ UNCHANGED <<now, cfg, initVal, stopping>>
  <2> HIDE DEF v, c, over
  <2> QED BY EventHandlerIs DEF v, c, over
<1> HIDE DEF v
<1>6. c \in States /\ Passed(Range(list), v, left, over, c)
  BY <1>1, <1>2, ScanKeeps
<1> HIDE DEF c
<1>7. over \subseteq armed /\ \A u \in Again(over) : u \in over /\ cfg[u] = "PERIODIC"
  BY <1>1 DEF Again
<1>8. \A u \in over : v[u] = 0
  OBVIOUS
<1> HIDE DEF over
<1>9. /\ Distinct(c.list) /\ Range(c.list) = armed'
      /\ c.value = [u \in Timers |-> IF u \in Again(over) THEN initVal[u] ELSE v[u]]
      /\ Sorted(c.list, c.value, rest) /\ c.list \in Seq(Timers) /\ c.value \in [Timers -> Nat]
  <2>1. c.list \in Seq(Timers) /\ c.value \in [Timers -> Nat]
    BY <1>6 DEF States
  <2> QED BY <1>1, <1>5, <1>6, <2>1 DEF Passed
<1>10. \A u \in armed' : u \in Timers /\ rest[u] = left'[u]
  <2> SUFFICES ASSUME NEW u \in armed' PROVE u \in Timers /\ rest[u] = left'[u]
    OBVIOUS
  <2>1. u \in Timers /\ (u \in over => u \in Again(over))
    BY <1>1, <1>5, <1>7
  <2> QED BY <1>5, <2>1
<1>11. rest \in [Timers -> Int] /\ left' \in [Timers -> Int]
  <2>1. rest \in [Timers -> Int]
    BY <1>1
  <2>2. left' \in [Timers -> Int]
    BY <1>3, Zenon DEF TimeTypeOK
  <2> QED BY <2>1, <2>2
<1>12. Sorted(list', value', left')
  <2>1. \A u \in Range(c.list) : c.value[u] <= c.value[u] /\ rest[u] <= left'[u]
    <3> SUFFICES ASSUME NEW u \in armed' PROVE c.value[u] <= c.value[u] /\ rest[u] <= left'[u]
      BY <1>9
    <3> HIDE DEF rest
    <3>1. u \in Timers /\ rest[u] = left'[u] /\ rest[u] \in Int /\ c.value[u] \in Nat
      <4>1. c.value \in [Timers -> Nat]
        BY <1>9
      <4> QED BY <1>10, <1>11, <4>1
    <3> QED BY <3>1
  <2> HIDE DEF rest
  <2>2. c.list \in Seq(Timers) /\ c.value \in [Timers -> Nat] /\ Sorted(c.list, c.value, rest)
    BY <1>9
  <2>3. Sorted(c.list, c.value, left')
    BY <1>11, <2>1, <2>2, SortedAgain
  <2> QED BY <1>5, <2>3
<1>13. \A u \in armed' : Agrees(u, cfg', initVal', value', left', now', now')
  <2> SUFFICES ASSUME NEW u \in armed' PROVE Agrees(u, cfg, initVal, value', left', now, now)
    BY <1>5
  <2>1. u \in Timers
    BY <1>10
  <2>2. CASE u \in Again(over)
    <3>1. value'[u] = initVal[u] /\ left'[u] = initVal[u] /\ cfg[u] # "ABSOLUTE" /\ initVal[u] \in Nat
      BY <1>1, <1>5, <1>7, <1>9, <2>1, <2>2
    <3>2. initVal[u] = initVal[u] + (now - now)
      BY <1>1, <3>1
    <3> QED BY <3>1, <3>2, Zenon DEF Agrees
  <2>3. CASE u \notin Again(over)
    <3>1. u \in armed /\ u \notin over
      BY <1>5, <2>3
    <3>2. value'[u] = v[u] /\ left'[u] = left[u]
      BY <1>5, <1>9, <2>1, <2>3, <3>1
    <3>3. Agrees(u, cfg, initVal, v, left, now, now)
      BY <1>2, <3>1
    <3> QED BY <3>2, <3>3, Zenon DEF Agrees
  <2> QED BY <2>2, <2>3
<1>14. /\ stopping' = None /\ lastUpd' = now' /\ Distinct(list') /\ Range(list') = armed'
       /\ alarm' = AlarmFor(list', value', now')
  BY <1>1, <1>4, <1>5, <1>9
<1>15. CoreInv'
  BY <1>3, <1>12, <1>13, <1>14, Settled
<1>16. ASSUME NEW t \in armed, t \notin armed' \/ left'[t] # left[t]
       PROVE  left[t] <= 0 \/ (cfg[t] = "ABSOLUTE" /\ now >= initVal[t])
  <2>1. t \in Timers
    BY <1>1
  <2>2. t \in over
    <3> SUFFICES ASSUME t \notin over PROVE FALSE
      OBVIOUS
    <3>1. t \notin Again(over)
      BY <1>7
    <3> QED BY <1>5, <1>16, <2>1, <3>1
  <2>3. Agrees(t, cfg, initVal, v, left, now, now) /\ v[t] = 0 /\ left[t] \in Int /\ initVal[t] \in Nat
    BY <1>1, <1>2, <1>8, <2>1, <2>2
  <2>4. CASE cfg[t] = "ABSOLUTE"
    <3> DEFINE a == initVal[t]
    <3>1. a \in Nat /\ a <= 0 + now
      BY <2>3, <2>4, Zenon DEF Agrees
    <3> HIDE DEF a
    <3>2. now >= a
      BY <1>1, <3>1
    <3> QED BY <2>4, <3>2 DEF a
  <2>5. CASE cfg[t] # "ABSOLUTE"
    <3> DEFINE r == left[t]
    <3>1. 0 = r + (now - now) /\ r \in Int
      BY <2>3, <2>5, Zenon DEF Agrees
    <3> HIDE DEF r
    <3>2. r <= 0
      BY <1>1, <3>1
    <3> QED BY <3>2 DEF r
  <2> QED BY <2>4, <2>5
<1> QED BY <1>4, <1>14, <1>15, <1>16

LEMMA TickCore ==
  ASSUME CoreInv, Tick
  PROVE  CoreInv' /\ list' = list /\ Age' = Age + 1
<1>1. /\ now \in Nat /\ list \in Seq(Timers) /\ left \in [Timers -> Int] /\ initVal \in [Timers -> Nat]
      /\ Range(list) = armed /\ armed \subseteq Timers /\ lastUpd \in Nat /\ value \in [Timers -> Nat]
      /\ Age \in Int /\ Day \in Nat \ {0} /\ lastUpd <= now
  BY CoreFacts DEF CoreInv, ListInv
<1>2. /\ ~AlarmDue /\ now' = now + 1
      /\ left' = [t \in Timers |-> IF t \in armed THEN left[t] - 1 ELSE left[t]]
      /\ UNCHANGED <<list, cfg, initVal, value, lastUpd, alarm, stopping, armed>>
  BY DEF Tick
<1>3. TimeTypeOK'
  BY TickTyped DEF CoreInv
<1>4. now = lastUpd + Age /\ Age' = Age + 1 /\ lastUpd' <= now' /\ Age \in Nat
  <2>1. Age' = (now + 1) - lastUpd
    BY <1>2 DEF Age
  <2>2. Age = now - lastUpd
    BY DEF Age
  <2> QED BY <1>1, <1>2, <2>1, <2>2
<1>5. OrderInv'
  <2> DEFINE b == [t \in Timers |-> left[t] + Age]
             d == [t \in Timers |-> left'[t] + Age']
  <2>1. b \in [Timers -> Int] /\ d \in [Timers -> Int]
    <3>1. \A t \in Timers : left[t] \in Int /\ left'[t] \in Int
      BY <1>1, <1>2
    <3>2. Age' \in Int
      BY <1>1, <1>4
    <3> QED BY <1>1, <3>1, <3>2
  <2>2. Sorted(list, value, b)
    BY DEF CoreInv, OrderInv
  <2>3. ASSUME NEW t \in Range(list) PROVE value[t] <= value[t] /\ b[t] <= d[t]
    <3>1. t \in armed /\ t \in Timers
      BY <1>1
    <3> DEFINE r == left[t]  x == value[t]
    <3>2. r \in Int /\ x \in Nat /\ b[t] = r + Age /\ d[t] = (r - 1) + (Age + 1)
      BY <1>1, <1>2, <1>4, <3>1
    <3> HIDE DEF r, x
    <3>3. x <= x /\ r + Age <= (r - 1) + (Age + 1)
      BY <1>1, <3>2
    <3> QED BY <3>2, <3>3, Zenon DEF x
  <2> HIDE DEF b, d
  <2>4. Sorted(list, value, d)
    BY <1>1, <2>1, <2>2, <2>3, SortedAgain
  <2> QED BY <1>2, <2>4 DEF OrderInv, d
<1>6. AgreeInv'
  <2> SUFFICES ASSUME NEW t \in armed PROVE Agrees(t, cfg, initVal, value, left', lastUpd, now + 1)
    BY <1>2 DEF AgreeInv
  <2> DEFINE r == left[t]  x == value[t]  a == initVal[t]
  <2>1. t \in Timers /\ left'[t] = r - 1 /\ r \in Int /\ x \in Nat /\ a \in Nat
    BY <1>1, <1>2
  <2>2. Agrees(t, cfg, initVal, value, left, lastUpd, now)
    BY DEF CoreInv, AgreeInv
  <2>3. CASE cfg[t] = "ABSOLUTE"
    <3>1. a <= x + lastUpd /\ a <= r + now
      BY <2>2, <2>3 DEF Agrees
    <3> HIDE DEF r, x, a
    <3>2. a <= (r - 1) + (now + 1)
      BY <1>1, <2>1, <3>1
    <3> QED BY <2>1, <2>3, <3>1, <3>2 DEF Agrees, a, x
  <2>4. CASE cfg[t] # "ABSOLUTE"
    <3>1. x = r + (now - lastUpd)
      BY <2>2, <2>4 DEF Agrees
    <3> HIDE DEF r, x, a
    <3>2. x = (r - 1) + ((now + 1) - lastUpd)
      BY <1>1, <2>1, <3>1
    <3> QED BY <2>1, <2>4, <3>2 DEF Agrees, x
  <2> QED BY <2>3, <2>4
<1>7. AlarmInv'
  <2> SUFFICES ASSUME list # <<>>, value[Head(list)] < Day PROVE Age + 1 <= value[Head(list)]
    BY <1>2, <1>4 DEF CoreInv, AlarmInv
  <2> DEFINE x == value[Head(list)]
  <2>1. x \in Nat /\ Age <= x
    BY <1>1, HeadIs DEF CoreInv, AlarmInv
  <2>2. alarm = (lastUpd + x) % Day
    <3>1. alarm = AlarmFor(list, value, lastUpd)
      BY DEF CoreInv, AlarmInv
    <3>2. ~(list = <<>> \/ x >= Day)
      BY <1>1, <2>1
    <3> QED BY <3>1, <3>2, Zenon DEF AlarmFor, AlarmIn
  <2>3. x # Age
    BY <1>2, <1>4, <2>2 DEF AlarmDue
  <2> HIDE DEF x
  <2>4. Age + 1 <= x
    BY <1>4, <2>1, <2>3
  <2> QED BY <2>4 DEF x
<1>8. ListInv'
  BY <1>2 DEF CoreInv, ListInv
<1> QED BY <1>2, <1>3, <1>4, <1>5, <1>6, <1>7, <1>8 DEF CoreInv

\* The tasks and their timers are in order, and no interrupt comes in between.
Careful == Disciplined /\ ~Preempt

\* What the tasks do with the timers.
LEMMA CallsCore ==
  ASSUME Careful, CoreInv, Recent, TimerCall \/ TimerStopGo \/ EventHandler
  PROVE  /\ CoreInv' /\ now' = now
         /\ list' # <<>> => lastUpd' = now' \/ (lastUpd' = lastUpd /\ list # <<>>)
<1>1. now' = now
  BY ClockStays
<1>2. CASE TimerCall
  <2>1. PICK t \in Timers :
          \/ \E c \in Cfgs : TimerInit(t, c)
          \/ \E v \in Values : TimerStart(t, IF cfg[t] = "ABSOLUTE" THEN now + v ELSE v)
          \/ TimerStop(t)
    BY <1>2 DEF TimerCall
  <2>2. ASSUME NEW c \in Cfgs, TimerInit(t, c)
        PROVE  CoreInv' /\ lastUpd' = lastUpd /\ list' = list
    BY <2>2, InitCore DEF Careful
  <2>3. ASSUME NEW v \in Values, TimerStart(t, IF cfg[t] = "ABSOLUTE" THEN now + v ELSE v)
        PROVE  CoreInv' /\ lastUpd' = now'
    <3>1. now \in Nat /\ v \in Nat
      BY CoreFacts, TimeConstants DEF CoreInv
    <3>2. (IF cfg[t] = "ABSOLUTE" THEN now + v ELSE v) \in Nat
      BY <3>1
    <3> QED BY <2>3, <3>2, StartCore DEF Careful
  <2>4. TimerStop(t) =>
          CoreInv' /\ (list' # <<>> => lastUpd' = now' \/ (lastUpd' = lastUpd /\ list # <<>>))
    BY StopCore DEF Careful
  <2> QED BY <1>1, <2>1, <2>2, <2>3, <2>4
<1>3. ~TimerStopGo
  BY DEF CoreInv, ListInv, TimerStopGo
<1>4. CASE EventHandler
  BY <1>1, <1>4, AlarmCore
<1> QED BY <1>2, <1>3, <1>4

\* The list has no more timers than are armed.
LEMMA LengthIs ==
  ASSUME NEW l \in Seq(Timers), Distinct(l)
  PROVE  Len(l) = Cardinality(Range(l))
<1> DEFINE S == 1 .. Len(l)
           T == Range(l)
<1>1. Len(l) \in Nat /\ DOMAIN l = S
  OBVIOUS
<1>2. l \in Bijection(S, T)
  <2>1. l \in [S -> T]
    <3>1. \A i \in S : l[i] \in T
      BY InRange
    <3>2. l = [i \in S |-> l[i]]
      OBVIOUS
    <3> HIDE DEF S, T
    <3> QED BY <3>1, <3>2
  <2>2. \A a, b \in S : l[a] = l[b] => a = b
    BY DEF Distinct
  <2>3. \A t \in T : \E s \in S : l[s] = t
    BY Places
  <2> HIDE DEF S, T
  <2>4. DOMAIN l = S
    BY <1>1 DEF S
  <2> QED BY <2>1, <2>2, <2>3, <2>4 DEF Bijection, Injection, Surjection, IsInjective
<1>3. ExistsBijection(S, T)
  BY <1>2, Zenon DEF ExistsBijection
<1>4. IsFiniteSet(S) /\ Cardinality(S) = Len(l)
  BY <1>1, FS_Interval
<1> HIDE DEF S, T
<1>5. Cardinality(T) = Cardinality(S)
  BY <1>3, <1>4, FS_Bijection
<1> QED BY <1>4, <1>5 DEF T

\* What the core says to a reader.
LEMMA CoreShows ==
  ASSUME CoreInv, Recent
  PROVE  TimeInv /\ NeverLate
<1>1. list \in Seq(Timers) /\ Distinct(list) /\ Range(list) = armed
  BY CoreFacts DEF CoreInv, ListInv
<1>2. TimeInv
  BY <1>1, LengthIs DEF CoreInv, TimeInv, ListIsArmed
<1>3. NeverLate
  BY UpdateFinds DEF NeverLate
<1> QED BY <1>2, <1>3

-----------------------------------------------------------------------------
(* An update every day.                                                    *)

DailyInv ==
  /\ midnight => now % Day = 0
  /\ list # <<>> => IF midnight THEN Age <= Day ELSE Age <= now % Day

DayIInv == CoreInv /\ DailyInv

Advancing == Careful /\ BackBy = {}

LEMMA DailyRecent == DayIInv => Recent
<1> SUFFICES ASSUME DayIInv, list # <<>> PROVE Age <= Day
  BY DEF Recent
<1>1. now \in Nat /\ Age \in Int /\ Day \in Nat \ {0}
  BY CoreFacts DEF DayIInv, CoreInv
<1>2. now % Day \in 0 .. Day - 1
  BY <1>1, ModDay
<1>3. Age <= Day \/ Age <= now % Day
  BY DEF DayIInv, DailyInv
<1> QED BY <1>1, <1>2, <1>3

LEMMA DayInitHolds == DayInit => DayIInv
BY CoreInit DEF DayInit, DayIInv, DailyInv, TimeInit

LEMMA ElapseKeeps ==
  ASSUME DayIInv, Elapse
  PROVE  DayIInv'
<1>1. CoreInv' /\ list' = list /\ Age' = Age + 1 /\ now' = now + 1 /\ ~midnight
  BY TickCore DEF DayIInv, Elapse, Tick
<1>2. now \in Nat /\ Age \in Int /\ Day \in Nat \ {0}
  BY CoreFacts DEF DayIInv, CoreInv
<1>3. now % Day \in 0 .. Day - 1 /\ now' % Day = IF now % Day = Day - 1 THEN 0 ELSE (now % Day) + 1
  BY <1>1, <1>2, ModDay
<1>4. midnight' = (now' % Day = 0)
  BY DEF Elapse
<1>5. DailyInv'
  <2> SUFFICES ASSUME list # <<>>
               PROVE  IF midnight' THEN Age' <= Day ELSE Age' <= now' % Day
    BY <1>1, <1>4 DEF DailyInv
  <2> DEFINE m == now % Day
             n == now' % Day
  <2>1. m \in 0 .. Day - 1 /\ n = (IF m = Day - 1 THEN 0 ELSE m + 1) /\ Age <= m
    BY <1>1, <1>3 DEF DayIInv, DailyInv
  <2> HIDE DEF m, n
  <2>2. IF n = 0 THEN Age + 1 <= Day ELSE Age + 1 <= n
    BY <1>2, <2>1
  <2> QED BY <1>1, <1>4, <2>2 DEF n
<1> QED BY <1>1, <1>5 DEF DayIInv

\* The time of the day is no less than the time since an update of now.
LEMMA JustUpdated ==
  ASSUME TimeTypeOK', lastUpd' = now'
  PROVE  Age' = 0 /\ Age' <= now' % Day /\ Age' <= Day
<1>1. now' \in Nat
  BY TimeConstants DEF TimeTypeOK
<1>2. Age' = 0
  <2>1. \A n \in Nat : n - n = 0
    OBVIOUS
  <2> QED BY <1>1, <2>1, Zenon DEF Age
<1>3. now' % Day \in 0 .. Day - 1 /\ Day \in Nat
  BY <1>1, ModDay, TimeConstants
<1> QED BY <1>2, <1>3

LEMMA UpdateKeeps ==
  ASSUME Advancing, DayIInv, Update
  PROVE  DayIInv'
<1>1. PICK t \in Settings : t \in 0 .. MaxNow /\ UpdateTime(t)
  BY DEF Update
<1>2. t = 0 \/ t >= now
  <2>1. now \in Nat
    BY CoreFacts DEF DayIInv, CoreInv
  <2>2. t = 0 \/ \E a \in AheadBy : t = now + a
    BY DEF Settings, Advancing
  <2>3. \A a \in AheadBy : a \in Nat
    BY DayConstants
  <2> QED BY <2>1, <2>2, <2>3
<1>3. CoreInv' /\ (list' # <<>> => lastUpd' = now')
  BY <1>1, <1>2, DailyRecent, UpdateCore DEF DayIInv
<1>4. ~midnight'
  BY DEF Update
<1>5. list' # <<>> => Age' <= now' % Day
  BY <1>3, JustUpdated DEF CoreInv
<1> QED BY <1>3, <1>4, <1>5 DEF DayIInv, DailyInv

LEMMA CallsKeep ==
  ASSUME Advancing, DayIInv, Alarm \/ Calls
  PROVE  DayIInv'
<1>1. (TimerCall \/ TimerStopGo \/ EventHandler) /\ midnight' = midnight
  BY DEF Alarm, Calls
<1>2. /\ CoreInv' /\ now' = now
      /\ list' # <<>> => lastUpd' = now' \/ (lastUpd' = lastUpd /\ list # <<>>)
  BY <1>1, DailyRecent, CallsCore DEF DayIInv, Advancing
<1>3. DailyInv'
  <2>0. midnight' => now' % Day = 0
    BY <1>1, <1>2 DEF DayIInv, DailyInv
  <2> SUFFICES ASSUME list' # <<>> PROVE DailyInv'
    BY <2>0 DEF DailyInv
  <2>1. CASE lastUpd' = lastUpd /\ list # <<>>
    BY <1>1, <1>2, <2>1 DEF DayIInv, DailyInv, Age
  <2>2. CASE lastUpd' = now'
    <3>1. Age' <= now' % Day /\ Age' <= Day
      BY <1>2, <2>2, JustUpdated DEF CoreInv
    <3> QED BY <2>0, <3>1 DEF DailyInv
  <2> QED BY <1>2, <2>1, <2>2
<1> QED BY <1>2, <1>3 DEF DayIInv

LEMMA DayStep == Advancing /\ DayIInv /\ [DayNext]_mcVars => DayIInv'
<1> SUFFICES ASSUME Advancing, DayIInv, [DayNext]_mcVars PROVE DayIInv'
  OBVIOUS
<1>1. CASE UNCHANGED mcVars
  <2>1. UNCHANGED <<now, list, cfg, initVal, value, lastUpd, alarm, stopping, armed, left, midnight>>
    BY <1>1 DEF mcVars, timeVars
  <2>2. CoreInv'
    BY <2>1 DEF DayIInv, CoreInv, TimeTypeOK, ListInv, OrderInv, AgreeInv, AlarmInv, Age
  <2> QED BY <2>1, <2>2 DEF DayIInv, DailyInv, Age
<1> QED BY <1>1, ElapseKeeps, UpdateKeeps, CallsKeep DEF DayNext

\* As long as a task starts or initialises only a timer that is not armed, no interrupt
\* comes into TimeEvt_TimerStop and the clock is not put back: the list holds the
\* armed timers, each once (_insert, _remove).
THEOREM TimeInvAlways == Advancing => (DaySpec => []TimeInv)
<1> SUFFICES ASSUME Advancing PROVE DaySpec => []TimeInv
  OBVIOUS
<1>1. DayIInv => TimeInv
  BY DailyRecent, CoreShows DEF DayIInv
<1> QED BY <1>1, DayInitHolds, DayStep, PTL DEF DaySpec

\* And no timer is late: the alarm is set for the first of them, and what is a day away
\* is reached by way of the updates at midnight (_timer_start).
THEOREM NeverLateAlways == Advancing => (DaySpec => []NeverLate)
<1> SUFFICES ASSUME Advancing PROVE DaySpec => []NeverLate
  OBVIOUS
<1>1. DayIInv => NeverLate
  BY DailyRecent, CoreShows DEF DayIInv
<1> QED BY <1>1, DayInitHolds, DayStep, PTL DEF DaySpec

\* And the interrupt notifies no timer before its time (_update, TimeEvt_EventHandler).
THEOREM NeverEarlyAlways == Advancing => (DaySpec => NeverEarly)
<1> DEFINE Early == EventHandler => \A t \in armed :
             (t \notin armed' \/ left'[t] # left[t]) =>
                left[t] <= 0 \/ (cfg[t] = "ABSOLUTE" /\ now >= initVal[t])
<1> SUFFICES ASSUME Advancing PROVE DaySpec => [][Early]_timeVars
  BY DEF NeverEarly
<1>1. DayIInv => Early
  BY DailyRecent, AlarmCore DEF DayIInv
<1> HIDE DEF Early
<1> QED BY <1>1, DayInitHolds, DayStep, PTL DEF DaySpec

-----------------------------------------------------------------------------
(* The time manager.                                                       *)

\* An epoch that is pending was in CLOCK_CURRENT_EPOC.
PendInv == pend.kind = "epoch" => pend.value \in Nat

MgrIInv == TimeMgrInv /\ PendInv

LEMMA DriftsIs ==
  ASSUME NEW d \in Drifts
  PROVE  d.value \in Int /\ d.period \in 0 .. 255 /\ (d.value # 0 => d.value \in Steps)
<1>1. CASE d = NoDrift
  BY <1>1 DEF NoDrift
<1>2. CASE d \in [value : Steps, period : Periods]
  <2>1. d.value \in Steps /\ d.period \in Periods
    BY <1>2
  <2>2. Steps \subseteq Int /\ Periods \subseteq 0 .. 255
    BY TimeMgrConstants DEF Steps
  <2> QED BY <2>1, <2>2
<1> QED BY <1>1, <1>2 DEF Drifts

LEMMA MovedIs ==
  ASSUME TimeTypeOK, NEW by \in Int
  PROVE  Moved(by) \in Nat /\ (by >= 0 => Moved(by) = now + by)
<1>1. now \in Nat
  BY TimeConstants DEF TimeTypeOK
<1> QED BY <1>1 DEF Moved

\* A number below the modulus is its own remainder.
LEMMA ModSmall ==
  ASSUME NEW m \in Nat \ {0}, NEW x \in Nat, x < m
  PROVE  x % m = x
OBVIOUS

\* The wake-up timer that is reloaded sec seconds after midnight fires one second after
\* the next midnight, or two in the range of 17 bits (bsp_rtc.c:343): a midnight is
\* neither skipped nor announced.
THEOREM WakesAfterMidnight ==
  \A sec \in Nat : sec < WakeupPeriod =>
    FiresIn(Reload(sec)) \in {WakeupPeriod - sec + 1, WakeupPeriod - sec + 2}
<1> SUFFICES ASSUME NEW sec \in Nat, sec < WakeupPeriod
             PROVE  FiresIn(Reload(sec)) \in {WakeupPeriod - sec + 1, WakeupPeriod - sec + 2}
  OBVIOUS
<1>1. PICK d \in Int : d = WakeupPeriod - sec /\ d >= 1 /\ d <= 86400
  BY DEF WakeupPeriod
<1>2. WakeupPeriod - (sec % WakeupPeriod) = d
  BY <1>1, ModSmall DEF WakeupPeriod
<1>3. CASE d > 65535
  <2>1. (d - 65535) % 65536 = d - 65535
    BY <1>1, <1>3
  <2>2. Reload(sec) = [wutr |-> d - 65535, bits |-> 17]
    BY <1>2, <1>3, <2>1 DEF Reload
  <2>3. FiresIn(Reload(sec)) = d + 2
    BY <1>1, <2>2 DEF FiresIn
  <2> QED BY <1>1, <2>3
<1>4. CASE ~(d > 65535)
  <2>1. d % 65536 = d
    BY <1>1, <1>4
  <2>2. Reload(sec) = [wutr |-> d, bits |-> 16]
    BY <1>2, <1>4, <2>1 DEF Reload
  <2>3. FiresIn(Reload(sec)) = d + 1
    BY <1>1, <2>2 DEF FiresIn
  <2> QED BY <1>1, <2>3
<1> QED BY <1>3, <1>4

\* Whole ticks of a number of seconds.
LEMMA WholeTicks ==
  ASSUME NEW q \in Nat, NEW k \in 0 .. TickSec - 1
  PROVE  (TickSec * q + k) \div TickSec = q
BY TimeMgrConstants

\* The time to midnight in ticks is what is left of the day.
LEMMA ToMidnightIs ==
  ASSUME NEW n \in Nat
  PROVE  ToMidnight(n) \in 1 .. Day /\ ToMidnight(n) = Day - (n % Day)
<1>1. PICK r \in 0 .. Day - 1 : r = n % Day
  BY ModDay
<1>2. PICK q \in Nat : q = Day - r /\ q \in 1 .. Day
  BY <1>1, TimeConstants
<1>3. TickSec \in Nat /\ TickSec > 2 /\ Day * TickSec = WakeupPeriod /\ Day \in Nat
  BY TimeMgrConstants, TimeConstants
<1>4. r * TickSec \in Nat /\ TickSec * q = WakeupPeriod - r * TickSec /\ TickSec * q >= TickSec
  BY <1>1, <1>2, <1>3
<1>5. r * TickSec < WakeupPeriod /\ WakeupPeriod \in Nat
  BY <1>3, <1>4 DEF WakeupPeriod
<1>6. PICK k \in {1, 2} : FiresIn(Reload(r * TickSec)) = WakeupPeriod - (r * TickSec) + k
  BY <1>4, <1>5, WakesAfterMidnight
<1>7. TickSec * q \in Int
  BY <1>2, <1>3
<1>8. FiresIn(Reload(r * TickSec)) = TickSec * q + k
  BY <1>4, <1>6, <1>7
<1>9. ToMidnight(n) = q
  <2>1. k \in 0 .. TickSec - 1
    BY <1>3, <1>6
  <2> QED BY <1>1, <1>2, <1>8, <2>1, WholeTicks DEF ToMidnight
<1> QED BY <1>1, <1>2, <1>9, TimeConstants

\* The facts that every step starts from.
LEMMA MgrFacts ==
  ASSUME MgrIInv
  PROVE  /\ TimeTypeOK /\ now \in 0 .. MaxNow /\ now \in Nat /\ Day \in Nat \ {0}
         /\ curEpoch \in 0 .. MaxNow \cup Epochs /\ curEpoch \in Nat
         /\ epoch \in 0 .. MaxNow /\ epoch \in Nat
         /\ curOffset \in Steps \cup {0} /\ curOffset \in Int
         /\ curDrift \in Drifts /\ drift \in Drifts
         /\ pend \in [kind : {"none", "epoch", "offset"}, value : Int]
         /\ daysCnt \in 0 .. 255 /\ wakeIn \in 1 .. Day
         /\ clockInit \in BOOLEAN /\ notified \in BOOLEAN /\ storing \in BOOLEAN /\ fresh \in BOOLEAN
         /\ nights \in Nat
         /\ ~notified => wakeIn <= Day - (now % Day)
<1> USE DEF MgrIInv, TimeMgrInv, MgrTypeOK
<1>1. TimeTypeOK /\ now \in 0 .. MaxNow /\ now \in Nat
  BY TimeConstants DEF TimeTypeOK
<1>2. curEpoch \in Nat /\ epoch \in Nat
  BY TimeConstants, TimeMgrConstants
<1>3. curOffset \in Int
  BY TimeMgrConstants DEF Steps
<1> QED BY <1>1, <1>2, <1>3, TimeConstants DEF MidnightSeen

LEMMA MgrInitHolds == MgrInit => MgrIInv
<1> SUFFICES ASSUME MgrInit PROVE MgrIInv
  OBVIOUS
<1>1. TimeTypeOK /\ now = 0
  BY InitTyped DEF MgrInit, TimeInit
<1>2. 0 \in Nat /\ 0 \in 0 .. MaxNow /\ 0 \in 0 .. 255
  BY TimeConstants
<1>3. wakeIn \in 1 .. Day /\ wakeIn = Day - (0 % Day)
  BY <1>2, ToMidnightIs DEF MgrInit
<1>4. NoDrift \in Drifts
  BY DEF Drifts
<1>5. Nothing \in [kind : {"none", "epoch", "offset"}, value : Int] /\ Nothing.kind = "none"
  BY DEF Nothing
<1>6. MgrTypeOK
  BY <1>1, <1>2, <1>3, <1>4, <1>5 DEF MgrInit, MgrTypeOK
<1>7. MidnightSeen
  BY <1>1, <1>3, TimeConstants, ModDay DEF MidnightSeen
<1>8. PendInv
  BY <1>5 DEF PendInv, MgrInit
<1> QED BY <1>6, <1>7, <1>8 DEF MgrIInv, TimeMgrInv

LEMMA TimeTypesStay ==
  ASSUME TimeTypeOK, UNCHANGED timeVars
  PROVE  TimeTypeOK'
BY DEF TimeTypeOK, timeVars

LEMMA WriteKeeps ==
  ASSUME MgrIInv, Write
  PROVE  MgrIInv'
<1>1. TimeTypeOK' /\ now' = now
  BY MgrFacts, TimeTypesStay DEF Write, timeVars
<1>2. curEpoch' \in 0 .. MaxNow \cup Epochs /\ curOffset' \in Steps \cup {0} /\ curDrift' \in Drifts
  BY MgrFacts DEF Write
<1>3. UNCHANGED <<epoch, pend, drift, daysCnt, clockInit, wakeIn, notified, storing, nights, fresh>>
  BY DEF Write
<1> QED BY <1>1, <1>2, <1>3 DEF MgrIInv, TimeMgrInv, MgrTypeOK, MidnightSeen, PendInv

LEMMA PollKeeps ==
  ASSUME MgrIInv, Poll
  PROVE  MgrIInv'
<1> DEFINE changed == epoch # 0 /\ curEpoch # epoch
<1>1. TimeTypeOK' /\ now' = now
  BY MgrFacts, TimeTypesStay DEF Poll, timeVars
<1>2. /\ drift' = curDrift /\ daysCnt' = DriftSeen /\ curOffset' = 0 /\ storing' = TRUE
      /\ nights' = IF curDrift # drift THEN 0 ELSE nights
      /\ pend' = IF changed THEN [kind |-> "epoch", value |-> curEpoch]
                 ELSE IF curOffset # 0 THEN [kind |-> "offset", value |-> curOffset] ELSE pend
      /\ clockInit' = (clockInit \/ changed)
      /\ wakeIn' = IF changed /\ ~clockInit THEN 1 ELSE wakeIn
      /\ UNCHANGED <<curEpoch, curDrift, epoch, notified, fresh>> /\ ~notified
  BY DEF Poll
<1> HIDE DEF changed
<1>3. daysCnt' \in 0 .. 255
  BY <1>2, MgrFacts, DriftsIs DEF DriftSeen
<1>4. pend' \in [kind : {"none", "epoch", "offset"}, value : Int]
  BY <1>2, MgrFacts
<1>5. PendInv'
  BY <1>2, MgrFacts DEF PendInv, MgrIInv
<1>6. wakeIn' \in 1 .. Day /\ wakeIn' <= Day - (now % Day)
  <2>1. now % Day \in 0 .. Day - 1 /\ wakeIn \in 1 .. Day /\ Day \in Nat /\ wakeIn <= Day - (now % Day)
    BY <1>2, MgrFacts, ModDay
  <2>2. wakeIn' \in {1, wakeIn}
    BY <1>2
  <2> QED BY <2>1, <2>2
<1>7. clockInit' \in BOOLEAN /\ nights' \in Nat
  BY <1>2, MgrFacts DEF changed
<1>8. MgrTypeOK'
  BY <1>1, <1>2, <1>3, <1>4, <1>6, <1>7, MgrFacts DEF MgrTypeOK
<1>9. MidnightSeen'
  BY <1>1, <1>6 DEF MidnightSeen
<1> QED BY <1>5, <1>8, <1>9 DEF MgrIInv, TimeMgrInv

LEMMA StoreKeeps ==
  ASSUME MgrIInv, Store
  PROVE  MgrIInv'
<1>1. TimeTypeOK' /\ now' = now
  BY MgrFacts, TimeTypesStay DEF Store, timeVars
<1>2. epoch' \in 0 .. MaxNow /\ curEpoch' \in 0 .. MaxNow \cup Epochs /\ storing' \in BOOLEAN
  BY MgrFacts DEF Store
<1>3. UNCHANGED <<curOffset, curDrift, pend, drift, daysCnt, clockInit, wakeIn, notified, nights, fresh>>
  BY DEF Store
<1> QED BY <1>1, <1>2, <1>3 DEF MgrIInv, TimeMgrInv, MgrTypeOK, MidnightSeen, PendInv

LEMMA CorrectionIs ==
  ASSUME MgrIInv
  PROVE  Correction \in Nat
<1>1. pend.kind = "epoch" => pend.value \in Nat
  BY DEF MgrIInv, PendInv
<1>2. pend.value \in Int /\ drift.value \in Int
  BY MgrFacts, DriftsIs
<1>3. Moved(pend.value) \in Nat /\ Moved(drift.value) \in Nat
  BY <1>2, MgrFacts, MovedIs
<1> QED BY <1>1, <1>3 DEF Correction

LEMMA WakeKeeps ==
  ASSUME MgrIInv, Wake
  PROVE  MgrIInv'
<1>1. Correction \in 0 .. MaxNow /\ UpdateTime(Correction)
  BY CorrectionIs, TimeConstants DEF Wake
<1>2. TimeTypeOK'
  BY <1>1, MgrFacts, UpdateTimeTyped
<1>3. now' \in Nat
  BY <1>2, TimeConstants DEF TimeTypeOK
<1>4. wakeIn' \in 1 .. Day /\ wakeIn' = Day - (now' % Day)
  BY <1>3, ToMidnightIs DEF Wake
<1>5. daysCnt' \in 0 .. 255
  <2>1. daysCnt \in 0 .. 255 /\ drift.period \in 0 .. 255
    BY MgrFacts, DriftsIs
  <2>2. OneDayLess \in 0 .. 255
    BY <2>1 DEF OneDayLess
  <2> QED BY <2>1, <2>2 DEF Wake, DaysLeft
<1>6. pend' \in [kind : {"none", "epoch", "offset"}, value : Int] /\ pend'.kind = "none"
  BY DEF Wake, Nothing
<1>7. nights' \in Nat /\ epoch' \in 0 .. MaxNow /\ notified' \in BOOLEAN /\ fresh' \in BOOLEAN
  <2>1. nights' \in {0, nights} /\ epoch' = 0 /\ notified' = FALSE /\ fresh' = (now' > now)
    BY DEF Wake
  <2>2. nights \in Nat /\ MaxNow \in Nat
    BY MgrFacts, TimeConstants
  <2>3. fresh' \in BOOLEAN
    <3>1. fresh' = (now' > now)
      BY <2>1
    <3>2. CASE now' > now
      BY <3>1, <3>2
    <3>3. CASE ~(now' > now)
      BY <3>1, <3>3
    <3> QED BY <3>2, <3>3
  <2>4. nights' \in Nat
    BY <2>1, <2>2
  <2>5. epoch' \in 0 .. MaxNow
    <3>1. epoch' = 0
      BY <2>1
    <3> QED BY <2>2, <3>1
  <2>6. notified' \in BOOLEAN
    <3>1. notified' = FALSE
      BY <2>1
    <3> QED BY <3>1
  <2> QED BY <2>3, <2>4, <2>5, <2>6
<1>8. UNCHANGED <<curEpoch, curOffset, curDrift, drift, clockInit, storing>>
  BY DEF Wake
<1>9. MgrTypeOK'
  BY <1>2, <1>4, <1>5, <1>6, <1>7, <1>8, MgrFacts DEF MgrTypeOK
<1>10. MidnightSeen' /\ PendInv'
  <2>1. now' % Day \in Int
    BY <1>3, ModDay
  <2> QED BY <1>4, <1>6, <2>1, TimeConstants DEF MidnightSeen, PendInv
<1> QED BY <1>9, <1>10 DEF MgrIInv, TimeMgrInv

LEMMA MgrTickKeeps ==
  ASSUME MgrIInv, MgrTick
  PROVE  MgrIInv'
<1>1. TimeTypeOK'
  BY MgrFacts, TickTyped DEF MgrTick
<1>2. /\ ~notified /\ now' = now + 1 /\ wakeIn' = IF wakeIn = 1 THEN Day ELSE wakeIn - 1
      /\ notified' = (wakeIn = 1) /\ fresh' = (now' % Day # 0)
      /\ nights' \in {nights, nights + 1}
      /\ UNCHANGED <<curEpoch, curOffset, curDrift, epoch, pend, drift, daysCnt, clockInit, storing>>
  BY DEF MgrTick, Tick, WakeUp
<1>3. wakeIn' \in 1 .. Day /\ nights' \in Nat /\ notified' \in BOOLEAN /\ fresh' \in BOOLEAN
  BY <1>2, MgrFacts
<1>4. MgrTypeOK'
  BY <1>1, <1>2, <1>3, MgrFacts DEF MgrTypeOK
<1>5. MidnightSeen'
  <2>1. now % Day \in 0 .. Day - 1 /\ ((now + 1) % Day = 0 \/ (now + 1) % Day = (now % Day) + 1)
    BY MgrFacts, ModDay
  <2>2. ~notified' => wakeIn' = wakeIn - 1 /\ wakeIn <= Day - (now % Day)
    BY <1>2, MgrFacts
  <2>3. wakeIn \in 1 .. Day /\ Day \in Nat
    BY MgrFacts
  <2> QED BY <1>2, <2>1, <2>2, <2>3 DEF MidnightSeen
<1>6. PendInv'
  BY <1>2 DEF PendInv, MgrIInv
<1> QED BY <1>4, <1>5, <1>6 DEF MgrIInv, TimeMgrInv

LEMMA TimeEventsKeep ==
  ASSUME MgrIInv, TimeEvents
  PROVE  MgrIInv'
<1>1. TimeTypeOK'
  BY MgrFacts, CallTyped, TimerStopGoTyped, EventHandlerTyped DEF TimeEvents
<1>2. now' = now
  BY ClockStays DEF TimeEvents
<1>3. UNCHANGED mgrVars
  BY DEF TimeEvents
<1> QED BY <1>1, <1>2, <1>3 DEF mgrVars, MgrIInv, TimeMgrInv, MgrTypeOK, MidnightSeen, PendInv

LEMMA MgrStep == MgrIInv /\ [MgrNext]_allVars => MgrIInv'
<1> SUFFICES ASSUME MgrIInv, [MgrNext]_allVars PROVE MgrIInv'
  OBVIOUS
<1>1. CASE UNCHANGED allVars
  <2>1. UNCHANGED timeVars /\ UNCHANGED mgrVars
    BY <1>1 DEF allVars
  <2>2. TimeTypeOK' /\ now' = now
    BY <2>1, MgrFacts, TimeTypesStay DEF timeVars
  <2> QED BY <2>1, <2>2 DEF mgrVars, MgrIInv, TimeMgrInv, MgrTypeOK, MidnightSeen, PendInv
<1> QED BY <1>1, WriteKeeps, PollKeeps, StoreKeeps, WakeKeeps, MgrTickKeeps, TimeEventsKeep DEF MgrNext

\* The types of the time manager and the timers; and the task is woken at every midnight of
\* the clock, whatever corrections come (_time_wakeup_reload), whatever the tasks do with their timers.
THEOREM TimeMgrInvAlways == MgrSpec => []TimeMgrInv
<1>1. MgrIInv => TimeMgrInv
  BY DEF MgrIInv
<1> QED BY <1>1, MgrInitHolds, MgrStep, PTL DEF MgrSpec

-----------------------------------------------------------------------------
(* The pace of the drift.                                                  *)

\* The wake-up that runs, as far as it is still to come.
ToWake == IF notified THEN 0 ELSE wakeIn

\* The days left and those gone are no less than the period; one more when the
\* task is about to count the day.
Counted ==
  IF notified /\ pend.kind = "none" THEN daysCnt + nights >= drift.period + 1
  ELSE daysCnt + nights >= drift.period

\* Without a pending correction the wake-up is at midnight and nowhere else, and the
\* clock is never put back: what is pending is ahead of it.
PaceInv ==
  /\ fresh \/ now % Day = 0
  /\ pend.kind = "none" => IF notified THEN now % Day = 0 ELSE wakeIn = Day - (now % Day)
  /\ pend.kind = "offset" => pend.value \in Ahead
  /\ pend.kind = "epoch" => pend.value > now + ToWake
  /\ epoch # 0 /\ curEpoch # epoch => curEpoch > now + ToWake
  /\ Counted

Forward == Back = {} /\ Lead > Day

LEMMA StepsAhead ==
  ASSUME Forward
  PROVE  Steps = Ahead /\ \A a \in Ahead : a \in Nat /\ a > 0
BY TimeMgrConstants DEF Forward, Steps

LEMMA PaceInit == Forward /\ MgrInit => PaceInv
<1> SUFFICES ASSUME MgrInit PROVE PaceInv
  OBVIOUS
<1>1. /\ now = 0 /\ wakeIn = Day - (0 % Day) /\ pend.kind = "none" /\ epoch = 0 /\ notified = FALSE
      /\ daysCnt = 0 /\ nights = 0 /\ drift.period = 0
  BY ToMidnightIs DEF MgrInit, TimeInit, Nothing, NoDrift
<1>2. 0 % Day = 0
  BY ModDay
<1> QED BY <1>1, <1>2 DEF PaceInv, Counted

LEMMA PaceWrite ==
  ASSUME Forward, MgrIInv, PaceInv, Write
  PROVE  PaceInv'
<1>1. UNCHANGED <<now, epoch, pend, drift, daysCnt, wakeIn, notified, nights, fresh>>
  BY DEF Write, timeVars
<1>2. curEpoch' = curEpoch \/ (curEpoch' \in Epochs /\ curEpoch' >= now + Lead)
  BY DEF Write
<1>3. curEpoch' # curEpoch => curEpoch' > now + ToWake
  <2>1. curEpoch' \in Epochs => curEpoch' \in Nat
    BY TimeMgrConstants
  <2>2. Lead > Day /\ Lead \in Nat /\ Day \in Nat /\ wakeIn \in 1 .. Day /\ now \in Nat /\ ToWake \in 0 .. Day
    BY MgrFacts, TimeMgrConstants DEF Forward, ToWake
  <2> QED BY <1>2, <2>1, <2>2
<1>4. ToWake' = ToWake /\ (Counted <=> Counted')
  BY <1>1 DEF ToWake, Counted
<1> QED BY <1>1, <1>3, <1>4 DEF PaceInv

LEMMA SoonerYet ==
  ASSUME NEW n \in Nat, NEW w \in Nat, NEW s \in Nat, NEW c \in Nat, s <= w, c > n + w
  PROVE  c > n + s
OBVIOUS

LEMMA PacePoll ==
  ASSUME Forward, MgrIInv, PaceInv, Poll
  PROVE  PaceInv'
<1> DEFINE changed == epoch # 0 /\ curEpoch # epoch
<1>1. /\ drift' = curDrift /\ daysCnt' = DriftSeen
      /\ nights' = IF curDrift # drift THEN 0 ELSE nights
      /\ pend' = IF changed THEN [kind |-> "epoch", value |-> curEpoch]
                 ELSE IF curOffset # 0 THEN [kind |-> "offset", value |-> curOffset] ELSE pend
      /\ wakeIn' = IF changed /\ ~clockInit THEN 1 ELSE wakeIn
      /\ UNCHANGED <<now, curEpoch, epoch, notified, fresh>> /\ ~notified
  BY DEF Poll, timeVars
<1> HIDE DEF changed
<1>2. /\ now \in Nat /\ wakeIn \in 1 .. Day /\ Day \in Nat /\ curEpoch \in Nat /\ daysCnt \in 0 .. 255
      /\ nights \in Nat /\ curDrift.period \in 0 .. 255
  BY MgrFacts, DriftsIs
<1>3. ToWake = wakeIn /\ ToWake' = wakeIn' /\ wakeIn' \in Nat /\ wakeIn' <= wakeIn
  BY <1>1, <1>2 DEF ToWake
<1>4. pend'.kind = "none" => pend' = pend /\ ~changed /\ wakeIn' = wakeIn
  BY <1>1
<1>5. pend'.kind = "offset" => pend'.value \in Ahead
  BY <1>1, MgrFacts, StepsAhead DEF PaceInv
<1>6. changed => curEpoch > now + wakeIn
  BY <1>3 DEF changed, PaceInv
<1>7. pend'.kind = "epoch" => pend'.value > now + wakeIn'
  <2> SUFFICES ASSUME pend'.kind = "epoch" PROVE pend'.value > now + wakeIn'
    OBVIOUS
  <2>1. CASE changed
    BY <1>1, <1>2, <1>3, <1>6, <2>1
  <2>2. CASE ~changed
    <3>1. pend' = pend /\ wakeIn' = wakeIn
      BY <1>1, <2>2
    <3> QED BY <1>3, <3>1 DEF PaceInv
  <2> QED BY <2>1, <2>2
<1>8. epoch # 0 /\ curEpoch # epoch => curEpoch > now + wakeIn'
  <2>1. /\ now \in Nat /\ wakeIn \in Nat /\ wakeIn' \in Nat /\ wakeIn' <= wakeIn
        /\ curEpoch \in Nat
    BY <1>2, <1>3
  <2>2. changed => curEpoch > now + wakeIn'
    <3> SUFFICES ASSUME changed PROVE curEpoch > now + wakeIn'
      OBVIOUS
    <3>1. curEpoch > now + wakeIn
      BY <1>6
    <3> QED BY <2>1, <3>1, SoonerYet
  <2> QED BY <2>2 DEF changed
<1>9. Counted'
  <2>1. daysCnt + nights >= drift.period
    BY <1>1 DEF PaceInv, Counted
  <2>2. daysCnt' + nights' >= drift'.period
    <3>1. CASE curDrift # drift
      <4>1. daysCnt' = curDrift.period /\ nights' = 0 /\ drift' = curDrift
        BY <1>1, <3>1 DEF DriftSeen
      <4> QED BY <1>2, <4>1
    <3>2. CASE curDrift = drift
      BY <1>1, <2>1, <3>2 DEF DriftSeen
    <3> QED BY <3>1, <3>2
  <2> QED BY <1>1, <2>2 DEF Counted
<1> QED BY <1>1, <1>3, <1>4, <1>5, <1>7, <1>8, <1>9 DEF PaceInv

LEMMA PaceStore ==
  ASSUME PaceInv, Store
  PROVE  PaceInv'
<1>1. UNCHANGED <<now, pend, drift, daysCnt, wakeIn, notified, nights, fresh>> /\ epoch' = curEpoch'
  BY DEF Store, timeVars
<1>2. ToWake' = ToWake /\ (Counted <=> Counted')
  BY <1>1 DEF ToWake, Counted
<1> QED BY <1>1, <1>2 DEF PaceInv

\* A correction is ahead of the clock.
LEMMA CorrectionAhead ==
  ASSUME Forward, MgrIInv, PaceInv, notified
  PROVE  Correction = 0 \/ Correction > now
<1>1. now \in Nat /\ pend.value \in Int /\ drift.value \in Int /\ (drift.value # 0 => drift.value \in Ahead)
  BY MgrFacts, DriftsIs, StepsAhead
<1>2. CASE pend.kind = "epoch"
  BY <1>1, <1>2 DEF Correction, PaceInv, ToWake
<1>3. CASE pend.kind = "offset"
  <2>1. pend.value \in Nat /\ pend.value > 0
    BY <1>3, StepsAhead DEF PaceInv
  <2>2. Moved(pend.value) = now + pend.value
    BY <2>1, MgrFacts, MovedIs
  <2> QED BY <1>1, <1>3, <2>1, <2>2 DEF Correction
<1>4. CASE pend.kind = "none" /\ DriftApplies
  <2>1. drift.value \in Nat /\ drift.value > 0
    BY <1>1, <1>4, StepsAhead DEF DriftApplies
  <2>2. Moved(drift.value) = now + drift.value
    BY <2>1, MgrFacts, MovedIs
  <2> QED BY <1>1, <1>4, <2>1, <2>2 DEF Correction
<1>5. CASE pend.kind = "none" /\ ~DriftApplies
  BY <1>5 DEF Correction
<1> QED BY <1>2, <1>3, <1>4, <1>5, MgrFacts

LEMMA PaceWake ==
  ASSUME Forward, MgrIInv, PaceInv, Wake
  PROVE  PaceInv' /\ (DriftApplies => nights >= drift.period)
<1>1. /\ notified /\ UpdateTime(Correction) /\ daysCnt' = DaysLeft /\ pend' = Nothing
      /\ nights' = IF DriftApplies THEN 0 ELSE nights
      /\ epoch' = 0 /\ wakeIn' = ToMidnight(now') /\ notified' = FALSE /\ fresh' = (now' > now)
      /\ drift' = drift
  BY DEF Wake
<1>2. now' = IF Correction = 0 THEN now ELSE Correction
  BY <1>1 DEF UpdateTime
<1>3. now \in Nat /\ daysCnt \in 0 .. 255 /\ nights \in Nat /\ drift.period \in 0 .. 255
  BY MgrFacts, DriftsIs
<1>4. now' \in Nat /\ pend'.kind = "none"
  BY <1>1, <1>2, <1>3, CorrectionIs DEF Nothing
<1>5. wakeIn' = Day - (now' % Day)
  BY <1>1, <1>4, ToMidnightIs
<1>6. fresh' \/ now' % Day = 0
  <2>1. CASE Correction # 0
    BY <1>1, <1>2, <2>1, CorrectionAhead
  <2>2. CASE Correction = 0
    <3>1. pend.kind = "none"
      <4>1. pend.kind # "epoch"
        BY <1>3, <2>2, <1>1 DEF Correction, PaceInv, ToWake
      <4>2. pend.kind # "offset"
        <5> SUFFICES ASSUME pend.kind = "offset" PROVE FALSE
          OBVIOUS
        <5>1. pend.value \in Nat /\ pend.value > 0
          BY StepsAhead DEF PaceInv
        <5>2. Moved(pend.value) = now + pend.value /\ Correction = Moved(pend.value)
          BY <5>1, MgrFacts, MovedIs DEF Correction
        <5> QED BY <1>3, <2>2, <5>1, <5>2
      <4> QED BY <4>1, <4>2, MgrFacts
    <3>2. now % Day = 0 /\ now' = now
      BY <1>1, <1>2, <2>2, <3>1 DEF PaceInv
    <3> QED BY <3>2
  <2> QED BY <2>1, <2>2
<1>7. OneDayLess = IF daysCnt = 0 THEN 255 ELSE daysCnt - 1
  BY <1>3 DEF OneDayLess
<1>8. daysCnt' + nights' >= drift.period /\ (DriftApplies => nights >= drift.period)
  <2>1. CASE pend.kind = "none"
    <3>1. daysCnt + nights >= drift.period + 1
      BY <1>1, <2>1 DEF PaceInv, Counted
    <3>2. daysCnt' = IF OneDayLess = 0 THEN drift.period ELSE OneDayLess
      BY <1>1, <2>1 DEF DaysLeft
    <3>3. DriftApplies => OneDayLess = 0
      BY DEF DriftApplies
    <3>4. nights' \in Nat /\ (OneDayLess # 0 => nights' = nights)
      BY <1>1, <1>3, <3>3
    <3>5. CASE OneDayLess = 0
      BY <1>3, <1>7, <3>1, <3>2, <3>4, <3>5
    <3>6. CASE OneDayLess # 0
      BY <1>3, <1>7, <3>1, <3>2, <3>3, <3>4, <3>6
    <3> QED BY <3>5, <3>6
  <2>2. CASE pend.kind # "none"
    BY <1>1, <2>2 DEF PaceInv, Counted, DaysLeft, DriftApplies
  <2> QED BY <2>1, <2>2
<1>9. Counted'
  BY <1>1, <1>8 DEF Counted
<1> QED BY <1>1, <1>4, <1>5, <1>6, <1>8, <1>9 DEF PaceInv

LEMMA PaceTick ==
  ASSUME MgrIInv, PaceInv, MgrTick
  PROVE  PaceInv'
<1>1. /\ ~notified /\ now' = now + 1 /\ wakeIn' = IF wakeIn = 1 THEN Day ELSE wakeIn - 1
      /\ notified' = (wakeIn = 1) /\ fresh' = (now' % Day # 0)
      /\ nights' = IF now' % Day = 0 /\ (fresh \/ Day = 1) THEN nights + 1 ELSE nights
      /\ UNCHANGED <<curEpoch, epoch, pend, drift, daysCnt>>
  BY DEF MgrTick, Tick, WakeUp
<1>2. /\ now \in Nat /\ wakeIn \in 1 .. Day /\ Day \in Nat \ {0} /\ daysCnt \in 0 .. 255 /\ nights \in Nat
      /\ drift.period \in 0 .. 255
  BY MgrFacts, DriftsIs
<1>3. now % Day \in 0 .. Day - 1 /\ now' % Day = IF now % Day = Day - 1 THEN 0 ELSE (now % Day) + 1
  BY <1>1, <1>2, ModDay
<1>4. ToWake = wakeIn /\ now + 1 + ToWake' = now + wakeIn
  <2>1. ToWake = wakeIn /\ ToWake' = IF notified' THEN 0 ELSE wakeIn'
    BY <1>1 DEF ToWake
  <2>2. CASE wakeIn = 1
    <3>1. ToWake' = 0
      BY <1>1, <2>1, <2>2
    <3>2. now + 1 + 0 = now + wakeIn
      BY <1>2, <2>2
    <3> QED BY <2>1, <3>1, <3>2, Zenon
  <2>3. CASE wakeIn # 1
    <3>1. ToWake' = wakeIn - 1
      BY <1>1, <2>1, <2>3
    <3>2. now + 1 + (wakeIn - 1) = now + wakeIn
      BY <1>2
    <3> QED BY <2>1, <3>1, <3>2
  <2> QED BY <2>2, <2>3
<1>5. pend.kind = "none" => IF notified' THEN now' % Day = 0 ELSE wakeIn' = Day - (now' % Day)
  <2> SUFFICES ASSUME pend.kind = "none"
               PROVE  IF notified' THEN now' % Day = 0 ELSE wakeIn' = Day - (now' % Day)
    OBVIOUS
  <2>1. wakeIn = Day - (now % Day)
    BY <1>1 DEF PaceInv
  <2> DEFINE m == now % Day
             n == now' % Day
  <2>2. m \in 0 .. Day - 1 /\ n = (IF m = Day - 1 THEN 0 ELSE m + 1) /\ wakeIn = Day - m
    BY <1>3, <2>1
  <2> HIDE DEF m, n
  <2>3. CASE wakeIn = 1
    <3>1. m = Day - 1
      BY <1>2, <2>2, <2>3
    <3>2. n = 0 /\ notified'
      BY <1>1, <2>2, <2>3, <3>1
    <3> QED BY <3>2 DEF n
  <2>4. CASE wakeIn # 1
    <3>1. m # Day - 1
      BY <1>2, <2>2, <2>4
    <3>2. n = m + 1 /\ ~notified' /\ wakeIn' = wakeIn - 1
      BY <1>1, <2>2, <2>4, <3>1
    <3>3. (Day - m) - 1 = Day - (m + 1)
      BY <1>2, <2>2
    <3>4. wakeIn' = Day - n
      BY <2>2, <3>2, <3>3
    <3> QED BY <3>2, <3>4 DEF n
  <2> QED BY <2>3, <2>4
<1>6. Counted'
  <2>1. daysCnt + nights >= drift.period /\ nights' \in {nights, nights + 1}
    BY <1>1 DEF PaceInv, Counted
  <2>2. CASE notified' /\ pend.kind = "none"
    <3>1. now' % Day = 0 /\ wakeIn = Day - (now % Day) /\ wakeIn = 1
      BY <1>1, <1>5, <2>2 DEF PaceInv
    <3>2. fresh \/ Day = 1
      BY <1>2, <1>3, <3>1 DEF PaceInv
    <3>3. nights' = nights + 1
      BY <1>1, <3>1, <3>2
    <3> QED BY <1>1, <1>2, <2>1, <2>2, <3>3 DEF Counted
  <2>3. CASE ~(notified' /\ pend.kind = "none")
    BY <1>1, <1>2, <2>1, <2>3 DEF Counted
  <2> QED BY <2>2, <2>3
<1>7. fresh' \/ now' % Day = 0
  BY <1>1
<1>8. /\ pend.kind = "epoch" => pend.value > now' + ToWake'
      /\ epoch # 0 /\ curEpoch # epoch => curEpoch > now' + ToWake'
  <2>1. now' + ToWake' = now + ToWake
    BY <1>1, <1>4
  <2> QED BY <2>1 DEF PaceInv
<1> QED BY <1>1, <1>5, <1>6, <1>7, <1>8 DEF PaceInv

LEMMA PaceStays ==
  ASSUME PaceInv, now' = now, UNCHANGED mgrVars
  PROVE  PaceInv'
BY DEF PaceInv, mgrVars, ToWake, Counted

LEMMA PaceStep == Forward /\ MgrIInv /\ PaceInv /\ [MgrNext]_allVars => PaceInv'
<1> SUFFICES ASSUME Forward, MgrIInv, PaceInv, [MgrNext]_allVars PROVE PaceInv'
  OBVIOUS
<1>1. CASE TimeEvents
  <2>1. now' = now /\ UNCHANGED mgrVars
    BY <1>1, ClockStays DEF TimeEvents
  <2> QED BY <2>1, PaceStays
<1>2. CASE UNCHANGED allVars
  <2>1. now' = now /\ UNCHANGED mgrVars
    BY <1>2 DEF allVars, timeVars
  <2> QED BY <2>1, PaceStays
<1> QED BY <1>1, <1>2, PaceWrite, PacePoll, PaceStore, PaceWake, PaceTick DEF MgrNext

\* If the head-end only advances the clock, to dates more than a day ahead, the drift is
\* corrected no sooner than its period after it was set or corrected
\* (_time_mgr_check_upd_time_), whenever other corrections come.
THEOREM DriftPacedAlways == Forward => (MgrSpec => DriftPaced)
<1> SUFFICES ASSUME Forward PROVE MgrSpec => DriftPaced
  OBVIOUS
<1>1. MgrInit => MgrIInv /\ PaceInv
  BY MgrInitHolds, PaceInit
<1>2. MgrIInv /\ PaceInv /\ [MgrNext]_allVars => (MgrIInv /\ PaceInv)'
  BY MgrStep, PaceStep
<1>3. MgrIInv /\ PaceInv /\ [MgrNext]_allVars =>
        [Wake /\ DriftApplies => nights >= drift.period]_allVars
  BY PaceWake
<1> QED BY <1>1, <1>2, <1>3, PTL DEF MgrSpec, DriftPaced

-----------------------------------------------------------------------------
(* With the time manager.                                                  *)

\* The wake-up comes within a day of the last update.
MidTimers == list # <<>> => Age + ToWake <= Day

MgrCore == MgrIInv /\ PaceInv /\ CoreInv /\ MidTimers

LEMMA MgrRecent == MgrCore => Recent
<1> SUFFICES ASSUME MgrCore, list # <<>> PROVE Age <= Day
  BY DEF Recent
<1>1. Age \in Int /\ Day \in Nat
  BY CoreFacts DEF MgrCore, CoreInv
<1>2. ToWake \in Nat
  BY MgrFacts DEF MgrCore, ToWake
<1>3. Age + ToWake <= Day
  BY DEF MgrCore, MidTimers
<1> QED BY <1>1, <1>2, <1>3

\* The clock and the timers are left alone.
LEMMA CoreStays ==
  ASSUME CoreInv, UNCHANGED timeVars
  PROVE  CoreInv' /\ list' = list /\ Age' = Age
<1>1. UNCHANGED <<now, list, cfg, initVal, value, lastUpd, alarm, stopping, armed, left>>
  BY DEF timeVars
<1> QED BY <1>1 DEF CoreInv, TimeTypeOK, ListInv, OrderInv, AgreeInv, AlarmInv, Age

\* Less is to come of the wake-up, and no time has passed.
LEMMA NearerKeeps ==
  ASSUME MgrIInv, CoreInv, MidTimers, UNCHANGED timeVars, ToWake' \in Nat, ToWake' <= ToWake
  PROVE  CoreInv' /\ MidTimers'
<1>1. CoreInv' /\ list' = list /\ Age' = Age
  BY CoreStays
<1>2. Age \in Int /\ Day \in Nat /\ ToWake \in Nat
  BY CoreFacts, MgrFacts DEF CoreInv, ToWake
<1>3. MidTimers'
  <2> SUFFICES ASSUME list # <<>> PROVE Age + ToWake' <= Day
    BY <1>1 DEF MidTimers
  <2>1. Age + ToWake <= Day
    BY DEF MidTimers
  <2> DEFINE x == ToWake  y == ToWake'
  <2>2. x \in Nat /\ y \in Nat /\ y <= x /\ Age + x <= Day
    BY <1>2, <2>1
  <2> HIDE DEF x, y
  <2>3. Age + y <= Day
    BY <1>2, <2>2
  <2> QED BY <2>3 DEF y
<1> QED BY <1>1, <1>3

LEMMA WakeMid ==
  ASSUME Forward, MgrCore, Wake
  PROVE  CoreInv' /\ MidTimers'
<1>1. notified /\ UpdateTime(Correction) /\ wakeIn' = ToMidnight(now') /\ notified' = FALSE /\ Correction <= MaxNow
  BY DEF Wake
<1>2. Correction \in 0 .. MaxNow /\ (Correction = 0 \/ Correction >= now)
  <2>1. Correction \in Nat /\ now \in Nat
    BY <1>1, MgrFacts, CorrectionIs DEF MgrCore
  <2>2. Correction = 0 \/ Correction > now
    BY <1>1, CorrectionAhead DEF MgrCore
  <2>3. MaxNow \in Nat
    BY TimeConstants
  <2> QED BY <1>1, <2>1, <2>2, <2>3
<1>3. CoreInv' /\ (list' # <<>> => lastUpd' = now')
  BY <1>1, <1>2, MgrRecent, UpdateCore DEF MgrCore
<1>4. TimeTypeOK'
  BY <1>3 DEF CoreInv
<1>5. ToWake' \in 1 .. Day
  <2>1. now' \in Nat
    BY <1>4, TimeConstants DEF TimeTypeOK
  <2>2. ToMidnight(now') \in 1 .. Day
    BY <2>1, ToMidnightIs
  <2> QED BY <1>1, <2>2 DEF ToWake
<1>6. MidTimers'
  <2> SUFFICES ASSUME list' # <<>> PROVE Age' + ToWake' <= Day
    BY DEF MidTimers
  <2>1. Age' = 0
    BY <1>3, <1>4, JustUpdated
  <2> DEFINE x == ToWake'
  <2>2. x \in 1 .. Day
    BY <1>5
  <2> HIDE DEF x
  <2>3. 0 + x <= Day
    BY <2>2, TimeConstants
  <2> QED BY <2>1, <2>3 DEF x
<1> QED BY <1>3, <1>6

LEMMA TickMid ==
  ASSUME MgrCore, MgrTick
  PROVE  CoreInv' /\ MidTimers'
<1>1. /\ Tick /\ ~notified /\ wakeIn' = (IF wakeIn = 1 THEN Day ELSE wakeIn - 1)
      /\ notified' = (wakeIn = 1)
  BY DEF MgrTick, WakeUp
<1>2. CoreInv' /\ list' = list /\ Age' = Age + 1
  BY <1>1, TickCore DEF MgrCore
<1>3. Age \in Int /\ Day \in Nat \ {0} /\ wakeIn \in 1 .. Day
  BY CoreFacts, MgrFacts DEF MgrCore, CoreInv
<1>4. ToWake = wakeIn /\ ToWake' = wakeIn - 1
  <2>1. ToWake = wakeIn /\ ToWake' = IF notified' THEN 0 ELSE wakeIn'
    BY <1>1 DEF ToWake
  <2>2. CASE wakeIn = 1
    <3>1. ToWake' = 0
      BY <1>1, <2>1, <2>2
    <3>2. wakeIn - 1 = 0
      BY <2>2
    <3> QED BY <2>1, <3>1, <3>2, Zenon
  <2>3. CASE wakeIn # 1
    BY <1>1, <2>1, <2>3
  <2> QED BY <2>2, <2>3
<1>5. MidTimers'
  <2> SUFFICES ASSUME list # <<>> PROVE Age' + ToWake' <= Day
    BY <1>2 DEF MidTimers
  <2>1. Age + wakeIn <= Day
    BY <1>4 DEF MgrCore, MidTimers
  <2>2. (Age + 1) + (wakeIn - 1) <= Day
    BY <1>3, <2>1
  <2> QED BY <1>2, <1>4, <2>2
<1> QED BY <1>2, <1>5

LEMMA EventsMid ==
  ASSUME Careful, MgrCore, TimeEvents
  PROVE  CoreInv' /\ MidTimers'
<1>1. (TimerCall \/ TimerStopGo \/ EventHandler) /\ wakeIn' = wakeIn /\ notified' = notified
  BY DEF TimeEvents, mgrVars
<1>2. /\ CoreInv' /\ now' = now
      /\ list' # <<>> => lastUpd' = now' \/ (lastUpd' = lastUpd /\ list # <<>>)
  BY <1>1, MgrRecent, CallsCore DEF MgrCore
<1>3. ToWake' = ToWake /\ ToWake \in 0 .. Day
  <2>1. wakeIn \in 1 .. Day
    BY MgrFacts DEF MgrCore
  <2> QED BY <1>1, <2>1, TimeConstants DEF ToWake
<1>4. MidTimers'
  <2> SUFFICES ASSUME list' # <<>> PROVE Age' + ToWake <= Day
    BY <1>3 DEF MidTimers
  <2>1. CASE lastUpd' = lastUpd /\ list # <<>>
    BY <1>2, <2>1 DEF MgrCore, MidTimers, Age
  <2>2. CASE lastUpd' = now'
    <3>1. Age' = 0
      BY <1>2, <2>2, JustUpdated DEF CoreInv
    <3> DEFINE x == ToWake
    <3>2. x \in 0 .. Day
      BY <1>3
    <3> HIDE DEF x
    <3>3. 0 + x <= Day
      BY <3>2, TimeConstants
    <3> QED BY <3>1, <3>3 DEF x
  <2> QED BY <1>2, <2>1, <2>2
<1> QED BY <1>2, <1>4

LEMMA MgrCoreInit == Forward /\ MgrInit => MgrCore
<1> SUFFICES ASSUME Forward, MgrInit PROVE MgrCore
  OBVIOUS
<1>1. TimeInit /\ list = <<>>
  BY DEF MgrInit, TimeInit
<1> QED BY <1>1, MgrInitHolds, PaceInit, CoreInit DEF MgrCore, MidTimers

LEMMA MgrCoreStep == Careful /\ Forward /\ MgrCore /\ [MgrNext]_allVars => MgrCore'
<1> SUFFICES ASSUME Careful, Forward, MgrCore, [MgrNext]_allVars PROVE MgrCore'
  OBVIOUS
<1>1. MgrIInv' /\ PaceInv'
  BY MgrStep, PaceStep DEF MgrCore
<1>2. MgrIInv /\ PaceInv /\ CoreInv /\ MidTimers /\ wakeIn \in 1 .. Day /\ Day \in Nat \ {0}
  BY MgrFacts, TimeConstants DEF MgrCore
<1>3. ToWake \in Nat /\ ToWake <= ToWake
  BY <1>2 DEF ToWake
<1>4. CASE Write \/ Store \/ UNCHANGED allVars
  <2>1. UNCHANGED timeVars /\ ToWake' = ToWake
    BY <1>4 DEF Write, Store, allVars, mgrVars, ToWake
  <2> QED BY <1>1, <1>2, <1>3, <2>1, NearerKeeps DEF MgrCore
<1>5. CASE Poll
  <2>1. UNCHANGED timeVars /\ ~notified /\ notified' = notified /\ wakeIn' \in {1, wakeIn}
    BY <1>5 DEF Poll
  <2>2. ToWake' \in Nat /\ ToWake' <= ToWake
    <3>1. ToWake = wakeIn /\ ToWake' = wakeIn'
      BY <2>1 DEF ToWake
    <3>2. wakeIn' \in Nat /\ wakeIn' <= wakeIn
      BY <1>2, <2>1
    <3> QED BY <3>1, <3>2, Zenon
  <2> QED BY <1>1, <1>2, <2>1, <2>2, NearerKeeps DEF MgrCore
<1>6. CASE Wake
  BY <1>1, <1>6, WakeMid DEF MgrCore
<1>7. CASE MgrTick
  BY <1>1, <1>7, TickMid DEF MgrCore
<1>8. CASE TimeEvents
  BY <1>1, <1>8, EventsMid DEF MgrCore
<1> QED BY <1>4, <1>5, <1>6, <1>7, <1>8 DEF MgrNext

\* With the time manager itself in the place of the update at midnight, whatever the
\* head-end writes, as long as it only advances the clock: the timers keep their list
\* and their time (_time_mgr_main_, TimeEvt_UpdateTime).
THEOREM ManagedTimers == Careful /\ Forward => (MgrSpec => [](TimeInv /\ NeverLate) /\ NeverEarly)
<1> DEFINE Early == EventHandler => \A t \in armed :
             (t \notin armed' \/ left'[t] # left[t]) =>
                left[t] <= 0 \/ (cfg[t] = "ABSOLUTE" /\ now >= initVal[t])
<1> SUFFICES ASSUME Careful, Forward PROVE MgrSpec => [](TimeInv /\ NeverLate) /\ [][Early]_timeVars
  BY DEF NeverEarly
<1>1. MgrCore => TimeInv /\ NeverLate
  BY MgrRecent, CoreShows DEF MgrCore
<1>2. MgrCore => Early
  BY MgrRecent, AlarmCore DEF MgrCore
<1> HIDE DEF Early
<1> QED BY <1>1, <1>2, MgrCoreInit, MgrCoreStep, PTL DEF MgrSpec

=============================================================================
