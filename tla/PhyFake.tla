------------------------------- MODULE PhyFake ------------------------------
(***************************************************************************)
(* The PHY device of the demonstration (device/PhyFake/src/phy_layer.c),   *)
(* which carries frames over a serial line in the place of a radio, and    *)
(* the Wize network device (net/src/net_api.c) that uses it.               *)
(*                                                                         *)
(* The interrupts of Uart and the far end of the line interleave with the  *)
(* calls of the network manager, which are cut where an interrupt finds    *)
(* the work half done.  The far end says what it likes when it likes.      *)
(*                                                                         *)
(* A definition named Bug... is the next definition with a mistake in it,  *)
(* used to see that a property can fail.  Nothing else refers to it.       *)
(***************************************************************************)
EXTENDS Uart

CONSTANT ClosesUnderRequest  \* NetMgr_Close may come while a transfer runs

ASSUME ClosesIsBoolean == ClosesUnderRequest \in BOOLEAN

VARIABLES
  dev,      \* eState of the network device
  pc,       \* where the network manager's task is in a call of the device
  itflags,  \* the CR1 that BSP_Uart_Receive has read
  evt,      \* the completion that the task has not treated yet
  frame     \* the frame given to _set_send last

devVars == <<dev, pc, itflags, evt, frame>>
vars == <<uartVars, devVars>>

Init ==
  /\ UartInit
  /\ dev = "IDLE" /\ pc = "idle" /\ itflags = {} /\ evt = "none" /\ frame = <<>>

\* The task runs when no interrupt asks for the processor.
Runs(at) == pc = at /\ ~RxPending /\ ~Unserved

-----------------------------------------------------------------------------
(* A frame on the line: its length, its bytes, the end of the line.        *)

Framed(f) == <<Len(f)>> \o f \o <<EOB>>

\* The end of the line is not counted.
BugLineLen(f) == Len(f) + 1

\* u16Len of _set_send.
LineLen(f) == Len(f) + 2

\* ascii2hex: what is no hexadecimal digit gives any value.
Value(c) == IF c \in Bytes THEN {c} ELSE Bytes

\* The frames _get_recv may give.  The length received says how many bytes are
\* fetched, whatever has been received.
Delivered ==
  UNION {{f \in [1 .. n -> Bytes] : \A i \in 1 .. n : f[i] \in Value(buf[i])} :
            n \in Value(buf[0])}

-----------------------------------------------------------------------------
(* The calls of the network device.  The manager makes one when the        *)
(* completion of the last one has been treated.                            *)

\* WizeNet_Send up to _do_TX: the device is BUSY, _set_send fills the buffer.
Send(f) ==
  /\ Runs("idle") /\ dev = "IDLE" /\ evt = "none"
  /\ dev' = "BUSY" /\ pc' = "transmit" /\ frame' = f
  /\ buf' = [i \in DOMAIN buf |-> IF i < LineLen(f) THEN Framed(f)[i + 1] ELSE buf[i]]
  /\ UNCHANGED <<tx, rx, cr1, line, wire, heard, itflags, evt>>

\* _do_TX.
DoTx ==
  /\ Runs("transmit") /\ pc' = "idle"
  /\ IF tx.st = "READY"
       THEN Transmit(LineLen(frame)) /\ UNCHANGED dev
       ELSE dev' = "ERROR" /\ UNCHANGED uartVars
  /\ UNCHANGED <<itflags, evt, frame>>

\* WizeNet_Listen, _do_RX and the first half of BSP_Uart_Receive.
Listen ==
  /\ Runs("idle") /\ dev = "IDLE" /\ evt = "none"
  /\ IF rx.st = "READY"
       THEN /\ ReceiveBegin /\ pc' = "receive" /\ itflags' = cr1
            /\ UNCHANGED dev
       ELSE dev' = "ERROR" /\ UNCHANGED <<uartVars, pc, itflags>>
  /\ UNCHANGED <<evt, frame>>

\* The second half: from here on the reception can complete.
DoRx ==
  /\ Runs("receive") /\ pc' = "listening" /\ itflags' = {}
  /\ ReceiveEnable(itflags)
  /\ UNCHANGED <<dev, evt, frame>>

\* The end of WizeNet_Listen, which may overwrite the IDLE of a completion.
Listening ==
  /\ Runs("listening") /\ pc' = "idle"
  /\ dev' = "BUSY"
  /\ UNCHANGED <<uartVars, itflags, evt, frame>>

\* The time of a window is over: PHY_CTL_CMD_READY or PHY_CTL_CMD_SLEEP.
Ready ==
  /\ Runs("idle") /\ dev # "IDLE" /\ tx.st = "READY"
  /\ AbortReceive
  /\ dev' = "IDLE"
  /\ UNCHANGED <<pc, itflags, evt, frame>>

\* The manager treats a completion.  After a transmission it puts the PHY to
\* sleep.  After a reception it calls WizeNet_Recv, whose frame is one of
\* Delivered; a device that is BUSY refuses, and the error is cleared.
Treat ==
  /\ Runs("idle") /\ evt # "none"
  /\ IF evt = "TX" THEN AbortReceive ELSE UNCHANGED uartVars
  /\ evt' = "none" /\ dev' = "IDLE"
  /\ UNCHANGED <<pc, itflags, frame>>

\* WizeNet_Uninit and WizeNet_Init: nothing stops the port before Restart.
Reopen ==
  /\ Runs("idle") /\ evt = "none"
  /\ dev = "IDLE" \/ ClosesUnderRequest
  /\ Restart
  /\ dev' = "IDLE"
  /\ UNCHANGED <<pc, itflags, evt, frame>>

-----------------------------------------------------------------------------
(* The interrupts, with _frame_it and _evt_cb on a completion.             *)

RxChar ==
  /\ RxStore
  /\ evt' = IF Completes THEN "RX" ELSE evt
  /\ dev' = IF Completes THEN "IDLE" ELSE dev
  /\ UNCHANGED <<pc, itflags, frame>>

TxComplete ==
  /\ TxEnd
  /\ evt' = "TX" /\ dev' = "IDLE"
  /\ UNCHANGED <<pc, itflags, frame>>

Port == \/ RxChar \/ TxComplete
        \/ TxIsr /\ UNCHANGED devVars

FarEnd == \E c \in Bytes \cup {EOB} : Arrive(c) /\ UNCHANGED devVars

InCall == DoTx \/ DoRx \/ Listening

Call == (\E f \in Frames : Send(f)) \/ Listen \/ Ready \/ Treat \/ Reopen

Next == Port \/ FarEnd \/ InCall \/ Call

Spec == Init /\ [][Next]_vars

\* Interrupts are taken.  A call that has begun goes on, the timer of a window
\* expires and the manager treats what completes, although the characters of a
\* far end that never stops interrupt them again and again.  The far end owes
\* nothing.
Fairness == WF_vars(Port) /\ SF_vars(InCall) /\ SF_vars(Ready) /\ SF_vars(Treat)

FairSpec == Spec /\ Fairness

-----------------------------------------------------------------------------
(* Properties.                                                             *)

\* A transmission that completes has put on the line the frame it was asked
\* for, although receptions write the same buffer.
SentWhole == evt = "TX" => wire = Framed(frame)

\* A frame that came whole while the device listened is what WizeNet_Recv
\* gives, until the completion is treated.
GotWhole ==
  evt = "RX" => \A f \in Frames : heard = Framed(f) => Delivered = {f}

\* A call the device takes is not refused by the port: whatever the far end has
\* said and however the last reception has ended, an IDLE device finds gState
\* and RxState READY.
NeverRefused ==
  /\ dev # "ERROR"
  /\ pc = "idle" /\ dev = "IDLE" => tx.st = "READY" /\ rx.st = "READY"

\* A BUSY device becomes IDLE again, by the completion or by the end of the
\* window, unless the interrupt of a late '\r' never ends.
ComesBack == dev = "BUSY" ~> (dev = "IDLE" \/ Unserved)
=============================================================================
