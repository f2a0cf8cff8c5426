-------------------------------- MODULE Uart --------------------------------
(***************************************************************************)
(* The interrupt driven serial port of the demonstration board             *)
(* (bsp/src/bsp_uart.c), in its 8-bit mode that ends a reception at the    *)
(* character to match (UART_MODE_EOB).                                     *)
(*                                                                         *)
(* Here is what the driver and its two interrupt routines do to the port.  *)
(* A character is a byte, written as two hexadecimal digits that are       *)
(* counted here as one, or the '\r' that ends a line.                      *)
(*                                                                         *)
(* A definition named Bug... is the next definition with a mistake in it,  *)
(* used to see that a property can fail.  Nothing else refers to it.       *)
(***************************************************************************)
EXTENDS Naturals, Sequences

CONSTANTS
  MaxLen,  \* the longest frame, 255 in the code
  Size     \* BUF_SZ, the characters of the device's buffer

ASSUME SizesFit == MaxLen \in Nat \ {0} /\ Size \in Nat /\ Size >= MaxLen + 2

VARIABLES
  tx,    \* gState, pTxBuffPtr and TxXferCount
  rx,    \* RxState, pRxBuffPtr and RxXferCount
  cr1,   \* the interrupts enabled in CR1
  buf,   \* the one buffer of both directions, and what lies behind it
  line,  \* RDR, and the flag CMF of the receiver
  wire,  \* what has been put on the line since BSP_Uart_Transmit
  heard  \* what has been stored since BSP_Uart_Receive

uartVars == <<tx, rx, cr1, buf, line, wire, heard>>

Bytes  == 0 .. MaxLen
EOB    == MaxLen + 1     \* '\r'
NUL    == MaxLen + 2     \* '\0'
Empty  == MaxLen + 3     \* RXNE is not set
Frames == UNION {[1 .. n -> Bytes] : n \in 1 .. MaxLen}
Quiet  == [rdr |-> Empty, cmf |-> FALSE]

UartInit ==
  /\ tx = [st |-> "READY", ptr |-> 0, left |-> 0]
  /\ rx = [st |-> "READY", ptr |-> 0, left |-> 0]
  /\ cr1 = {} /\ buf = [i \in 0 .. Size |-> NUL]
  /\ line = Quiet /\ wire = <<>> /\ heard = <<>>

-----------------------------------------------------------------------------
(* The receiver.  The board disables the overrun of this port (LPUART1,    *)
(* board/src/main.c:305): a character that nobody fetches stays in RDR     *)
(* until the next one overwrites it, and ORE is never set.  A '\r' sets    *)
(* CMF whoever listens, and CMF outlives the '\r'.                         *)

RxPending == "RXNEIE" \in cr1 /\ line.rdr # Empty

\* The '\r' asks for an interrupt that no routine acknowledges: CMF is cleared
\* by the reception alone, and the processor does not leave the interrupt.
Unserved == "CMIE" \in cr1 /\ line.cmf /\ ~RxPending

Arrive(c) ==
  /\ ~RxPending
  /\ line' = [rdr |-> c, cmf |-> c = EOB \/ line.cmf]
  /\ UNCHANGED <<tx, rx, cr1, buf, wire, heard>>

\* The last character is the one before the buffer is full.
Completes == (line.cmf /\ "CMIE" \in cr1) \/ rx.left = 1

\* _bsp_com_RxISR_8BIT.  RXNEIE is only on while RxState is BUSY_RX, so that
\* its other branch, which throws the character away, is never taken.
RxStore ==
  /\ RxPending /\ rx.st = "BUSY_RX"
  /\ buf' = [i \in DOMAIN buf |-> CASE i = rx.ptr                   -> line.rdr
                                    [] i = rx.ptr + 1 /\ Completes  -> NUL
                                    [] OTHER                        -> buf[i]]
  /\ rx' = [st   |-> IF Completes THEN "READY" ELSE "BUSY_RX",
            ptr  |-> rx.ptr + 1,
            left |-> rx.left - 1]
  /\ cr1' = IF Completes THEN cr1 \ {"RXNEIE", "CMIE"} ELSE cr1
  /\ heard' = Append(heard, line.rdr)
  /\ line' = Quiet
  /\ UNCHANGED <<tx, wire>>

\* The characters go on where the last reception has stopped.
BugReceiveBegin ==
  /\ rx' = [st |-> "BUSY_RX", ptr |-> rx.ptr, left |-> Size]
  /\ heard' = <<>>
  /\ UNCHANGED <<tx, cr1, buf, line, wire>>

\* BSP_Uart_Receive up to the interrupts it enables.  It clears neither RDR nor
\* CMF: the last character that nobody fetched becomes the first one stored, and
\* an old CMF completes the reception with the first character, whatever it is.
ReceiveBegin ==
  /\ rx' = [st |-> "BUSY_RX", ptr |-> 0, left |-> Size]
  /\ heard' = <<>>
  /\ UNCHANGED <<tx, cr1, buf, line, wire>>

\* CR1 as it was read before, with the interrupts of the reception.
ReceiveEnable(itflags) ==
  /\ cr1' = itflags \cup {"RXNEIE", "CMIE"}
  /\ UNCHANGED <<tx, rx, buf, line, wire, heard>>

\* RxState stays as it was.
BugAborted == rx

\* What BSP_Uart_AbortReceive leaves of the reception.
Aborted == [st |-> "READY", ptr |-> 0, left |-> 0]

\* BSP_Uart_AbortReceive.  CMIE stays on, CMF stays set.
AbortReceive ==
  /\ IF "RXNEIE" \in cr1
       THEN /\ cr1' = cr1 \ {"RXNEIE"}
            /\ rx' = Aborted
            /\ line' = [line EXCEPT !.rdr = Empty]
       ELSE UNCHANGED <<cr1, rx, line>>
  /\ UNCHANGED <<tx, buf, wire, heard>>

-----------------------------------------------------------------------------
(* The transmitter.                                                        *)

\* BSP_Uart_Transmit, which the caller has found READY.
Transmit(length) ==
  /\ tx' = [st |-> "BUSY_TX", ptr |-> 0, left |-> length]
  /\ cr1' = cr1 \cup {"TXEIE"}
  /\ wire' = <<>>
  /\ UNCHANGED <<rx, buf, line, heard>>

\* The end of the transmission is not waited for.
BugAllSent == cr1 \ {"TXEIE"}

\* CR1 when the last character has been written.
AllSent == (cr1 \ {"TXEIE"}) \cup {"TCIE"}

\* _bsp_com_TxISR_8BIT.
TxIsr ==
  /\ "TXEIE" \in cr1 /\ tx.st = "BUSY_TX"
  /\ IF tx.left = 0
       THEN /\ cr1' = AllSent
            /\ UNCHANGED <<tx, wire>>
       ELSE /\ tx' = [tx EXCEPT !.ptr = @ + 1, !.left = @ - 1]
            /\ wire' = Append(wire, buf[tx.ptr])
            /\ UNCHANGED cr1
  /\ UNCHANGED <<rx, buf, line, heard>>

\* The library at the end of the last character: gState is READY again.
TxEnd ==
  /\ "TCIE" \in cr1
  /\ cr1' = cr1 \ {"TCIE"}
  /\ tx' = [tx EXCEPT !.st = "READY"]
  /\ UNCHANGED <<rx, buf, line, wire, heard>>

\* BSP_Uart_Init: every interrupt off, every flag cleared.  What the two states
\* say of a transfer stays.
Restart ==
  /\ cr1' = {} /\ line' = Quiet
  /\ UNCHANGED <<tx, rx, buf, wire, heard>>
=============================================================================
