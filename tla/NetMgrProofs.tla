---------------------------- MODULE NetMgrProofs ----------------------------
(***************************************************************************)
(* Proofs about the network manager (NetMgr) and about its configuration   *)
(* (NetConf).  The first theorem is type correctness, for any behaviour of *)
(* the driver.  The others about NetMgr hold for drivers that raise no     *)
(* PHYDEV_EVT_ERROR.  They follow from IInv, whose heart is TokenInv: one  *)
(* start of the radio is one token, that travels from the radio to notif,  *)
(* to word, to back, and no request is made while it is somewhere.  The    *)
(* theorems about NetConf, at the end, hold for any driver; they follow    *)
(* from CInv and AsAsked.  There is one lemma for each action.             *)
(***************************************************************************)
EXTENDS NetConf, TLAPS

\* What the operators of the device leave behind is a device.
LEMMA DevicesTyped ==
  ASSUME NEW d \in Devices, NEW mode \in {"tx", "rx"}
  PROVE  /\ PhyCmd(d) \subseteq Devices
         /\ TryAbort(d) \subseteq Devices
         /\ Cleared(d) \in Devices
         /\ Started(d, mode) \subseteq Devices
         /\ NotStarted(d, mode) \subseteq Devices
<1>1. PhyCmd(d) \subseteq Devices
  BY DEF PhyCmd, PhyFaulty, Devices
<1>2. Cleared(d) \in Devices
  BY DEF Cleared, Devices
<1>3. Started(d, mode) \subseteq Devices
  BY DEF Started, Devices
<1>4. NotStarted(d, mode) \subseteq Devices
  BY <1>1, <1>2 DEF NotStarted
<1>5. QED
  BY <1>1, <1>2, <1>3, <1>4 DEF TryAbort

\* What the operators of the device do to its fields.
LEMMA DeviceOutcomes ==
  ASSUME NEW d \in Devices, NEW mode \in {"tx", "rx"}
  PROVE  /\ \A e \in PhyCmd(d) :
              /\ e.st \in {"IDLE", "ERROR"} /\ e.radio \in {"off", d.radio}
              /\ e.st = "IDLE" => e.err = "NONE"
         /\ \A e \in Started(d, mode) :
              /\ d.st # "BUSY" /\ e.st = "BUSY" /\ e.radio = mode
              /\ e.err = "NONE" \/ (e.err = d.err /\ d.st = "IDLE")
         /\ \A e \in NotStarted(d, mode) :
              /\ e = d \/ e.st \in {"IDLE", "ERROR"}
              /\ d.st # "UNKNOWN" => e.st # "UNKNOWN"
              /\ e.radio \in {"off", d.radio}
         /\ Cleared(d).st = "IDLE"
         /\ Cleared(d).err = "NONE"
         /\ Cleared(d).radio = d.radio
<1>1. \A e \in PhyCmd(d) :
        /\ e.st \in {"IDLE", "ERROR"} /\ e.radio \in {"off", d.radio}
        /\ e.st = "IDLE" => e.err = "NONE"
  BY DEF PhyCmd, PhyFaulty, Devices
<1>2. \A e \in Started(d, mode) :
        /\ d.st # "BUSY" /\ e.st = "BUSY" /\ e.radio = mode
        /\ e.err = "NONE" \/ (e.err = d.err /\ d.st = "IDLE")
  BY DEF Started, Devices
<1>3. Cleared(d).st = "IDLE" /\ Cleared(d).err = "NONE" /\ Cleared(d).radio = d.radio
  BY DEF Cleared, Devices
<1>4. \A e \in NotStarted(d, mode) :
        /\ e = d \/ e.st \in {"IDLE", "ERROR"}
        /\ d.st # "UNKNOWN" => e.st # "UNKNOWN"
        /\ e.radio \in {"off", d.radio}
  BY <1>1, <1>3 DEF NotStarted, Devices
<1>5. QED
  BY <1>1, <1>2, <1>3, <1>4

\* What listening again may leave behind.
LEMMA RelistenOutcomes ==
  ASSUME NEW d \in Devices, NEW evts, Relisten(d, evts)
  PROVE  /\ \/ dev'.st = "BUSY" /\ dev'.radio = "rx"
            \/ /\ d.st # "UNKNOWN" => dev'.st # "UNKNOWN"
               /\ dev'.radio \in {"off", d.radio}
         /\ \/ back' = back \cup evts /\ timer' = timer
            \/ back' = {"ERROR"} \cup evts
  BY DeviceOutcomes DEF Relisten

-----------------------------------------------------------------------------
\* Every step leaves the flags Boolean.
LEMMA FlagsCorrect == FlagsOK /\ [Next]_vars => FlagsOK'
<1> SUFFICES ASSUME FlagsOK, [Next]_vars PROVE FlagsOK'
  OBVIOUS
<1> USE Zenon DEF FlagsOK, taskVars, callerVars
<1>1. CASE Wait
  BY <1>1 DEF Wait
<1>2. CASE Switch
  BY <1>2 DEF Switch
<1>3. CASE FsmTx
  BY <1>3 DEF FsmTx
<1>4. CASE FsmRxDrop
  BY <1>4 DEF FsmRxDrop, Relisten
<1>5. CASE FsmRxMatch
  BY <1>5 DEF FsmRxMatch, Relisten
<1>6. CASE FsmRxPass
  BY <1>6 DEF FsmRxPass, Relisten
<1>7. CASE FsmRxFail
  BY <1>7 DEF FsmRxFail, Relisten
<1>8. CASE FsmNoRx
  BY <1>8 DEF FsmNoRx
<1>9. CASE FsmTimeout
  <2>1. timer' \in BOOLEAN
    BY <1>9 DEF FsmTimeout
  <2>2. bAbort' \in BOOLEAN /\ bError' \in BOOLEAN
    <3>1. /\ bAbort' = ("TIMEOUT" \in back')
          /\ bError' = ("ERROR" \in back')
      BY <1>9 DEF FsmTimeout
    <3>2. QED
      BY <3>1, SMT
  <2>3. QED
    BY <1>9, <2>1, <2>2 DEF FsmTimeout
<1>10. CASE Abort
  <2>1. bAbort' \in BOOLEAN
    <3>1. bAbort' = Aborting
      BY <1>10 DEF Abort
    <3>2. QED
      BY <3>1, SMT DEF Aborting
  <2>2. QED
    BY <1>10, <2>1 DEF Abort
<1>11. CASE Notify
  BY <1>11 DEF Notify
<1>12. CASE Release
  BY <1>12 DEF Release
<1>13. CASE PhyTxComplete
  BY <1>13 DEF PhyTxComplete, PhyEvent
<1>14. CASE PhyRxStarted
  BY <1>14 DEF PhyRxStarted, PhyEvent
<1>15. CASE PhyRxComplete
  BY <1>15 DEF PhyRxComplete, PhyEvent
<1>16. CASE PhyError
  BY <1>16 DEF PhyError, PhyEvent
<1>17. CASE TimeOut
  BY <1>17 DEF TimeOut
<1>18. CASE Open
  BY <1>18 DEF Open
<1>19. CASE Close
  BY <1>19 DEF Close
<1>20. CASE Send
  BY <1>20 DEF Send, Request
<1>21. CASE Arm
  BY <1>21 DEF Arm
<1>22. CASE Take
  BY <1>22 DEF Take
<1>23. CASE ListenReady
  BY <1>23 DEF ListenReady
<1>24. CASE \E kind \in Listens : Listen(kind)
  BY <1>24 DEF Listen, Request
<1>25. CASE UNCHANGED vars
  BY <1>25 DEF vars
<1>26. QED
  BY <1>1, <1>2, <1>3, <1>4, <1>5, <1>6, <1>7, <1>8, <1>9, <1>10, <1>11, <1>12, <1>13, <1>14, <1>15, <1>16, <1>17, <1>18, <1>19, <1>20, <1>21, <1>22, <1>23, <1>24, <1>25
     DEF Next, Task, Fsm, Interrupt, EvtCb, Caller

\* Every step of the loop, of an interrupt or of the caller keeps the types.
LEMMA TypeStep == TypeOK /\ [Next]_vars => TypeOK'
<1> SUFFICES ASSUME TypeOK, [Next]_vars PROVE TypeOK'
  OBVIOUS
<1>0. FlagsOK'
  BY FlagsCorrect DEF TypeOK
<1>1. CASE Wait
  BY <1>0, <1>1 DEF TypeOK, Wait, callerVars
<1>2. CASE Switch
  BY <1>0, <1>2 DEF TypeOK, Switch, callerVars
<1>3. CASE FsmTx
  BY DevicesTyped, <1>0, <1>3 DEF TypeOK, FsmTx, callerVars, BackEvts
<1>4. ASSUME NEW d \in Devices, NEW evts \in SUBSET BackEvts, Relisten(d, evts)
      PROVE  dev' \in Devices /\ back' \in SUBSET BackEvts
  BY DevicesTyped, <1>4 DEF TypeOK, Relisten, BackEvts
<1>5. CASE FsmRxDrop
  <2>1. dev' \in Devices /\ back' \in SUBSET BackEvts
    BY <1>4, <1>5 DEF TypeOK, FsmRxDrop
  <2>2. QED
    BY <1>0, <1>5, <2>1 DEF TypeOK, FsmRxDrop, callerVars
<1>6. CASE FsmRxMatch
  <2>1. {"RECV_DONE"} \in SUBSET BackEvts
    BY DEF BackEvts
  <2>2. dev' \in Devices /\ back' \in SUBSET BackEvts
    BY <1>4, <1>6, <2>1 DEF TypeOK, FsmRxMatch
  <2>3. QED
    BY <1>0, <1>6, <2>2 DEF TypeOK, FsmRxMatch, callerVars
<1>7. CASE FsmRxPass
  <2>1. {"FRM_PASSED"} \in SUBSET BackEvts
    BY DEF BackEvts
  <2>2. QED
    BY <1>0, <1>4, <1>7, <2>1 DEF TypeOK, FsmRxPass, callerVars
<1>8. CASE FsmRxFail
  <2>1. dev' \in Devices /\ back' \in SUBSET BackEvts
    BY DevicesTyped, <1>4, <1>8 DEF TypeOK, FsmRxFail, BackEvts
  <2>2. QED
    BY <1>0, <1>8, <2>1 DEF TypeOK, FsmRxFail, callerVars
<1>9. CASE FsmNoRx
  BY <1>0, <1>9 DEF TypeOK, FsmNoRx, callerVars
<1>10. CASE FsmTimeout
  BY <1>0, <1>10 DEF TypeOK, FsmTimeout, callerVars, BackEvts
<1>11. CASE Abort
  BY DevicesTyped, <1>0, <1>11 DEF TypeOK, Abort, callerVars
<1>12. CASE Notify
  BY <1>0, <1>12 DEF TypeOK, Notify, callerVars
<1>13. CASE Release
  BY <1>0, <1>13 DEF TypeOK, Release, callerVars
<1>14. CASE Interrupt
  BY <1>0, <1>14 DEF TypeOK, Interrupt, EvtCb, PhyTxComplete, PhyRxStarted,
     PhyRxComplete, PhyError, TimeOut, PhyEvent, ErrorEvt, NetEvts, Devices, taskVars, callerVars
<1>15. CASE Open
  <2>1. \/ dev' = [st |-> "IDLE", err |-> "NONE", radio |-> "off"]
        \/ dev' = [st |-> "UNKNOWN", err |-> "PHY", radio |-> dev.radio]
        \/ dev' = dev
    BY <1>15 DEF Open
  <2>2. [st |-> "UNKNOWN", err |-> "PHY", radio |-> dev.radio] \in Devices
    BY DEF TypeOK, Devices
  <2>3. [st |-> "IDLE", err |-> "NONE", radio |-> "off"] \in Devices
    BY DEF Devices
  <2>4. QED
    BY <1>0, <1>15, <2>1, <2>2, <2>3 DEF TypeOK, Open, taskVars
<1>16. CASE Close
  BY <1>0, <1>16 DEF TypeOK, Close, Devices, taskVars
<1>17. ASSUME NEW kind \in Requests, NEW mode \in {"tx", "rx"},
              Request(kind, mode)
       PROVE  TypeOK'
  BY DevicesTyped, <1>0, <1>17 DEF TypeOK, Request, taskVars
<1>18. CASE Send
  BY <1>17, <1>18 DEF Send, Requests
<1>19. CASE \E kind \in Listens : Listen(kind)
  BY <1>17, <1>19 DEF TypeOK, Listen, Requests
<1>20. CASE Arm
  BY DevicesTyped, <1>0, <1>20 DEF TypeOK, Arm, taskVars
<1>21. CASE Take
  BY <1>0, <1>21 DEF TypeOK, Take, taskVars
<1>22. CASE ListenReady
  BY <1>0, <1>22 DEF TypeOK, ListenReady, NetEvts, taskVars
<1>23. CASE UNCHANGED vars
  BY <1>0, <1>23 DEF TypeOK, vars, taskVars, callerVars
<1>24. QED
  BY <1>1, <1>2, <1>3, <1>5, <1>6, <1>7, <1>8, <1>9, <1>10, <1>11, <1>12,
     <1>13, <1>14, <1>15, <1>16, <1>18, <1>19, <1>20, <1>21, <1>22, <1>23
     DEF Next, Task, Fsm, Caller

\* The program starts with values of their types.
LEMMA TypeInit == Init => TypeOK
<1>1. Init => FlagsOK
  BY Zenon DEF Init, FlagsOK
<1>2. QED
  BY <1>1 DEF Init, TypeOK, Devices, Requests, Listens

\* Type correctness, for every behaviour of the driver.
THEOREM TypeCorrect == Spec => []TypeOK
<1>1. QED
  BY TypeInit, TypeStep, PTL DEF Spec

-----------------------------------------------------------------------------
\* Reading the word moves its events from notif to word.
LEMMA WaitKeeps ==
  ASSUME PhyErrorEvents = FALSE, IInv, TypeOK', Wait
  PROVE  IInv'
<1> USE DEF IInv
<1>1. LoopInv'
  BY DEF Wait, LoopInv
<1>2. CallerInv'
  BY DEF Wait, callerVars, CallerInv
<1>3. KindInv'
  BY DEF Wait, KindInv, InWord
<1>4. TokenInv'
  BY DEF Wait, callerVars, TokenInv, InWord, InNotif, InHand, InBack, RadioOn,
     NoToken, EndedWell
<1>5. ErrorInv'
  BY DEF Wait, callerVars, ErrorInv, EndedWell
<1>6. SentInv'
  BY DEF Wait, SentInv, InWord
<1>7. NoLostRequest'
  BY DEF Wait, callerVars, TypeOK, NoLostRequest, Answering, CallerInv,
     ErrorInv, Devices
<1>8. QED
  BY <1>1, <1>2, <1>3, <1>4, <1>5, <1>6, <1>7

\* A word thrown away holds no expiry that a request depends on: without error
\* events the device is not in ERROR while the request waits.
LEMMA SwitchKeeps ==
  ASSUME PhyErrorEvents = FALSE, IInv, TypeOK', Switch
  PROVE  IInv'
<1> USE DEF IInv
<1>1. LoopInv'
  BY DEF Switch, LoopInv
<1>2. CallerInv'
  BY DEF Switch, callerVars, CallerInv
<1>3. KindInv'
  BY DEF Switch, KindInv, InWord
<1>4. TokenInv'
  BY DEF Switch, callerVars, TokenInv, InWord, InNotif, InHand, InBack,
     RadioOn, NoToken, EndedWell
<1>5. ErrorInv'
  BY DEF Switch, callerVars, ErrorInv, EndedWell
<1>6. SentInv'
  BY DEF Switch, SentInv, InWord
<1>7. NoLostRequest'
  BY DEF Switch, callerVars, NoLostRequest, Answering
<1>8. QED
  BY <1>1, <1>2, <1>3, <1>4, <1>5, <1>6, <1>7

\* A completed transmission turns the token into SEND_DONE.
LEMMA FsmTxKeeps ==
  ASSUME PhyErrorEvents = FALSE, IInv, TypeOK', FsmTx
  PROVE  IInv'
<1> USE DEF IInv
<1>1. LoopInv'
  BY DEF FsmTx, LoopInv
<1>2. CallerInv'
  BY DEF FsmTx, callerVars, PhyCmd, PhyFaulty, CallerInv
<1>3. KindInv'
  BY DEF FsmTx, PhyCmd, PhyFaulty, KindInv, InWord
<1>4. TokenInv'
  BY DEF FsmTx, callerVars, PhyCmd, PhyFaulty, TokenInv, KindInv, Completions,
     InWord, InNotif, InHand, InBack, RadioOn, NoToken, EndedWell
<1>5. ErrorInv'
  BY DEF FsmTx, callerVars, PhyCmd, PhyFaulty, ErrorInv, CallerInv, KindInv,
     Ends, InWord, EndedWell
<1>6. SentInv'
  BY DEF FsmTx, SentInv, InWord
<1>7. NoLostRequest'
  <2>1. CASE "TX_COMPLETE" \in word
    <3>1. "SEND_DONE" \in back' /\ pc' = "rx" /\ req' = req
      BY <2>1 DEF FsmTx
    <3>2. ltype = "SEND"
      BY <2>1 DEF KindInv, FsmTx, InWord
    <3>3. req # "none" => Ends(req)' \cap back' # {}
      BY <3>1, <3>2 DEF Ends, CallerInv
    <3>4. QED
      BY <3>1, <3>3 DEF NoLostRequest, Answering, Ends
  <2>2. CASE "TX_COMPLETE" \notin word
    <3>1. /\ timer' = timer /\ phase' = phase /\ notif' = notif /\ word' = word
          /\ req' = req /\ back' = back /\ pc = "tx" /\ pc' = "rx"
      BY <2>2 DEF FsmTx, callerVars
    <3>2. QED
      BY <3>1 DEF NoLostRequest, Answering, LoopInv
  <2>3. QED
    BY <2>1, <2>2
<1>8. QED
  BY <1>1, <1>2, <1>3, <1>4, <1>5, <1>6, <1>7

\* A dropped frame is replaced by another start of the radio, or by ERROR.
LEMMA FsmRxDropKeeps ==
  ASSUME PhyErrorEvents = FALSE, IInv, TypeOK', FsmRxDrop
  PROVE  IInv'
<1> USE DEF IInv
<1>1. /\ dev'.radio \in {"off", "rx", dev.radio}
      /\ dev.st # "UNKNOWN" => dev'.st # "UNKNOWN"
  BY RelistenOutcomes DEF FsmRxDrop, TypeOK
<1>2. LoopInv'
  BY DEF FsmRxDrop, InFsmRx, LoopInv
<1>3. CallerInv'
  BY <1>1 DEF FsmRxDrop, callerVars, CallerInv
<1>4. KindInv'
  BY <1>1 DEF FsmRxDrop, KindInv, InWord
<1>5. TokenInv'
  BY DEF FsmRxDrop, callerVars, InFsmRx, TokenInv, Completions, InWord, InHand,
     NoToken
<1>6. ErrorInv'
  BY DEF FsmRxDrop, callerVars, InFsmRx, Relisten, Started, ErrorInv, TokenInv,
     Ends, Completions, InWord, InHand, NoToken
<1>7. SentInv'
  BY DEF FsmRxDrop, Relisten, SentInv, InWord
<1>8. NoLostRequest'
  BY DEF FsmRxDrop, callerVars, Relisten, NoLostRequest, Answering, Ends
<1>9. QED
  BY <1>2, <1>3, <1>4, <1>5, <1>6, <1>7, <1>8

\* The expected message turns the token into RECV_DONE.
LEMMA FsmRxMatchKeeps ==
  ASSUME PhyErrorEvents = FALSE, IInv, TypeOK', FsmRxMatch
  PROVE  IInv'
<1> USE DEF IInv
<1>1. /\ dev'.radio \in {"off", "rx", dev.radio}
      /\ dev.st # "UNKNOWN" => dev'.st # "UNKNOWN"
  BY RelistenOutcomes DEF FsmRxMatch, TypeOK
<1>2. LoopInv'
  BY DEF FsmRxMatch, InFsmRx, WizeNetRecv, LoopInv
<1>3. CallerInv'
  BY <1>1 DEF FsmRxMatch, callerVars, CallerInv
<1>4. KindInv'
  BY <1>1 DEF FsmRxMatch, KindInv, InWord
<1>5. TokenInv'
  BY DEF FsmRxMatch, callerVars, InFsmRx, WizeNetRecv, TokenInv, Completions,
     InWord, InNotif, InHand, RadioOn, NoToken, EndedWell
<1>6. ErrorInv'
  BY DEF FsmRxMatch, callerVars, InFsmRx, WizeNetRecv, Relisten, Started,
     ErrorInv, TokenInv, Ends, Completions, InWord, InHand, NoToken, EndedWell
<1>7. SentInv'
  BY DEF FsmRxMatch, Relisten, SentInv, InWord
<1>8. NoLostRequest'
  <2>1. /\ req' = req /\ pc' = "tmo" /\ phase' = phase /\ notif' = notif
        /\ word' = word /\ pc = "rx"
    BY DEF FsmRxMatch, WizeNetRecv, InFsmRx, callerVars
  <2>2. ltype # "SEND"
    BY DEF FsmRxMatch, WizeNetRecv, InFsmRx, KindInv, InWord
  <2>3. CASE ltype = "MANY"
    <3>1. Relisten(dev, {"RECV_DONE"})
      BY <2>3 DEF FsmRxMatch
    <3>2. CASE back' = back \cup {"RECV_DONE"} /\ timer' = timer
      BY <2>1, <3>2 DEF NoLostRequest, Answering, Ends
    <3>3. CASE back' = {"ERROR", "RECV_DONE"}
      BY <2>1, <3>3 DEF NoLostRequest, Answering, Ends
    <3>4. QED
      BY <3>1, <3>2, <3>3, RelistenOutcomes DEF TypeOK
  <2>4. CASE ltype # "MANY"
    <3>1. back' = back \cup {"RECV_DONE"}
      BY <2>4 DEF FsmRxMatch
    <3>2. req # "none" => "RECV_DONE" \in Ends(ltype)
      BY <2>2, <2>4 DEF Ends, CallerInv, TypeOK, Requests, Listens
    <3>3. QED
      BY <2>1, <3>1, <3>2 DEF NoLostRequest, Answering, CallerInv, Ends
  <2>5. QED
    BY <2>3, <2>4
<1>9. QED
  BY <1>2, <1>3, <1>4, <1>5, <1>6, <1>7, <1>8

\* Another message is passed and the radio started again, or ERROR reported.
LEMMA FsmRxPassKeeps ==
  ASSUME PhyErrorEvents = FALSE, IInv, TypeOK', FsmRxPass
  PROVE  IInv'
<1> USE DEF IInv
<1>1. /\ dev'.radio \in {"off", "rx", dev.radio}
      /\ dev.st # "UNKNOWN" => dev'.st # "UNKNOWN"
  BY RelistenOutcomes DEF FsmRxPass, TypeOK
<1>2. LoopInv'
  BY DEF FsmRxPass, InFsmRx, WizeNetRecv, LoopInv
<1>3. CallerInv'
  BY <1>1 DEF FsmRxPass, callerVars, CallerInv
<1>4. KindInv'
  BY <1>1 DEF FsmRxPass, InFsmRx, WizeNetRecv, KindInv, InWord
<1>5. TokenInv'
  BY DEF FsmRxPass, callerVars, InFsmRx, WizeNetRecv, Relisten, TokenInv,
     Completions, Dones, InWord, InNotif, InHand, InBack, NoToken, EndedWell
<1>6. ErrorInv'
  BY DEF FsmRxPass, callerVars, InFsmRx, WizeNetRecv, Relisten, Started,
     ErrorInv, TokenInv, Ends, Completions, InWord, InHand, NoToken, EndedWell
<1>7. SentInv'
  BY DEF FsmRxPass, Relisten, SentInv, InWord
<1>8. NoLostRequest'
  BY DEF FsmRxPass, callerVars, Relisten, NoLostRequest, Answering, Ends
<1>9. QED
  BY <1>2, <1>3, <1>4, <1>5, <1>6, <1>7, <1>8

\* A reception that fails ends in another start, in TIMEOUT or in ERROR.
LEMMA FsmRxFailKeeps ==
  ASSUME PhyErrorEvents = FALSE, IInv, TypeOK', FsmRxFail
  PROVE  IInv'
<1> USE DEF IInv
<1>1. /\ dev'.radio \in {"off", "rx", dev.radio}
      /\ dev.st # "UNKNOWN" => dev'.st # "UNKNOWN"
  BY RelistenOutcomes, DeviceOutcomes, DevicesTyped DEF FsmRxFail, TypeOK
<1>2. LoopInv'
  BY DEF FsmRxFail, InFsmRx, WizeNetRecv, LoopInv
<1>3. CallerInv'
  BY <1>1 DEF FsmRxFail, callerVars, CallerInv
<1>4. KindInv'
  BY <1>1 DEF FsmRxFail, InFsmRx, WizeNetRecv, KindInv, InWord
<1>5. TokenInv'
  BY DEF FsmRxFail, callerVars, InFsmRx, WizeNetRecv, Relisten, TokenInv,
     Completions, Dones, InWord, InNotif, InHand, InBack, NoToken, EndedWell
<1>6. ErrorInv'
  BY DEF FsmRxFail, callerVars, InFsmRx, WizeNetRecv, Relisten, Started,
     Cleared, ErrorInv, TokenInv, Ends, Completions, InWord, InHand, NoToken,
     EndedWell
<1>7. SentInv'
  BY DEF FsmRxFail, Relisten, SentInv, InWord
<1>8. NoLostRequest'
  BY DEF FsmRxFail, callerVars, Relisten, NoLostRequest, Answering, Ends
<1>9. QED
  BY <1>2, <1>3, <1>4, <1>5, <1>6, <1>7, <1>8

\* Nothing was received.
LEMMA FsmNoRxKeeps ==
  ASSUME PhyErrorEvents = FALSE, IInv, TypeOK', FsmNoRx
  PROVE  IInv'
<1> USE DEF IInv
<1>1. LoopInv'
  BY DEF FsmNoRx, LoopInv
<1>2. CallerInv'
  BY DEF FsmNoRx, callerVars, CallerInv
<1>3. KindInv'
  BY DEF FsmNoRx, KindInv, InWord
<1>4. TokenInv'
  BY DEF FsmNoRx, callerVars, TokenInv, InWord, InNotif, InHand, InBack,
     RadioOn, NoToken, EndedWell
<1>5. ErrorInv'
  BY DEF FsmNoRx, callerVars, ErrorInv, EndedWell
<1>6. SentInv'
  BY DEF FsmNoRx, SentInv, InWord
<1>7. NoLostRequest'
  BY DEF FsmNoRx, callerVars, NoLostRequest, Answering
<1>8. QED
  BY <1>1, <1>2, <1>3, <1>4, <1>5, <1>6, <1>7

\* An expiry is reported, or the timer armed again.
LEMMA FsmTimeoutKeeps ==
  ASSUME PhyErrorEvents = FALSE, IInv, TypeOK', FsmTimeout
  PROVE  IInv'
<1> USE DEF IInv
<1>1. LoopInv'
  BY DEF FsmTimeout, callerVars, Expandable, TypeOK, FlagsOK, LoopInv, Devices
<1>2. CallerInv'
  BY DEF FsmTimeout, callerVars, CallerInv
<1>3. KindInv'
  BY DEF FsmTimeout, KindInv, InWord
<1>4. TokenInv'
  BY DEF FsmTimeout, callerVars, TokenInv, Dones, InWord, InNotif, InHand,
     InBack, RadioOn, NoToken, EndedWell
<1>5. ErrorInv'
  BY DEF FsmTimeout, callerVars, ErrorInv, Ends, EndedWell
<1>6. SentInv'
  BY DEF FsmTimeout, SentInv, InWord
<1>7. NoLostRequest'
  BY DEF FsmTimeout, callerVars, NoLostRequest, Answering, Ends
<1>8. QED
  BY <1>1, <1>2, <1>3, <1>4, <1>5, <1>6, <1>7

\* Stopping the radio takes nothing but the token away.
LEMMA AbortKeeps ==
  ASSUME PhyErrorEvents = FALSE, IInv, TypeOK', Abort
  PROVE  IInv'
<1> USE DEF IInv
<1>1. \/ /\ Aborting
         /\ dev'.st \in {"IDLE", "ERROR"} /\ dev'.radio \in {"off", dev.radio}
         /\ dev'.st = "IDLE" => dev'.err = "NONE"
      \/ dev'.st = "IDLE" /\ dev'.err = "NONE" /\ dev'.radio = dev.radio
      \/ dev' = dev
  BY DeviceOutcomes DEF Abort, TypeOK
<1>2. LoopInv'
  BY DEF Abort, LoopInv
<1>3. CallerInv'
  BY <1>1 DEF Abort, callerVars, CallerInv
<1>4. KindInv'
  BY <1>1 DEF Abort, KindInv, InWord
<1>5. TokenInv'
  BY <1>1 DEF Abort, callerVars, TokenInv, InWord, InNotif, InHand, InBack,
     RadioOn, NoToken, EndedWell
<1>6. ErrorInv'
  BY <1>1 DEF Abort, callerVars, Aborting, ErrorInv, LoopInv, Ends, EndedWell
<1>7. SentInv'
  BY DEF Abort, SentInv, InWord
<1>8. NoLostRequest'
  BY DEF Abort, callerVars, NoLostRequest, Answering
<1>9. QED
  BY <1>2, <1>3, <1>4, <1>5, <1>6, <1>7, <1>8

\* The caller learns what the word held; its request ends if that ends it.
LEMMA NotifyKeeps ==
  ASSUME PhyErrorEvents = FALSE, IInv, TypeOK', Notify
  PROVE  IInv'
<1> USE DEF IInv
<1>1. LoopInv'
  BY DEF Notify, LoopInv
<1>2. CallerInv'
  BY DEF Notify, callerVars, CallerInv
<1>3. KindInv'
  BY DEF Notify, KindInv, InWord
<1>4. TokenInv'
  BY DEF Notify, callerVars, TokenInv, Ends, Dones, InWord, InNotif, InHand,
     InBack, RadioOn, NoToken, EndedWell
<1>5. ErrorInv'
  BY DEF Notify, callerVars, ErrorInv, CallerInv, EndedWell
<1>6. SentInv'
  BY DEF Notify, SentInv, InWord
<1>7. NoLostRequest'
  BY DEF Notify, callerVars, NoLostRequest, Answering, CallerInv
<1>8. QED
  BY <1>1, <1>2, <1>3, <1>4, <1>5, <1>6, <1>7

\* Giving the lock changes nothing the invariant speaks of.
LEMMA ReleaseKeeps ==
  ASSUME PhyErrorEvents = FALSE, IInv, TypeOK', Release
  PROVE  IInv'
<1> USE DEF IInv
<1>1. LoopInv'
  BY DEF Release, LoopInv
<1>2. CallerInv'
  BY DEF Release, callerVars, CallerInv
<1>3. KindInv'
  BY DEF Release, KindInv, InWord
<1>4. TokenInv'
  BY DEF Release, callerVars, TokenInv, InWord, InNotif, InHand, InBack,
     RadioOn, NoToken, EndedWell
<1>5. ErrorInv'
  BY DEF Release, callerVars, ErrorInv, EndedWell
<1>6. SentInv'
  BY DEF Release, SentInv, InWord
<1>7. NoLostRequest'
  BY DEF Release, callerVars, NoLostRequest, Answering
<1>8. QED
  BY <1>1, <1>2, <1>3, <1>4, <1>5, <1>6, <1>7

\* The radio becomes a completion, and the frame has been sent.
LEMMA PhyTxCompleteKeeps ==
  ASSUME PhyErrorEvents = FALSE, IInv, TypeOK', PhyTxComplete
  PROVE  IInv'
<1> USE DEF IInv
<1>1. LoopInv'
  BY DEF PhyTxComplete, PhyEvent, taskVars, LoopInv
<1>2. CallerInv'
  BY DEF PhyTxComplete, PhyEvent, callerVars, CallerInv
<1>3. KindInv'
  BY DEF PhyTxComplete, PhyEvent, taskVars, KindInv, InWord
<1>4. TokenInv'
  BY DEF PhyTxComplete, PhyEvent, taskVars, callerVars, TokenInv, InWord,
     InHand, InBack, RadioOn, NoToken, EndedWell
<1>5. ErrorInv'
  BY DEF PhyTxComplete, PhyEvent, taskVars, callerVars, ErrorInv, TokenInv,
     KindInv, Ends, Dones, InBack, RadioOn, NoToken, EndedWell
<1>6. SentInv'
  BY DEF PhyTxComplete, SentInv
<1>7. NoLostRequest'
  BY DEF PhyTxComplete, PhyEvent, taskVars, callerVars, NoLostRequest,
     Answering
<1>8. QED
  BY <1>1, <1>2, <1>3, <1>4, <1>5, <1>6, <1>7

\* The start of a frame does not move the token.
LEMMA PhyRxStartedKeeps ==
  ASSUME PhyErrorEvents = FALSE, IInv, TypeOK', PhyRxStarted
  PROVE  IInv'
<1> USE DEF IInv
<1>1. LoopInv'
  BY DEF PhyRxStarted, PhyEvent, taskVars, LoopInv
<1>2. CallerInv'
  BY DEF PhyRxStarted, PhyEvent, callerVars, CallerInv
<1>3. KindInv'
  BY DEF PhyRxStarted, PhyEvent, taskVars, KindInv, InWord
<1>4. TokenInv'
  BY DEF PhyRxStarted, PhyEvent, taskVars, callerVars, TokenInv, Completions,
     InWord, InNotif, InHand, InBack, RadioOn, NoToken, EndedWell
<1>5. ErrorInv'
  BY DEF PhyRxStarted, PhyEvent, taskVars, callerVars, ErrorInv, EndedWell
<1>6. SentInv'
  BY DEF PhyRxStarted, PhyEvent, taskVars, SentInv, InWord
<1>7. NoLostRequest'
  BY DEF PhyRxStarted, PhyEvent, taskVars, callerVars, NoLostRequest, Answering
<1>8. QED
  BY <1>1, <1>2, <1>3, <1>4, <1>5, <1>6, <1>7

\* The radio becomes a completion.
LEMMA PhyRxCompleteKeeps ==
  ASSUME PhyErrorEvents = FALSE, IInv, TypeOK', PhyRxComplete
  PROVE  IInv'
<1> USE DEF IInv
<1>1. LoopInv'
  BY DEF PhyRxComplete, PhyEvent, taskVars, LoopInv
<1>2. CallerInv'
  BY DEF PhyRxComplete, PhyEvent, callerVars, CallerInv
<1>3. KindInv'
  BY DEF PhyRxComplete, PhyEvent, taskVars, KindInv, InWord
<1>4. TokenInv'
  BY DEF PhyRxComplete, PhyEvent, taskVars, callerVars, TokenInv, InWord,
     InHand, InBack, RadioOn, NoToken, EndedWell
<1>5. ErrorInv'
  BY DEF PhyRxComplete, PhyEvent, taskVars, callerVars, ErrorInv, CallerInv,
     TokenInv, Ends, Dones, InBack, RadioOn, NoToken, EndedWell
<1>6. SentInv'
  BY DEF PhyRxComplete, PhyEvent, taskVars, SentInv, InWord
<1>7. NoLostRequest'
  BY DEF PhyRxComplete, PhyEvent, taskVars, callerVars, NoLostRequest,
     Answering
<1>8. QED
  BY <1>1, <1>2, <1>3, <1>4, <1>5, <1>6, <1>7

\* The timer becomes an expiry in notif.
LEMMA TimeOutKeeps ==
  ASSUME PhyErrorEvents = FALSE, IInv, TypeOK', TimeOut
  PROVE  IInv'
<1> USE DEF IInv
<1>1. LoopInv'
  BY DEF TimeOut, taskVars, LoopInv
<1>2. CallerInv'
  BY DEF TimeOut, callerVars, CallerInv
<1>3. KindInv'
  BY DEF TimeOut, taskVars, KindInv, InWord
<1>4. TokenInv'
  BY DEF TimeOut, taskVars, callerVars, TokenInv, Completions, InWord, InNotif,
     InHand, InBack, RadioOn, NoToken, EndedWell
<1>5. ErrorInv'
  BY DEF TimeOut, taskVars, callerVars, ErrorInv, EndedWell
<1>6. SentInv'
  BY DEF TimeOut, taskVars, SentInv, InWord
<1>7. NoLostRequest'
  BY DEF TimeOut, NoLostRequest
<1>8. QED
  BY <1>1, <1>2, <1>3, <1>4, <1>5, <1>6, <1>7

\* The manager is acquired when nothing of the last owner is left.
LEMMA OpenKeeps ==
  ASSUME PhyErrorEvents = FALSE, IInv, TypeOK', Open
  PROVE  IInv'
<1> USE DEF IInv
<1>1. dev'.radio \in {"off", dev.radio}
  BY DEF Open, TypeOK, Devices
<1>2. LoopInv'
  BY DEF Open, taskVars, LoopInv
<1>3. CallerInv'
  BY DEF Open, CallerInv
<1>4. KindInv'
  BY <1>1 DEF Open, taskVars, KindInv, InWord
<1>5. TokenInv'
  BY DEF Open, Quiescent, taskVars, TokenInv, LoopInv, InWord, InNotif, InHand,
     InBack, RadioOn, NoToken, EndedWell
<1>6. ErrorInv'
  BY DEF Open, ErrorInv, CallerInv, EndedWell
<1>7. SentInv'
  BY DEF Open, taskVars, SentInv, InWord
<1>8. NoLostRequest'
  BY DEF Open, NoLostRequest, CallerInv
<1>9. QED
  BY <1>2, <1>3, <1>4, <1>5, <1>6, <1>7, <1>8

\* The request, if any, is given up.
LEMMA CloseKeeps ==
  ASSUME PhyErrorEvents = FALSE, IInv, TypeOK', Close
  PROVE  IInv'
<1> USE DEF IInv
<1>1. LoopInv'
  BY DEF Close, taskVars, LoopInv
<1>2. CallerInv'
  BY DEF Close, CallerInv
<1>3. KindInv'
  BY DEF Close, taskVars, KindInv, InWord
<1>4. TokenInv'
  BY DEF Close, taskVars, TokenInv, InWord, InNotif, InHand, InBack, RadioOn,
     EndedWell
<1>5. ErrorInv'
  BY DEF Close, ErrorInv, CallerInv, EndedWell
<1>6. SentInv'
  BY DEF Close, taskVars, SentInv, InWord
<1>7. NoLostRequest'
  BY DEF Close, NoLostRequest, CallerInv
<1>8. QED
  BY <1>1, <1>2, <1>3, <1>4, <1>5, <1>6, <1>7

\* A transmission is started only when there is no token.
LEMMA SendKeeps ==
  ASSUME PhyErrorEvents = FALSE, IInv, TypeOK', Send
  PROVE  IInv'
<1> USE DEF IInv
<1>1. \/ /\ dev' = dev /\ req' = req /\ ltype' = ltype /\ phase' = "done"
      \/ /\ dev' \in Started(dev, "tx") /\ dev.st # "BUSY"
         /\ dev'.radio = "tx" /\ dev'.st = "BUSY"
         /\ dev'.err = "NONE" \/ (dev'.err = dev.err /\ dev.st = "IDLE")
         /\ req' = "SEND" /\ ltype' = "SEND" /\ phase' = "arm"
      \/ /\ dev' = dev \/ dev'.st # "UNKNOWN"
         /\ dev'.radio \in {"off", dev.radio}
         /\ req' = req /\ ltype' = "SEND" /\ phase' = "done"
  BY DeviceOutcomes DEF Send, Request, TypeOK
<1>2. LoopInv'
  BY DEF Send, Request, taskVars, LoopInv
<1>3. CallerInv'
  BY <1>1 DEF Send, Request, CallerInv
<1>4. KindInv'
  BY <1>1 DEF Send, Request, taskVars, KindInv, TokenInv, Completions, InWord,
     InNotif, InHand, RadioOn, NoToken
<1>5. TokenInv'
  BY DEF Send, Request, taskVars, TokenInv, InWord, InNotif, InHand, InBack,
     NoToken, EndedWell
<1>6. ErrorInv'
  BY DEF Send, Request, ErrorInv, CallerInv, EndedWell, Started
<1>7. SentInv'
  BY DEF Send, Request, taskVars, SentInv, TokenInv, Completions, Dones,
     InWord, InNotif, InHand, InBack, NoToken
<1>8. NoLostRequest'
  BY DEF Send, Request, NoLostRequest, CallerInv
<1>9. QED
  BY <1>2, <1>3, <1>4, <1>5, <1>6, <1>7, <1>8

\* A window is opened only when there is no token.
LEMMA ListenKeeps ==
  ASSUME PhyErrorEvents = FALSE, IInv, TypeOK', NEW kind \in Listens, Listen(kind)
  PROVE  IInv'
<1> USE DEF IInv
<1>1. \/ /\ dev' = dev /\ req' = req /\ ltype' = ltype /\ phase' = "done"
      \/ /\ dev' \in Started(dev, "rx") /\ dev.st # "BUSY"
         /\ dev'.radio = "rx" /\ dev'.st = "BUSY"
         /\ dev'.err = "NONE" \/ (dev'.err = dev.err /\ dev.st = "IDLE")
         /\ req' = kind /\ ltype' = kind /\ phase' = "arm"
      \/ /\ dev' = dev \/ dev'.st # "UNKNOWN"
         /\ dev'.radio \in {"off", dev.radio}
         /\ req' = req /\ ltype' = kind /\ phase' = "done"
  BY DeviceOutcomes DEF Listen, Request, TypeOK
<1>2. LoopInv'
  BY DEF Listen, Request, taskVars, LoopInv
<1>3. CallerInv'
  BY <1>1 DEF Listen, Request, CallerInv
<1>4. KindInv'
  BY <1>1 DEF Listen, Request, taskVars, Listens, KindInv, TokenInv,
     Completions, InWord, InNotif, InHand, RadioOn, NoToken
<1>5. TokenInv'
  BY DEF Listen, Request, taskVars, Listens, TokenInv, InWord, InNotif, InHand,
     InBack, NoToken, EndedWell
<1>6. ErrorInv'
  BY DEF Listen, Request, ErrorInv, CallerInv, EndedWell, Started
<1>7. SentInv'
  BY DEF Listen, Request, taskVars, SentInv, InWord
<1>8. NoLostRequest'
  BY DEF Listen, Request, NoLostRequest, CallerInv
<1>9. QED
  BY <1>2, <1>3, <1>4, <1>5, <1>6, <1>7, <1>8

\* The timer takes over from the call.
LEMMA ArmKeeps ==
  ASSUME PhyErrorEvents = FALSE, IInv, TypeOK', Arm
  PROVE  IInv'
<1> USE DEF IInv
<1>1. LoopInv'
  BY DEF Arm, taskVars, LoopInv
<1>2. CallerInv'
  BY DEF Arm, TryAbort, PhyCmd, PhyFaulty, CallerInv
<1>3. KindInv'
  BY DEF Arm, TryAbort, PhyCmd, PhyFaulty, taskVars, KindInv, InWord
<1>4. TokenInv'
  BY DEF Arm, TryAbort, PhyCmd, PhyFaulty, taskVars, TokenInv, InWord, InNotif,
     InHand, InBack, RadioOn, NoToken, EndedWell
<1>5. ErrorInv'
  BY DEF Arm, taskVars, ErrorInv, EndedWell
<1>6. SentInv'
  BY DEF Arm, taskVars, SentInv, InWord
<1>7. NoLostRequest'
  BY DEF Arm, NoLostRequest
<1>8. QED
  BY <1>1, <1>2, <1>3, <1>4, <1>5, <1>6, <1>7

\* The caller may go on only when no token is left.
LEMMA TakeKeeps ==
  ASSUME PhyErrorEvents = FALSE, IInv, TypeOK', Take
  PROVE  IInv'
<1> USE DEF IInv
<1>1. phase = "busy" =>
         /\ phase' \in {"busy", "done", "ready"}
         /\ phase' = "busy" => cnotif \cap Ends(ltype) = {}
         /\ phase' # "busy" => cnotif \cap Ends(ltype) # {}
         /\ phase' # "done" => cnotif \cap {"TIMEOUT", "ERROR"} = {}
  BY DEF Take, Ends
<1>2. phase = "busy" =>
         /\ req # "none" => phase' = "busy"
         /\ phase' = "ready" \/ (EndedWell' /\ ltype # "MANY") => EndedWell
  BY <1>1 DEF EndedWell, Take, CallerInv
<1>3. phase = "busy" /\ phase' = "ready" => ltype # "MANY"
  BY <1>1 DEF Ends
<1>4. LoopInv'
  BY DEF Take, taskVars, LoopInv
<1>5. CallerInv'
  <2>1. CASE phase # "busy"
    BY <2>1 DEF Take, CallerInv
  <2>2. CASE phase = "busy"
    BY <1>1, <1>2, <1>3, <2>2 DEF Take, CallerInv
  <2>3. QED
    BY <2>1, <2>2
<1>6. KindInv'
  BY DEF Take, taskVars, KindInv, InWord
<1>7. TokenInv'
  <2>1. CASE phase # "busy"
    BY <2>1 DEF Take, taskVars, TokenInv, InWord, InNotif, InHand, InBack,
       RadioOn, NoToken, EndedWell
  <2>2. CASE phase = "busy"
    BY <1>1, <1>2, <1>3, <2>2 DEF Take, taskVars, TokenInv, InWord, InNotif,
       InHand, InBack, RadioOn, NoToken
  <2>3. QED
    BY <2>1, <2>2
<1>8. ErrorInv'
  <2>1. CASE phase # "busy"
    BY <2>1 DEF Take, ErrorInv, CallerInv, EndedWell
  <2>2. CASE phase = "busy"
    BY <1>1, <1>2, <1>3, <2>2 DEF Take, taskVars, ErrorInv
  <2>3. QED
    BY <2>1, <2>2
<1>9. SentInv'
  BY DEF Take, taskVars, SentInv, InWord
<1>10. NoLostRequest'
  BY DEF Take, taskVars, NoLostRequest, Answering
<1>11. QED
  BY <1>4, <1>5, <1>6, <1>7, <1>8, <1>9, <1>10

\* Only REARM is added to notif.
LEMMA ListenReadyKeeps ==
  ASSUME PhyErrorEvents = FALSE, IInv, TypeOK', ListenReady
  PROVE  IInv'
<1> USE DEF IInv
<1>1. LoopInv'
  BY DEF ListenReady, taskVars, LoopInv
<1>2. CallerInv'
  BY DEF ListenReady, CallerInv
<1>3. KindInv'
  BY DEF ListenReady, taskVars, KindInv, InWord
<1>4. TokenInv'
  BY DEF ListenReady, taskVars, TokenInv, Completions, InWord, InNotif, InHand,
     InBack, RadioOn, NoToken, EndedWell
<1>5. ErrorInv'
  BY DEF ListenReady, taskVars, ErrorInv, EndedWell
<1>6. SentInv'
  BY DEF ListenReady, taskVars, SentInv, InWord
<1>7. NoLostRequest'
  BY DEF ListenReady, taskVars, NoLostRequest, Answering
<1>8. QED
  BY <1>1, <1>2, <1>3, <1>4, <1>5, <1>6, <1>7

-----------------------------------------------------------------------------
\* Nothing has happened when the program starts.
LEMMA InvInit == Init => IInv
<1> SUFFICES ASSUME Init PROVE IInv
  OBVIOUS
<1> USE DEF Init
<1>1. TypeOK
  BY TypeInit
<1>2. LoopInv /\ CallerInv /\ KindInv
  BY DEF LoopInv, CallerInv, KindInv, InWord
<1>3. TokenInv
  BY DEF TokenInv, NoToken, EndedWell, RadioOn, InNotif, InHand, InBack, InWord,
     Completions, Dones
<1>4. ErrorInv /\ SentInv /\ NoLostRequest
  BY DEF ErrorInv, EndedWell, SentInv, InWord, NoLostRequest
<1>5. QED
  BY <1>1, <1>2, <1>3, <1>4 DEF IInv

\* A step that changes nothing.
LEMMA StutterKeeps ==
  ASSUME IInv, UNCHANGED vars
  PROVE  IInv'
<1> USE DEF vars, taskVars, callerVars
<1>1. TypeOK'
  BY TypeStep DEF IInv
<1>2. LoopInv' /\ CallerInv' /\ KindInv'
  BY DEF IInv, LoopInv, CallerInv, KindInv, InWord, Ends
<1>3. TokenInv'
  BY DEF IInv, TokenInv, NoToken, EndedWell, RadioOn, InNotif, InHand, InBack, InWord
<1>4. ErrorInv' /\ SentInv' /\ NoLostRequest'
  BY DEF IInv, ErrorInv, EndedWell, SentInv, InWord, NoLostRequest, Answering, Ends
<1>5. QED
  BY <1>1, <1>2, <1>3, <1>4 DEF IInv

\* Without error events of the driver, every step keeps the invariant.
LEMMA InvStep ==
  ASSUME PhyErrorEvents = FALSE, IInv, [Next]_vars
  PROVE  IInv'
<1>1. TypeOK'
  BY TypeStep DEF IInv
<1>2. CASE Task
  BY <1>1, <1>2, WaitKeeps, SwitchKeeps, FsmTxKeeps, FsmRxDropKeeps,
     FsmRxMatchKeeps, FsmRxPassKeeps, FsmRxFailKeeps, FsmNoRxKeeps,
     FsmTimeoutKeeps, AbortKeeps, NotifyKeeps, ReleaseKeeps DEF Task, Fsm
<1>3. CASE Interrupt
  <2>1. ~PhyError
    BY DEF PhyError
  <2>2. QED
    BY <1>1, <1>3, <2>1, PhyTxCompleteKeeps, PhyRxStartedKeeps,
       PhyRxCompleteKeeps, TimeOutKeeps DEF Interrupt, EvtCb
<1>4. CASE Caller
  BY <1>1, <1>4, OpenKeeps, CloseKeeps, SendKeeps, ListenKeeps, ArmKeeps,
     TakeKeeps, ListenReadyKeeps DEF Caller
<1>5. CASE UNCHANGED vars
  BY <1>5, StutterKeeps
<1>6. QED
  BY <1>2, <1>3, <1>4, <1>5 DEF Next

\* With a driver that raises no error events, a request that NetMgr_Send or
\* NetMgr_Listen accepted is never forgotten: whatever the interrupts, the calls
\* that fail and the words read late, its timer is armed, or the expiry waits,
\* or the task has the answer in hand.
THEOREM NoRequestLost ==
  ASSUME PhyErrorEvents = FALSE
  PROVE  Spec => []NoLostRequest
<1>1. IInv => NoLostRequest
  BY DEF IInv
<1>2. QED
  BY <1>1, InvInit, InvStep, PTL DEF Spec

\* The invariant itself: one start of the radio is one token, from the radio to
\* the word the caller is told of.
THEOREM OneToken ==
  ASSUME PhyErrorEvents = FALSE
  PROVE  Spec => []IInv
<1>1. QED
  BY InvInit, InvStep, PTL DEF Spec

\* With such a driver, NET_EVENT_SEND_DONE is never reported to the sessions
\* unless the radio has transmitted since the last NetMgr_Send.
THEOREM SendDoneIsTrue ==
  ASSUME PhyErrorEvents = FALSE
  PROVE  Spec => []SendDoneMeansSent
<1>1. IInv => SendDoneMeansSent
  BY DEF IInv, SentInv, SendDoneMeansSent
<1>2. QED
  BY <1>1, InvInit, InvStep, PTL DEF Spec

-----------------------------------------------------------------------------
(* The network manager implements NetService.                              *)

\* IInv says of which kind a token is until it has been treated.  The word the
\* sessions get needs it one step longer.
RecvInv == "RECV_DONE" \in back => ltype # "SEND"

LEMMA RecvStep ==
  ASSUME IInv, RecvInv, [Next]_vars
  PROVE  RecvInv'
<1> USE DEF RecvInv, taskVars, callerVars
<1>1. CASE FsmRxMatch
  <2>1. ltype # "SEND" /\ ltype' = ltype
    BY <1>1 DEF IInv, KindInv, InWord, FsmRxMatch, WizeNetRecv, InFsmRx
  <2> QED
    BY <2>1
<1>2. CASE FsmTx
  BY <1>2 DEF FsmTx
<1>3. CASE FsmRxDrop \/ FsmRxPass \/ FsmRxFail
  BY <1>3 DEF FsmRxDrop, FsmRxPass, FsmRxFail, Relisten
<1>4. CASE FsmTimeout
  BY <1>4 DEF FsmTimeout
<1>5. CASE Wait \/ Switch \/ FsmNoRx \/ Abort \/ Release \/ Notify
  BY <1>5 DEF Wait, Switch, FsmNoRx, Abort, Release, Notify
<1>6. CASE Interrupt
  BY <1>6 DEF Interrupt, EvtCb, PhyTxComplete, PhyRxStarted, PhyRxComplete, PhyError, PhyEvent, TimeOut
<1>7. CASE Open \/ Close \/ Arm \/ Take \/ ListenReady
  BY <1>7 DEF Open, Close, Arm, Take, ListenReady
<1>8. ASSUME NEW kind, NEW mode, Request(kind, mode) PROVE RecvInv'
  <2>1. "RECV_DONE" \notin back
    BY <1>8 DEF Request, IInv, TokenInv, NoToken, InBack, Dones
  <2> QED
    BY <1>8, <2>1 DEF Request
<1>9. CASE Send \/ \E kind \in Listens : Listen(kind)
  BY <1>8, <1>9 DEF Send, Listen
<1>10. CASE UNCHANGED vars
  BY <1>10 DEF vars
<1> QED
  BY <1>1, <1>2, <1>3, <1>4, <1>5, <1>6, <1>7, <1>9, <1>10 DEF Next, Task, Fsm, Caller

\* What the caller does not see is a step of the service only in that the
\* completion of a transmission may be lost.
LEMMA HiddenStep ==
  ASSUME UNCHANGED <<open, req, ltype, cnotif>>, Owed' => Owed
  PROVE  [Service!Next]_(Service!serviceVars)
<1>1. CASE Owed' <=> Owed
  BY <1>1 DEF Service!serviceVars, Owed
<1>2. CASE Owed /\ ~Owed'
  BY <1>2 DEF Service!Next, Service!Lose
<1> QED
  BY <1>1, <1>2

\* The steps of the task before it notifies.
LEMMA TaskHides ==
  ASSUME IInv, Wait \/ Switch \/ Fsm \/ Abort \/ Release
  PROVE  UNCHANGED <<open, req, ltype, cnotif>> /\ (Owed' => Owed)
<1> USE DEF taskVars, callerVars
<1>0. dev \in Devices /\ Cleared(dev) \in Devices /\ Cleared(dev).radio = dev.radio
  BY DevicesTyped, DeviceOutcomes DEF IInv, TypeOK
<1>1. CASE Wait
  BY <1>1 DEF Wait, Owed
<1>2. CASE Switch
  BY <1>2 DEF Switch, Owed, IInv, LoopInv
<1>3. CASE FsmTx
  <2>1. dev'.radio \in {"off", dev.radio}
    BY <1>0, <1>3, DeviceOutcomes DEF FsmTx
  <2> QED
    BY <1>3, <2>1 DEF FsmTx, Owed, IInv, LoopInv
<1>4. ASSUME NEW d \in Devices, d.radio = dev.radio, NEW evts, "SEND_DONE" \notin evts,
             Relisten(d, evts), pc = "rx", pc' = "tmo",
             UNCHANGED <<notif, word, open, req, ltype, cnotif>>
      PROVE  UNCHANGED <<open, req, ltype, cnotif>> /\ (Owed' => Owed)
  <2>1. dev'.radio \in {"rx", "off", dev.radio}
    BY <1>4, RelistenOutcomes
  <2>2. "SEND_DONE" \in back' => "SEND_DONE" \in back
    BY <1>4, RelistenOutcomes
  <2> QED
    BY <1>4, <2>1, <2>2 DEF Owed
<1>5. CASE FsmRxDrop \/ FsmRxPass
  BY <1>0, <1>4, <1>5 DEF FsmRxDrop, FsmRxPass, WizeNetRecv, InFsmRx
<1>6. CASE FsmRxMatch
  <2>1. CASE ltype = "MANY"
    BY <1>0, <1>4, <1>6, <2>1 DEF FsmRxMatch, WizeNetRecv, InFsmRx
  <2>2. CASE ltype # "MANY"
    BY <1>6, <2>2 DEF FsmRxMatch, WizeNetRecv, InFsmRx, Owed
  <2> QED
    BY <2>1, <2>2
<1>7. CASE FsmRxFail
  <2>1. CASE Relisten(Cleared(dev), {})
    BY <1>0, <1>4, <1>7, <2>1 DEF FsmRxFail, WizeNetRecv, InFsmRx
  <2>2. CASE dev' = Cleared(dev) /\ back' = {"TIMEOUT"}
    BY <1>0, <1>7, <2>2 DEF FsmRxFail, WizeNetRecv, InFsmRx, Owed
  <2> QED
    BY <1>7, <2>1, <2>2 DEF FsmRxFail
<1>8. CASE FsmNoRx
  BY <1>8 DEF FsmNoRx, Owed
<1>9. CASE FsmTimeout
  BY <1>9 DEF FsmTimeout, Owed
<1>10. CASE Abort
  <2>1. dev'.radio \in {"off", dev.radio}
    BY <1>0, <1>10, DeviceOutcomes DEF Abort
  <2> QED
    BY <1>10, <2>1 DEF Abort, Owed
<1>11. CASE Release
  BY <1>11 DEF Release, Owed
<1> QED
  BY <1>1, <1>2, <1>3, <1>5, <1>6, <1>7, <1>8, <1>9, <1>10, <1>11 DEF Fsm

\* The task notifies: the word is one that the service may deliver.
LEMMA NotifyDelivers ==
  ASSUME IInv, RecvInv, Notify
  PROVE  Service!Next
<1> USE DEF taskVars, callerVars
<1>1. pc = "notify" /\ pc' \in {"wait", "release"} /\ back \in SUBSET BackEvts
  BY DEF Notify, IInv, TypeOK
<1>2. Owed <=> dev.radio = "tx" \/ "TX_COMPLETE" \in notif \/ "SEND_DONE" \in back
  BY <1>1 DEF Owed
<1>3. Owed' <=> dev.radio = "tx" \/ "TX_COMPLETE" \in notif
  BY <1>1 DEF Owed, Notify
<1>4. "SEND_DONE" \in back => ~(dev.radio = "tx" \/ "TX_COMPLETE" \in notif)
  BY DEF IInv, TokenInv, KindInv, RadioOn, InNotif, InBack, Completions, Dones
<1>5. req = "none" => (IF open /\ Ends(req) \cap back # {} THEN "none" ELSE req) = "none"
  OBVIOUS
<1>6. Service!Deliver(back)
  <2>1. ("SEND_DONE" \in back => Owed) /\ (Owed' = (Owed /\ "SEND_DONE" \notin back))
    BY <1>2, <1>3, <1>4 DEF Owed
  <2>2. "RECV_DONE" \in back => ltype # "SEND"
    BY DEF RecvInv
  <2>3. IF open
          THEN /\ cnotif' = cnotif \cup back
               /\ req' = IF req # "none" /\ back \cap Ends(req) # {} THEN "none" ELSE req
          ELSE UNCHANGED <<cnotif, req>>
    BY <1>5 DEF Notify
  <2>4. UNCHANGED <<open, ltype>>
    BY DEF Notify
  <2> QED
    BY <2>1, <2>2, <2>3, <2>4 DEF Service!Deliver
<1> QED
  BY <1>1, <1>6 DEF Service!Next

\* The interrupts of a driver without error events are not seen.
LEMMA InterruptHides ==
  ASSUME IInv, Interrupt, ~PhyError
  PROVE  UNCHANGED <<open, req, ltype, cnotif>> /\ (Owed' => Owed)
<1>1. dev \in Devices
  BY DEF IInv, TypeOK
<1>2. CASE PhyTxComplete
  BY <1>2 DEF PhyTxComplete, PhyEvent, Owed, taskVars, callerVars
<1>3. CASE PhyRxComplete
  <2>1. dev'.radio = "off"
    BY <1>1, <1>3 DEF PhyRxComplete, Devices
  <2> QED
    BY <1>3, <2>1 DEF PhyRxComplete, PhyEvent, Owed, taskVars, callerVars
<1>4. CASE PhyRxStarted
  BY <1>4 DEF PhyRxStarted, PhyEvent, Owed, taskVars, callerVars
<1>5. CASE TimeOut
  BY <1>5 DEF TimeOut, Owed, taskVars, callerVars
<1> QED
  BY <1>2, <1>3, <1>4, <1>5 DEF Interrupt, EvtCb

\* A request is one that the service accepts or refuses.
LEMMA RequestServed ==
  ASSUME IInv, NEW kind \in Requests, NEW mode \in {"tx", "rx"}, kind = "SEND" <=> mode = "tx",
         Request(kind, mode)
  PROVE  Service!Accept(kind) \/ Service!Refuse(kind)
<1> USE DEF taskVars, callerVars
<1>1. phase = "ready" /\ cnotif = {} /\ dev \in Devices
  BY DEF Request, IInv, TypeOK
<1>2. open /\ req = "none" /\ NoToken
  BY <1>1 DEF IInv, CallerInv, TokenInv
<1>3. ~Owed /\ dev.radio = "off"
  BY <1>1, <1>2 DEF Owed, NoToken, RadioOn, InNotif, InHand, InBack, InWord, Completions, Dones, Devices
<1>4. UNCHANGED <<open, cnotif, notif, word, back, pc>>
  BY DEF Request
<1>5. CASE lock /\ ltype' = kind /\ dev' \in Started(dev, mode) /\ req' = kind
  <2>1. dev'.radio = mode
    BY <1>1, <1>5, DeviceOutcomes
  <2>2. Owed' <=> mode = "tx"
    BY <1>3, <1>4, <2>1 DEF Owed
  <2>3. Owed' = (kind = "SEND")
    BY <2>2 DEF Owed
  <2> QED
    BY <1>1, <1>2, <1>3, <1>4, <1>5, <2>3 DEF Service!Accept
<1>6. CASE dev'.radio = "off" /\ req' = req /\ ltype' \in {ltype, kind}
  <2>1. Owed' = Owed
    BY <1>3, <1>4, <1>6 DEF Owed
  <2> QED
    BY <1>2, <1>4, <1>6, <2>1 DEF Service!Refuse
<1>7. CASE lock /\ ltype' = kind /\ dev' \in NotStarted(dev, mode) /\ UNCHANGED req
  BY <1>1, <1>3, <1>6, <1>7, DeviceOutcomes
<1>8. CASE ~lock /\ UNCHANGED <<ltype, dev, req>>
  BY <1>3, <1>6, <1>8
<1> QED
  BY <1>5, <1>7, <1>8 DEF Request

\* Every call of the caller is an action of the service, or nothing.
LEMMA CallerServed ==
  ASSUME IInv, Caller
  PROVE  [Service!Next]_(Service!serviceVars)
<1> USE DEF taskVars, callerVars
<1>0. dev \in Devices
  BY DEF IInv, TypeOK
<1>1. CASE Open
  <2>1. pc = "wait" /\ notif = {} /\ cnotif = {} /\ ~open
    BY <1>1 DEF Open, Quiescent, IInv, CallerInv
  <2>2. CASE open' = TRUE /\ dev' = [st |-> "IDLE", err |-> "NONE", radio |-> "off"]
    <3>1. Owed' = FALSE
      BY <1>1, <2>1, <2>2 DEF Open, Owed
    <3> QED
      BY <1>1, <2>1, <2>2, <3>1 DEF Open, Service!Open, Service!Next
  <2>3. CASE open' = open /\ dev'.radio = dev.radio
    BY <1>1, <2>3, HiddenStep DEF Open, Owed
  <2>4. \/ open' = TRUE /\ dev' = [st |-> "IDLE", err |-> "NONE", radio |-> "off"]
        \/ dev' = [st |-> "UNKNOWN", err |-> "PHY", radio |-> dev.radio] /\ open' = open
        \/ dev' = dev /\ open' = open
    BY <1>1 DEF Open
  <2>5. [st |-> "UNKNOWN", err |-> "PHY", radio |-> dev.radio].radio = dev.radio
    OBVIOUS
  <2>6. dev' = [st |-> "UNKNOWN", err |-> "PHY", radio |-> dev.radio] => dev'.radio = dev.radio
    BY <2>5
  <2>7. CASE (dev' = dev \/ dev'.radio = dev.radio) /\ open' = open
    BY <2>3, <2>7
  <2> QED
    BY <2>2, <2>4, <2>6, <2>7
<1>2. CASE Close
  <2>1. open /\ dev'.radio = "off"
    BY <1>0, <1>2 DEF Close, IInv, CallerInv, Devices
  <2>2. Owed' \in {Owed, FALSE}
    BY <1>2, <2>1 DEF Close, Owed
  <2> QED
    BY <1>2, <2>1, <2>2 DEF Close, Service!Close, Service!Next
<1>3. CASE Send
  <2>1. "SEND" \in Requests
    BY DEF Requests
  <2> QED
    BY <1>3, <2>1, RequestServed DEF Send, Service!Next
<1>4. ASSUME NEW kind \in Listens, Listen(kind) PROVE Service!Next
  <2>1. kind \in Requests /\ kind # "SEND"
    BY DEF Requests, Listens
  <2> QED
    BY <1>4, <2>1, RequestServed DEF Listen, Service!Next
<1>5. CASE Arm
  <2>1. CASE UNCHANGED <<dev, req>>
    BY <1>5, <2>1, HiddenStep DEF Arm, Owed
  <2>2. CASE dev' \in TryAbort(dev) /\ req' = "none"
    <3>1. dev'.radio \in {"off", dev.radio}
      BY <1>0, <2>2, DeviceOutcomes DEF TryAbort
    <3>2. Owed' \in {Owed, FALSE}
      BY <1>5, <3>1 DEF Arm, Owed
    <3> QED
      BY <1>5, <2>2, <3>2 DEF Arm, Service!Withdraw, Service!Next
  <2> QED
    BY <1>5, <2>1, <2>2 DEF Arm
<1>6. CASE Take
  <2>1. Owed' = Owed
    BY <1>6 DEF Take, Owed
  <2> QED
    BY <1>6, <2>1 DEF Take, Service!Take, Service!Next
<1>7. CASE ListenReady
  BY <1>7, HiddenStep DEF ListenReady, Owed
<1> QED
  BY <1>1, <1>2, <1>3, <1>4, <1>5, <1>6, <1>7 DEF Caller

\* Every step is one of the service or is not seen.
LEMMA ServiceStep ==
  ASSUME PhyErrorEvents = FALSE, IInv, RecvInv, [Next]_vars
  PROVE  [Service!Next]_(Service!serviceVars)
<1>1. CASE Wait \/ Switch \/ Fsm \/ Abort \/ Release
  BY <1>1, TaskHides, HiddenStep
<1>2. CASE Notify
  BY <1>2, NotifyDelivers
<1>3. CASE Interrupt
  <2>1. ~PhyError
    BY DEF PhyError
  <2> QED
    BY <1>3, <2>1, InterruptHides, HiddenStep
<1>4. CASE Caller
  BY <1>4, CallerServed
<1>5. CASE UNCHANGED vars
  BY <1>5, HiddenStep DEF vars, taskVars, Owed
<1> QED
  BY <1>1, <1>2, <1>3, <1>4, <1>5 DEF Next, Task

\* With a driver that raises no error events the network manager is the service
\* the sessions are built on (net_mgr.h:52): requests one at a time, each
\* answered by a word that ends it, SEND_DONE once for a frame handed over and
\* never for an earlier one, RECV_DONE only after a listen, whatever fails and
\* whenever the owner closes.
THEOREM ServiceKept ==
  ASSUME PhyErrorEvents = FALSE
  PROVE  Spec => ServiceSpec
<1>1. Init => Service!Init /\ RecvInv
  BY DEF Init, Service!Init, Owed, RecvInv
<1>2. IInv /\ RecvInv /\ [Next]_vars => RecvInv'
  BY RecvStep
<1>3. IInv /\ RecvInv /\ [Next]_vars => [Service!Next]_(Service!serviceVars)
  BY ServiceStep
<1>4. IInv /\ [Next]_vars => IInv'
  BY InvStep
<1>5. QED
  BY <1>1, <1>2, <1>3, <1>4, InvInit, PTL DEF Spec, ServiceSpec, Service!Spec

-----------------------------------------------------------------------------
(* The configuration (NetConf), for every behaviour of driver, protocol    *)
(* and timers, error events included.                                      *)

\* Where the session is, and who has a request.  While it hands over its
\* configuration nothing else moves.
StageInv ==
  /\ step \in {"none", "medium", "proto", "run", "tuned", "failed", "again"}
  /\ open <=> phase # "closed"
  /\ step = "none" <=> phase = "closed"
  /\ ses = "none" <=> phase = "closed"
  /\ step \in {"tuned", "again"} => ses = "DWN"
  /\ step \in {"tuned", "failed"} => phase = "ready"
  /\ step = "again" => phase = "done"
  /\ unread \/ reading => open
  /\ step \in {"medium", "proto"} =>
       /\ Quiescent /\ ~timer /\ ~reading /\ lock /\ phase = "ready"
       /\ dev.st = "IDLE" /\ dev.radio = "off"

AskInv ==
  req # "none" => phase \in {"arm", "busy"} /\ ltype = req /\ cnotif \cap Ends(req) = {}

\* The device has what the session asked for, as far as it has got.
AsAsked ==
  /\ conf \in [Fields -> 0..Junk] /\ asked \in [Fields -> 0..Junk]
  /\ par \in [Parameters -> 0..Junk]
  /\ conf["DevId"] = asked["DevId"]
  /\ conf["DevId"] = 0
  /\ step = "proto" => \A f \in Medium : conf[f] = asked[f]
  /\ step \in {"run", "tuned", "again"} => conf = asked

\* What a task's loop has collected.
BackInv ==
  /\ pc \in {"wait", "switch", "tx", "release"} => back = {}
  /\ pc = "rx" => back \subseteq {"SEND_DONE"}
  /\ pc = "tmo" /\ "RECV_DONE" \in back => det = {}

\* A reception is one token: the radio, its completion in notif, then in word.
RxRadio == dev.radio = "rx"
RxNotif == "RX_COMPLETE" \in notif
RxWord  == InWord("RX_COMPLETE")
NoRx    == ~RxRadio /\ ~RxNotif /\ ~RxWord

RxInv ==
  /\ RxRadio => ~RxNotif /\ ~RxWord
  /\ RxNotif => ~RxWord
  /\ ~NoRx \/ "RECV_DONE" \in back => ltype # "SEND"
  /\ phase = "ready" => NoRx /\ "RECV_DONE" \notin back

\* The call of NetMgr_ListenReady that the task has not read yet.
RearmNotif == "REARM" \in notif
RearmWord  == pc = "switch" /\ "REARM" \in word
Rearm      == RearmNotif \/ RearmWord

\* A message that is held is announced in one place; no frame can come, or it
\* will be dropped.
HoldInv ==
  /\ unread <=> reading \/ "RECV_DONE" \in back \cup cnotif
  /\ "RECV_DONE" \in back => "RECV_DONE" \notin cnotif /\ ~reading
  /\ "RECV_DONE" \in cnotif => ~reading
  /\ unread => NoRx \/ (pend /\ ltype = "MANY")
  /\ Rearm => ~unread /\ (pend \/ NoRx)
  /\ ~(RearmNotif /\ RearmWord)
  /\ Rearm \/ reading => ltype = "MANY" /\ phase # "ready"

ExchInv == ses = "EXCH" => RxInv /\ HoldInv

SInv == TypeOK /\ StageInv /\ AskInv
CInv == SInv /\ BackInv /\ ExchInv

\* The steps that leave the session where it is.
Manager == Task \/ Interrupt \/ Arm \/ ListenReady

-----------------------------------------------------------------------------
\* A step of NetConf is one of NetMgr, or leaves its variables alone, or lets a
\* download go on after a window.
LEMMA ConfSteps ==
  ASSUME NextC
  PROVE  [Next]_vars \/ NextWindow
<1>1. CASE Manager /\ UNCHANGED confVars
  BY <1>1 DEF Manager, Next, Caller
<1>2. CASE OpenSession \/ CloseSession \/ Exchange \/ Window \/ Heard
  BY <1>2 DEF OpenSession, CloseSession, Exchange, Window, Heard, Next, Caller, Listens
<1>3. CASE CfgMedium \/ CfgProto
  BY <1>3 DEF CfgMedium, CfgProto, Configure
<1>4. CASE \E l \in Links : Tune(l[1], l[2]) \/ SetUplink(l[1], l[2])
  BY <1>4 DEF Tune, SetUplink
<1>5. CASE \E f \in Touched, v \in {1, OutOfRange} : SetField(f, v)
  BY <1>5 DEF SetField
<1>6. CASE \E f \in Touched, v \in Values : WriteParam(f, v)
  BY <1>6 DEF WriteParam
<1> QED BY <1>1, <1>2, <1>3, <1>4, <1>5, <1>6 DEF NextC, Session, Manager

LEMMA ConfTyped == TypeOK /\ [NextC]_<<vars, confVars>> => TypeOK'
<1> SUFFICES ASSUME TypeOK, [NextC]_<<vars, confVars>> PROVE TypeOK'
  OBVIOUS
<1>1. CASE [Next]_vars
  BY <1>1, TypeStep
<1>2. CASE NextWindow
  <2>1. FlagsOK'
    BY <1>2, Zenon DEF NextWindow, TypeOK, FlagsOK, taskVars
  <2> QED BY <1>2, <2>1 DEF NextWindow, TypeOK, taskVars
<1> QED BY <1>1, <1>2, ConfSteps

\* While a session configures the device, only its own steps are possible.
LEMMA Configuring ==
  ASSUME SInv, step \in {"medium", "proto"}
  PROVE  ~Manager /\ ~Take /\ ~Open
BY DEF SInv, StageInv, Quiescent, Manager, Task, Wait, Switch, Fsm, FsmTx, FsmRxDrop,
   FsmRxMatch, FsmRxPass, FsmRxFail, FsmNoRx, FsmTimeout, InFsmRx, WizeNetRecv,
   Abort, Notify, Release,
   Interrupt, EvtCb, RadioOn, TimeOut, Arm, ListenReady, Take, Open

\* What a step of task, interrupts, Arm and ListenReady does to the caller.
LEMMA TaskLeaves ==
  ASSUME SInv, Task
  PROVE  /\ UNCHANGED <<open, phase, reading>>
         /\ unread' \in {unread, open}
         /\ Notify \/ UNCHANGED <<cnotif, req>>
         /\ UNCHANGED ltype
BY DEF Task, Wait, Switch, Fsm, FsmTx, FsmRxDrop, FsmRxMatch, FsmRxPass, FsmRxFail,
   FsmNoRx, FsmTimeout, Abort, Notify, Release, callerVars

LEMMA ManagerStage ==
  ASSUME SInv, Manager, UNCHANGED confVars
  PROVE  StageInv' /\ AskInv'
<1>0. step \notin {"medium", "proto"}
  BY Configuring
<1>1. UNCHANGED <<step, ses>>
  BY DEF confVars
<1>2. CASE Task
  <2>1. UNCHANGED <<open, phase, reading, ltype>> /\ unread' \in {unread, open}
    BY <1>2, TaskLeaves
  <2>2. CASE Notify
    <3>1. /\ cnotif' = IF open THEN cnotif \cup back ELSE cnotif
          /\ req' = IF open /\ Ends(req) \cap back # {} THEN "none" ELSE req
      BY <2>2 DEF Notify
    <3>2. req' # "none" => req' = req /\ cnotif' \cap Ends(req) = {}
      BY <3>1 DEF SInv, AskInv
    <3>3. AskInv'
      BY <1>1, <2>1, <3>1, <3>2 DEF SInv, AskInv
    <3> QED BY <1>0, <1>1, <2>1, <3>3 DEF SInv, StageInv
  <2>3. CASE UNCHANGED <<cnotif, req>>
    BY <1>0, <1>1, <2>1, <2>3 DEF SInv, StageInv, AskInv
  <2> QED BY <1>2, <2>2, <2>3, TaskLeaves
<1>3. CASE Interrupt
  <2>1. UNCHANGED <<open, phase, reading, ltype, unread, cnotif, req>>
    BY <1>3 DEF Interrupt, EvtCb, PhyTxComplete, PhyRxStarted, PhyRxComplete, PhyError,
       TimeOut, PhyEvent, callerVars
  <2> QED BY <1>0, <1>1, <2>1 DEF SInv, StageInv, AskInv
<1>4. CASE Arm
  <2>1. /\ phase = "arm" /\ phase' \in {"busy", "done"} /\ (phase' = "done" => req' = "none")
        /\ req' \in {req, "none"} /\ UNCHANGED <<open, reading, ltype, unread, cnotif>>
    BY <1>4 DEF Arm
  <2> QED BY <1>0, <1>1, <2>1 DEF SInv, StageInv, AskInv
<1>5. CASE ListenReady
  BY <1>0, <1>1, <1>5 DEF ListenReady, SInv, StageInv, AskInv
<1> QED BY <1>2, <1>3, <1>4, <1>5 DEF Manager

\* A request of a session that runs.
LEMMA RequestStage ==
  ASSUME SInv, NEW kind \in Requests, NEW mode \in {"tx", "rx"}, Request(kind, mode),
         step \in {"run", "tuned"}, step' = "run", ses' = ses
  PROVE  StageInv' /\ AskInv'
<1>1. /\ phase = "ready" /\ cnotif = {} /\ ~reading /\ phase' \in {"arm", "done"}
      /\ UNCHANGED <<open, cnotif, unread, reading>>
      /\ \/ phase' = "arm" /\ req' = kind /\ ltype' = kind
         \/ phase' = "done" /\ req' = req
  BY DEF Request
<1>2. req = "none"
  BY <1>1 DEF SInv, AskInv
<1> QED BY <1>1, <1>2 DEF SInv, StageInv, AskInv

LEMMA StageStep ==
  ASSUME SInv, NextC
  PROVE  StageInv' /\ AskInv'
<1> USE DEF SInv
<1>1. CASE Manager /\ UNCHANGED confVars
  BY <1>1, ManagerStage
<1>2. CASE OpenSession
  <2>1. phase = "closed" /\ Quiescent /\ UNCHANGED <<notif, pc, cnotif, req, unread, reading>>
    BY <1>2 DEF OpenSession, Open, taskVars
  <2>2. CASE open' /\ ses' \in {"EXCH", "DWN"} /\ step' = "medium"
    <3>1. ~open
      BY <2>1 DEF StageInv
    <3>2. /\ dev' = [st |-> "IDLE", err |-> "NONE", radio |-> "off"]
          /\ lock' = TRUE /\ phase' = "ready" /\ timer' = FALSE
      BY <1>2, <2>2, <3>1 DEF OpenSession, Open
    <3>3. dev'.st = "IDLE" /\ dev'.radio = "off"
      BY <3>2
    <3>4. StageInv'
      BY <2>1, <2>2, <3>1, <3>2, <3>3 DEF StageInv, Quiescent
    <3> QED BY <2>1, <2>2, <3>2, <3>4 DEF StageInv, AskInv
  <2>3. CASE ~open' /\ UNCHANGED <<ses, step>>
    <3>1. phase' = "closed"
      BY <1>2, <2>1, <2>3 DEF OpenSession, Open
    <3> QED BY <2>1, <2>3, <3>1 DEF StageInv, AskInv
  <2> QED BY <1>2, <2>2, <2>3 DEF OpenSession
<1>3. CASE CloseSession
  <2>1. /\ req' = "none" /\ open' = FALSE /\ phase' = "closed" /\ unread' = FALSE
        /\ ~reading /\ reading' = reading /\ step' = "none" /\ ses' = "none"
    BY <1>3 DEF CloseSession, Close
  <2> QED BY <2>1 DEF StageInv, AskInv
<1>4. CASE CfgMedium \/ CfgProto
  <2>1. /\ step \in {"medium", "proto"} /\ step' \in {"proto", "run"} /\ ses' = ses
        /\ UNCHANGED vars
    BY <1>4 DEF CfgMedium, CfgProto, Configure
  <2> QED BY <2>1 DEF StageInv, AskInv, vars, taskVars, callerVars, Quiescent
<1>5. CASE Exchange
  <2>1. step = "run" /\ step' = "run" /\ ses' = ses
    BY <1>5 DEF Exchange, confVars
  <2> QED BY <1>5, <2>1, RequestStage DEF Exchange, Send, Listen, Requests, Listens
<1>6. CASE Window
  BY <1>6, RequestStage DEF Window, Listen, Requests, Listens
<1>7. CASE Heard
  <2>1. step \notin {"medium", "proto"}
    BY <1>7, Configuring DEF Heard
  <2>2. /\ cnotif # {} /\ cnotif' = {} /\ phase # "arm" /\ UNCHANGED <<open, ltype, req>>
        /\ phase' = IF phase # "busy" \/ cnotif \cap Ends(ltype) = {} THEN phase
                    ELSE IF cnotif \cap {"TIMEOUT", "ERROR"} # {}   THEN "done" ELSE "ready"
        /\ reading' => phase = "busy" /\ (unread' => unread)
    BY <1>7 DEF Heard, Take
  <2>3. ses' = ses /\ \/ step' = step
                      \/ step' = "again" /\ ses = "DWN" /\ phase = "busy" /\ phase' = "done"
    BY <1>7 DEF Heard
  <2>4. phase = "closed" <=> phase' = "closed"
    BY <2>2
  <2>5. unread' => unread
    BY <1>7 DEF Heard, Take
  <2>6. req' # "none" => phase' = phase
    BY <2>2 DEF AskInv
  <2> QED BY <2>1, <2>2, <2>3, <2>4, <2>5, <2>6 DEF StageInv, AskInv
<1>8. CASE NextWindow
  <2>1. /\ step = "again" /\ phase = "done" /\ step' = "run" /\ phase' = "ready"
        /\ UNCHANGED <<open, req, cnotif, unread, reading, ltype, ses>>
    BY <1>8 DEF NextWindow
  <2> QED BY <2>1 DEF StageInv, AskInv
<1>9. CASE \E l \in Links : Tune(l[1], l[2]) \/ SetUplink(l[1], l[2])
  <2>1. /\ step = "run" /\ phase = "ready" /\ UNCHANGED vars /\ ses' = ses
        /\ step' \in {"run", "failed"} \/ (step' = "tuned" /\ ses = "DWN")
    BY <1>9 DEF Tune, SetUplink
  <2> QED BY <2>1 DEF StageInv, AskInv, vars, taskVars, callerVars
<1>10. CASE (\E f \in Touched, v \in {1, OutOfRange} : SetField(f, v))
            \/ (\E f \in Touched, v \in Values : WriteParam(f, v))
  <2>1. UNCHANGED <<vars, ses, step>>
    BY <1>10 DEF SetField, WriteParam
  <2> QED BY <2>1 DEF StageInv, AskInv, vars, taskVars, callerVars, Quiescent
<1> QED BY <1>1, <1>2, <1>3, <1>4, <1>5, <1>6, <1>7, <1>8, <1>9, <1>10
        DEF NextC, Session, Manager

-----------------------------------------------------------------------------
\* Two configurations that agree are the same.
LEMMA SameConf ==
  ASSUME NEW c \in [Fields -> 0..Junk], NEW a \in [Fields -> 0..Junk],
         \A f \in Fields : c[f] = a[f]
  PROVE  c = a
OBVIOUS

\* What the session hands over is in range or junk.
LEMMA GivenTyped ==
  ASSUME AsAsked
  PROVE  Given \in [Fields -> 0..Junk]
BY DEF AsAsked, Given, Junk

LEMMA SettingTyped ==
  ASSUME AsAsked, NEW f \in Fields, NEW v \in 0..Junk
  PROVE  /\ Set(f, v) \in [Fields -> 0..Junk]
         /\ [asked EXCEPT ![f] = v] \in [Fields -> 0..Junk]
BY DEF AsAsked, Set

LEMMA AsAskedStep ==
  ASSUME SInv, AsAsked, NextC
  PROVE  AsAsked'
<1>1. CASE UNCHANGED <<conf, asked, par>> /\ (step' = step \/ step' \in {"failed", "medium", "none"})
  BY <1>1 DEF AsAsked
<1>2. CASE CfgMedium
  <2>1. step = "medium" /\ step' = "proto" /\ Acquired
    BY <1>2 DEF CfgMedium, Configure, Acquired, Idle, SInv, StageInv
  <2>2. /\ conf' = [f \in Fields |-> IF f \in Medium THEN Given[f] ELSE conf[f]]
        /\ asked' = [f \in Fields |-> IF f \in Medium THEN Given[f] ELSE asked[f]]
        /\ par' = par
    BY <1>2, <2>1 DEF CfgMedium, Configure, Cfg
  <2>3. Medium \subseteq Fields /\ "DevId" \in Fields \ Medium
    BY DEF Fields, Medium
  <2> QED BY <2>1, <2>2, <2>3, GivenTyped DEF AsAsked
<1>3. CASE CfgProto
  <2>1. step = "proto" /\ step' = "run" /\ Acquired
    BY <1>3 DEF CfgProto, Configure, Acquired, Idle, SInv, StageInv
  <2>2. /\ conf' = [f \in Fields |-> IF f \in ProtoConf THEN Given[f] ELSE conf[f]]
        /\ asked' = [f \in Fields |-> IF f \in ProtoConf THEN Given[f] ELSE asked[f]]
        /\ par' = par
    BY <1>3, <2>1 DEF CfgProto, Configure, Cfg
  <2>3. \A f \in Fields : f \in Medium \/ f \in ProtoConf \/ f = "DevId"
    BY DEF Fields
  <2>4. "DevId" \in Fields \ ProtoConf
    BY DEF Fields, ProtoConf
  <2>5. conf' \in [Fields -> 0..Junk] /\ asked' \in [Fields -> 0..Junk]
    BY <2>2, GivenTyped DEF AsAsked
  <2>6. \A f \in Fields : conf'[f] = asked'[f]
    BY <2>1, <2>2, <2>3 DEF AsAsked
  <2>7. conf' = asked'
    BY <2>5, <2>6, SameConf
  <2> QED BY <2>1, <2>2, <2>4, <2>5, <2>7 DEF AsAsked
<1>4. CASE CloseSession
  <2>1. asked' = [f \in Fields |-> 0] /\ step' = "none" /\ conf' = conf /\ par' = par
    BY <1>4 DEF CloseSession, Nothing
  <2>2. "DevId" \in Fields
    BY DEF Fields
  <2> QED BY <2>1, <2>2 DEF AsAsked, Junk
<1>5. ASSUME NEW l \in Links, Tune(l[1], l[2]) \/ SetUplink(l[1], l[2])
      PROVE  AsAsked'
  <2>1. l[1] \in 0..Junk /\ l[2] \in 0..Junk
    BY <1>5 DEF Links, Junk, OutOfRange
  <2>2. PICK ch \in {"RxChannel", "TxChannel"}, mod \in {"RxModulation", "TxModulation"} :
          SetLink(ch, l[1], mod, l[2])
    BY <1>5 DEF Tune, SetUplink
  <2>3. /\ step = "run" /\ par' = par
        /\ step' \in {"run", "tuned", "failed"}
        /\ step' = "failed" <=> ~LinkDone(l[1], l[2])
    BY <1>5 DEF Tune, SetUplink
  <2>4. conf = asked
    BY <2>3 DEF AsAsked
  <2>5. ch \in Fields /\ mod \in Fields /\ ch # "DevId" /\ mod # "DevId" /\ ch # mod
        /\ "DevId" \in Fields
    BY DEF Fields, Medium
  <2>6. CASE ~Acquired
    <3>1. UNCHANGED <<conf, asked>>
      BY <2>2, <2>6 DEF SetLink
    <3> QED BY <2>3, <2>4, <3>1 DEF AsAsked
  <2>7. CASE Acquired /\ LinkDone(l[1], l[2])
    <3>1. Accepts(ch, l[1]) /\ Accepts(mod, l[2])
      BY <2>7 DEF LinkDone, Accepts
    <3>2. /\ conf' = [[conf EXCEPT ![mod] = l[2]] EXCEPT ![ch] = l[1]]
          /\ asked' = [asked EXCEPT ![ch] = l[1], ![mod] = l[2]]
      BY <2>2, <2>7, <3>1 DEF SetLink, Set
    <3>3. conf' \in [Fields -> 0..Junk] /\ asked' \in [Fields -> 0..Junk]
      BY <2>1, <2>5, <3>2 DEF AsAsked
    <3>4. \A f \in Fields : conf'[f] = asked'[f]
      BY <2>4, <2>5, <3>2 DEF AsAsked
    <3>5. conf' = asked'
      BY <3>3, <3>4, SameConf
    <3>6. conf'["DevId"] = 0
      BY <2>5, <3>2 DEF AsAsked
    <3> QED BY <2>3, <3>3, <3>5, <3>6 DEF AsAsked
  <2>8. CASE Acquired /\ ~LinkDone(l[1], l[2])
    <3>1. asked' = asked /\ step' = "failed"
      BY <2>2, <2>3, <2>8 DEF SetLink
    <3>2. conf' = conf \/ conf' = [Set(mod, l[2]) EXCEPT ![ch] = l[1]]
      BY <2>2, <2>8 DEF SetLink
    <3>3. conf' \in [Fields -> 0..Junk] /\ conf'["DevId"] = conf["DevId"]
      BY <2>1, <2>5, <3>2 DEF AsAsked, Set
    <3> QED BY <2>3, <3>1, <3>3 DEF AsAsked
  <2> QED BY <2>6, <2>7, <2>8
<1>6. ASSUME NEW f \in Touched, NEW v \in {1, OutOfRange}, SetField(f, v)
      PROVE  AsAsked'
  <2>1. f \in Fields /\ f # "DevId" /\ "DevId" \in Fields /\ v \in 0..Junk
    BY TouchedAreParameters DEF Parameters, Fields, Medium, ProtoConf, OutOfRange, Junk
  <2>2. step = "run" /\ step' = step /\ par' = par /\ Ioctl(f, v) /\ conf = asked
    BY <1>6 DEF SetField, AsAsked
  <2>3. CASE UNCHANGED <<conf, asked>>
    BY <2>2, <2>3 DEF AsAsked
  <2>4. CASE conf' = [conf EXCEPT ![f] = v] /\ asked' = [asked EXCEPT ![f] = v]
    BY <2>1, <2>2, <2>4 DEF AsAsked
  <2> QED BY <2>2, <2>3, <2>4 DEF Ioctl, Set
<1>7. ASSUME NEW f \in Touched, NEW v \in Values, WriteParam(f, v)
      PROVE  AsAsked'
  <2>1. v \in 0..Junk
    BY DEF Values, Junk
  <2>2. par' = [par EXCEPT ![f] = v]
    BY <1>7 DEF WriteParam
  <2>3. par' \in [Parameters -> 0..Junk]
    BY <2>1, <2>2 DEF AsAsked
  <2> QED BY <1>7, <2>3 DEF WriteParam, AsAsked
<1>8. CASE Window \/ NextWindow
  <2>1. step \in {"tuned", "again"} /\ step' = "run" /\ UNCHANGED <<conf, asked, par>>
    BY <1>8 DEF Window, NextWindow
  <2> QED BY <2>1 DEF AsAsked
<1>9. CASE Heard
  <2>1. UNCHANGED <<conf, asked, par>> /\ step' \in {step, "again"}
    BY <1>9 DEF Heard
  <2>2. step' # step => step \in {"run", "tuned"}
    <3> SUFFICES ASSUME step' # step PROVE step \in {"run", "tuned"}
      OBVIOUS
    <3>1. ses = "DWN" /\ phase = "busy" /\ phase' = "done"
      BY <1>9 DEF Heard
    <3>2. step \in {"none", "medium", "proto", "run", "tuned", "failed", "again"}
      BY DEF SInv, StageInv
    <3> QED BY <3>1, <3>2 DEF SInv, StageInv
  <2> QED BY <2>1, <2>2 DEF AsAsked
<1> QED BY <1>1, <1>2, <1>3, <1>4, <1>5, <1>6, <1>7, <1>8, <1>9
        DEF NextC, Session, OpenSession, Exchange, confVars

-----------------------------------------------------------------------------
\* The events a task's loop collects.
LEMMA BackStep ==
  ASSUME TypeOK, BackInv, NextC
  PROVE  BackInv'
<1> USE DEF BackInv
<1>1. CASE UNCHANGED <<pc, back, det>>
  BY <1>1
<1>2. CASE Wait \/ Switch
  BY <1>2 DEF Wait, Switch
<1>3. CASE FsmTx
  BY <1>3 DEF FsmTx
<1>4. CASE FsmRxDrop \/ FsmRxPass \/ FsmRxFail
  BY <1>4 DEF FsmRxDrop, FsmRxPass, FsmRxFail
<1>5. CASE FsmRxMatch
  BY <1>5 DEF FsmRxMatch
<1>6. CASE FsmNoRx
  BY <1>6 DEF FsmNoRx
<1>7. CASE FsmTimeout \/ Abort \/ Notify \/ Release
  BY <1>7 DEF FsmTimeout, Abort, Notify, Release
<1>8. CASE [Interrupt \/ Caller]_vars \/ NextWindow
  BY <1>8 DEF Interrupt, EvtCb, PhyTxComplete, PhyRxStarted, PhyRxComplete, PhyError,
     PhyEvent, TimeOut, Caller, Open, Close, Send, Listen, Request, Arm, Take,
     ListenReady, NextWindow, vars, taskVars
<1> QED BY <1>1, <1>2, <1>3, <1>4, <1>5, <1>6, <1>7, <1>8, ConfSteps DEF Next, Task, Fsm

-----------------------------------------------------------------------------
(* Receptions and the message held in an exchange, one lemma per action.   *)

\* What the actions rely on while a session is open.
ExchState == TypeOK /\ open /\ BackInv /\ RxInv /\ HoldInv

LEMMA WaitHolds ==
  ASSUME ExchState, Wait
  PROVE  RxInv' /\ HoldInv'
<1> USE DEF ExchState, BackInv
<1>1. pc = "wait" /\ pc' = "switch" /\ word' = notif /\ notif' = {}
  BY DEF Wait
<1>2. UNCHANGED <<dev, back, pend, ltype, phase, reading, cnotif, unread>>
  BY DEF Wait, callerVars
<1>3. (RxWord' <=> RxNotif) /\ ~RxNotif' /\ ~RxWord /\ (RxRadio' <=> RxRadio)
  BY <1>1, <1>2 DEF RxWord, RxNotif, RxRadio, InWord
<1>4. RxInv'
  BY <1>2, <1>3 DEF RxInv, NoRx
<1>5. RearmWord' = RearmNotif /\ ~RearmNotif' /\ ~RearmWord
  BY <1>1 DEF RearmWord, RearmNotif
<1>6. HoldInv'
  BY <1>2, <1>3, <1>5 DEF HoldInv, NoRx, Rearm
<1> QED BY <1>4, <1>6

LEMMA SwitchHolds ==
  ASSUME ExchState, Switch
  PROVE  RxInv' /\ HoldInv'
<1> USE DEF ExchState, BackInv
<1>1. /\ pc = "switch" /\ pc' \in {"abort", "tx"}
      /\ UNCHANGED <<dev, notif, word, back, ltype, phase, reading, cnotif, unread>>
  BY DEF Switch, callerVars
<1>2. RxWord' => RxWord
  BY <1>1 DEF RxWord, InWord
<1>3. RxNotif' = RxNotif /\ RxRadio' = RxRadio
  BY <1>1 DEF RxNotif, RxRadio
<1>4. RxInv'
  BY <1>1, <1>2, <1>3 DEF RxInv, NoRx
<1>5. RearmNotif' = RearmNotif /\ ~RearmWord'
  BY <1>1 DEF RearmNotif, RearmWord
<1>6. pend' = pend \/ RearmWord
  BY <1>1 DEF Switch, RearmWord, TypeOK, FlagsOK
<1>7. HoldInv'
  BY <1>1, <1>2, <1>3, <1>5, <1>6 DEF HoldInv, NoRx, Rearm
<1> QED BY <1>4, <1>7

LEMMA FsmTxHolds ==
  ASSUME ExchState, FsmTx
  PROVE  RxInv' /\ HoldInv'
<1> USE DEF ExchState, BackInv
<1>1. /\ pc = "tx" /\ pc' = "rx" /\ back' \in {back, back \cup {"SEND_DONE"}}
      /\ UNCHANGED <<notif, word, pend, ltype, phase, reading, cnotif, unread>>
  BY DEF FsmTx, callerVars
<1>2. dev'.radio \in {"off", dev.radio}
  BY DeviceOutcomes DEF FsmTx, TypeOK
<1>3. RxWord' = RxWord /\ RxNotif' = RxNotif /\ (RxRadio' => RxRadio)
  BY <1>1, <1>2 DEF RxWord, RxNotif, RxRadio, InWord
<1>4. "RECV_DONE" \in back' <=> "RECV_DONE" \in back
  BY <1>1
<1>5. RxInv'
  BY <1>1, <1>3, <1>4 DEF RxInv, NoRx
<1>6. RearmNotif' = RearmNotif /\ ~RearmWord' /\ ~RearmWord
  BY <1>1 DEF RearmNotif, RearmWord
<1>7. HoldInv'
  BY <1>1, <1>3, <1>4, <1>6 DEF HoldInv, NoRx, Rearm
<1> QED BY <1>5, <1>7

\* A frame is dropped, passed or refused: the radio may start again.
LEMMA RelistenHolds ==
  ASSUME ExchState, InFsmRx, pc' = "tmo",
         dev'.radio \in {"off", "rx", dev.radio}, "RECV_DONE" \notin back',
         UNCHANGED <<notif, word, pend, ltype, phase, reading, cnotif, unread>>,
         (pend /\ ltype = "MANY") \/ ~unread
  PROVE  RxInv' /\ HoldInv'
<1> USE DEF ExchState, BackInv
<1>1. RxWord /\ ~RxWord' /\ pc = "rx" /\ "RECV_DONE" \notin back
  BY DEF InFsmRx, RxWord, InWord
<1>2. ~RxRadio /\ ~RxNotif /\ ~RxNotif'
  BY <1>1 DEF RxInv, RxNotif
<1>3. ltype # "SEND" /\ phase # "ready"
  BY <1>1 DEF RxInv, NoRx
<1>4. RxInv'
  BY <1>1, <1>2, <1>3 DEF RxInv, NoRx
<1>5. RearmNotif' = RearmNotif /\ ~RearmWord' /\ ~RearmWord
  BY <1>1 DEF RearmNotif, RearmWord
<1>6. HoldInv'
  BY <1>1, <1>2, <1>5 DEF HoldInv, NoRx, Rearm
<1> QED BY <1>4, <1>6

\* A reception with no frame to drop finds that no message is held.
LEMMA RecvFindsFree ==
  ASSUME ExchState, WizeNetRecv
  PROVE  ~unread /\ InFsmRx /\ ~Rearm
<1>1. RxWord /\ InFsmRx /\ pc = "rx"
  BY DEF WizeNetRecv, InFsmRx, RxWord, InWord
<1>2. ~unread
  BY <1>1 DEF WizeNetRecv, ExchState, HoldInv, NoRx
<1>3. ~Rearm
  BY <1>1 DEF WizeNetRecv, ExchState, HoldInv, NoRx
<1> QED BY <1>1, <1>2, <1>3

LEMMA FsmRxDropHolds ==
  ASSUME ExchState, FsmRxDrop
  PROVE  RxInv' /\ HoldInv'
<1>1. dev'.radio \in {"off", "rx", dev.radio} /\ "RECV_DONE" \notin back'
  BY RelistenOutcomes DEF FsmRxDrop, InFsmRx, ExchState, TypeOK, BackInv
<1> QED BY <1>1, RelistenHolds DEF FsmRxDrop, callerVars

LEMMA FsmRxPassHolds ==
  ASSUME ExchState, FsmRxPass
  PROVE  RxInv' /\ HoldInv'
<1>1. ~unread /\ InFsmRx
  BY RecvFindsFree DEF FsmRxPass
<1>2. dev'.radio \in {"off", "rx", dev.radio} /\ "RECV_DONE" \notin back'
  BY <1>1, RelistenOutcomes DEF FsmRxPass, InFsmRx, ExchState, TypeOK, BackInv
<1> QED BY <1>1, <1>2, RelistenHolds DEF FsmRxPass, callerVars

LEMMA FsmRxFailHolds ==
  ASSUME ExchState, FsmRxFail
  PROVE  RxInv' /\ HoldInv'
<1>1. ~unread /\ InFsmRx
  BY RecvFindsFree DEF FsmRxFail
<1>2. Cleared(dev) \in Devices /\ Cleared(dev).radio = dev.radio
  BY DevicesTyped, DeviceOutcomes DEF ExchState, TypeOK
<1>3. dev'.radio \in {"off", "rx", dev.radio} /\ "RECV_DONE" \notin back'
  <2>1. CASE dev' = Cleared(dev) /\ back' = {"TIMEOUT"}
    BY <1>2, <2>1
  <2>2. CASE Relisten(Cleared(dev), {})
    BY <1>1, <1>2, <2>2, RelistenOutcomes DEF InFsmRx, ExchState, BackInv
  <2> QED BY <2>1, <2>2 DEF FsmRxFail
<1> QED BY <1>1, <1>3, RelistenHolds DEF FsmRxFail, callerVars

\* The message that was asked for: from now on it is held.
LEMMA FsmRxMatchHolds ==
  ASSUME ExchState, FsmRxMatch
  PROVE  RxInv' /\ HoldInv'
<1>1. ~unread /\ ~Rearm /\ InFsmRx
  BY RecvFindsFree DEF FsmRxMatch
<1>2. /\ pc = "rx" /\ pc' = "tmo" /\ unread' = TRUE
      /\ UNCHANGED <<notif, word, ltype, phase, reading, cnotif>>
  BY <1>1 DEF FsmRxMatch, InFsmRx, callerVars, ExchState
<1>3. RxWord /\ ~RxWord'
  BY <1>1, <1>2 DEF InFsmRx, RxWord, InWord
<1>4. ~RxRadio /\ ~RxNotif /\ ~RxNotif' /\ ltype # "SEND" /\ phase # "ready"
  BY <1>2, <1>3 DEF ExchState, RxInv, RxNotif, NoRx
<1>5. ~reading /\ "RECV_DONE" \notin cnotif
  BY <1>1 DEF ExchState, HoldInv
<1>6. "RECV_DONE" \in back'
  BY RelistenOutcomes DEF FsmRxMatch, ExchState, TypeOK
<1>7. ~Rearm'
  BY <1>1, <1>2 DEF Rearm, RearmNotif, RearmWord
<1>8. ~RxRadio' \/ (pend' /\ ltype = "MANY")
  <2>1. CASE ltype = "MANY"
    <3>1. Relisten(dev, {"RECV_DONE"}) /\ pend' = (pend \/ "ERROR" \notin back')
      BY <2>1 DEF FsmRxMatch
    <3>2. CASE dev' \in Started(dev, "rx") /\ back' = back \cup {"RECV_DONE"}
      BY <1>2, <2>1, <3>1, <3>2 DEF ExchState, BackInv
    <3>3. CASE dev' \in NotStarted(dev, "rx")
      BY <1>4, <3>3, DeviceOutcomes DEF ExchState, TypeOK, RxRadio
    <3> QED BY <3>1, <3>2, <3>3 DEF Relisten
  <2>2. CASE ltype # "MANY"
    BY <1>4, <2>2 DEF FsmRxMatch, RxRadio
  <2> QED BY <2>1, <2>2
<1>9. RxInv'
  BY <1>2, <1>3, <1>4 DEF RxInv, NoRx
<1>10. HoldInv'
  <2>1. unread' => NoRx' \/ (pend' /\ ltype' = "MANY")
    BY <1>2, <1>3, <1>4, <1>8 DEF NoRx
  <2>2. ~reading' /\ "RECV_DONE" \notin cnotif'
    BY <1>2, <1>5
  <2> QED BY <1>2, <1>6, <1>7, <2>1, <2>2 DEF HoldInv, Rearm
<1> QED BY <1>9, <1>10

\* The task's last steps: events are handed on, the radio may be stopped.
LEMMA FsmEndHolds ==
  ASSUME ExchState, FsmNoRx \/ FsmTimeout \/ Abort \/ Release
  PROVE  RxInv' /\ HoldInv'
<1> USE DEF ExchState
<1>1. /\ pc' \in {"tmo", "abort", "notify", "wait"} /\ pc \notin {"switch", "tx"}
      /\ pc = "rx" => "RX_COMPLETE" \notin word
      /\ UNCHANGED <<notif, word, pend, ltype, phase, reading, cnotif, unread>>
  BY DEF FsmNoRx, FsmTimeout, Abort, Release, callerVars
<1>2. dev'.radio \in {"off", dev.radio}
  <2>1. dev \in Devices
    BY DEF TypeOK
  <2>2. CASE dev' = dev
    BY <2>2
  <2>3. CASE dev' = Cleared(dev) \/ dev' \in PhyCmd(dev)
    BY <2>1, <2>3, DeviceOutcomes
  <2> QED BY <2>2, <2>3 DEF FsmNoRx, FsmTimeout, Abort, Release
<1>3. "RECV_DONE" \in back' <=> "RECV_DONE" \in back
  BY DEF FsmNoRx, FsmTimeout, Abort, Release, BackInv, Expandable
<1>4. ~RxWord /\ ~RxWord' /\ (RxNotif' <=> RxNotif) /\ (RxRadio' => RxRadio)
  BY <1>1, <1>2 DEF RxWord, RxNotif, RxRadio, InWord
<1>5. RxInv'
  BY <1>1, <1>3, <1>4 DEF RxInv, NoRx
<1>6. (RearmNotif' <=> RearmNotif) /\ ~RearmWord' /\ ~RearmWord
  BY <1>1 DEF RearmNotif, RearmWord
<1>7. HoldInv'
  BY <1>1, <1>3, <1>4, <1>6 DEF HoldInv, NoRx, Rearm
<1> QED BY <1>5, <1>7

LEMMA NotifyHolds ==
  ASSUME ExchState, Notify
  PROVE  RxInv' /\ HoldInv'
<1> USE DEF ExchState
<1>1. /\ pc = "notify" /\ pc' \in {"release", "wait"}
      /\ cnotif' = cnotif \cup back /\ back' = {}
      /\ UNCHANGED <<dev, notif, pend, ltype, phase, reading, unread>>
  BY DEF Notify, callerVars
<1>2. ~RxWord /\ ~RxWord' /\ (RxNotif' <=> RxNotif) /\ (RxRadio' <=> RxRadio)
  BY <1>1 DEF RxWord, RxNotif, RxRadio, InWord
<1>3. RxInv'
  BY <1>1, <1>2 DEF RxInv, NoRx
<1>4. (RearmNotif' <=> RearmNotif) /\ ~RearmWord' /\ ~RearmWord
  BY <1>1 DEF RearmNotif, RearmWord
<1>5. HoldInv'
  BY <1>1, <1>2, <1>4 DEF HoldInv, NoRx, Rearm
<1> QED BY <1>3, <1>5

\* Of the interrupts only a completed reception moves the token.
LEMMA InterruptHolds ==
  ASSUME ExchState, Interrupt
  PROVE  RxInv' /\ HoldInv'
<1> USE DEF ExchState
<1>1. UNCHANGED <<pc, word, back, pend, ltype, phase, reading, cnotif, unread>>
  BY DEF Interrupt, EvtCb, PhyTxComplete, PhyRxStarted, PhyRxComplete, PhyError,
     PhyEvent, TimeOut, taskVars, callerVars
<1>2. (RxWord' <=> RxWord) /\ (RearmWord' <=> RearmWord)
  BY <1>1 DEF RxWord, InWord, RearmWord
<1>3. RearmNotif' <=> RearmNotif
  BY DEF Interrupt, EvtCb, PhyTxComplete, PhyRxStarted, PhyRxComplete, PhyError,
     PhyEvent, TimeOut, RearmNotif, ErrorEvt
<1>4. \/ RxRadio /\ ~RxRadio' /\ RxNotif'
      \/ (RxRadio' => RxRadio) /\ (RxNotif' <=> RxNotif)
  <2>1. CASE PhyRxComplete
    BY <2>1 DEF PhyRxComplete, PhyEvent, RxRadio, RxNotif, TypeOK, Devices
  <2>2. CASE PhyTxComplete \/ PhyError
    <3>1. dev'.radio = "off"
      BY <2>2 DEF PhyTxComplete, PhyError, TypeOK, Devices
    <3>2. RxNotif' <=> RxNotif
      BY <2>2 DEF PhyTxComplete, PhyError, PhyEvent, RxNotif, ErrorEvt
    <3> QED BY <3>1, <3>2 DEF RxRadio
  <2>3. CASE PhyRxStarted
    BY <2>3 DEF PhyRxStarted, PhyEvent, RxRadio, RxNotif
  <2>4. CASE TimeOut
    BY <2>4 DEF TimeOut, RxRadio, RxNotif
  <2> QED BY <2>1, <2>2, <2>3, <2>4 DEF Interrupt, EvtCb
<1>5. RxInv'
  BY <1>1, <1>2, <1>4 DEF RxInv, NoRx
<1>6. HoldInv'
  BY <1>1, <1>2, <1>3, <1>4 DEF HoldInv, NoRx, Rearm
<1> QED BY <1>5, <1>6

LEMMA ArmHolds ==
  ASSUME ExchState, Arm
  PROVE  RxInv' /\ HoldInv'
<1> USE DEF ExchState
<1>1. /\ phase' # "ready"
      /\ UNCHANGED <<notif, pc, word, back, pend, ltype, reading, cnotif, unread>>
  BY DEF Arm, taskVars
<1>2. dev'.radio \in {"off", dev.radio}
  BY DeviceOutcomes DEF Arm, TryAbort, TypeOK
<1>3. (RxWord' <=> RxWord) /\ (RxNotif' <=> RxNotif) /\ (RxRadio' => RxRadio)
  BY <1>1, <1>2 DEF RxWord, RxNotif, RxRadio, InWord
<1>4. (RearmNotif' <=> RearmNotif) /\ (RearmWord' <=> RearmWord)
  BY <1>1 DEF RearmNotif, RearmWord
<1>5. RxInv'
  BY <1>1, <1>3 DEF RxInv, NoRx
<1>6. HoldInv'
  BY <1>1, <1>3, <1>4 DEF HoldInv, NoRx, Rearm
<1> QED BY <1>5, <1>6

LEMMA ListenReadyHolds ==
  ASSUME ExchState, ListenReady
  PROVE  RxInv' /\ HoldInv'
<1> USE DEF ExchState
<1>1. /\ reading /\ ~reading' /\ ~unread' /\ notif' = notif \cup {"REARM"}
      /\ UNCHANGED <<dev, pc, word, back, pend, ltype, phase, cnotif>>
  BY DEF ListenReady, taskVars
<1>2. (RxWord' <=> RxWord) /\ (RxNotif' <=> RxNotif) /\ (RxRadio' <=> RxRadio)
  BY <1>1 DEF RxWord, RxNotif, RxRadio, InWord
<1>3. (RearmWord' <=> RearmWord) /\ ~Rearm /\ unread
  BY <1>1 DEF HoldInv, RearmWord
<1>4. RxInv'
  BY <1>1, <1>2 DEF RxInv, NoRx
<1>5. HoldInv'
  BY <1>1, <1>2, <1>3 DEF HoldInv, NoRx, Rearm
<1> QED BY <1>4, <1>5

\* A request is made when nothing of the last one is left.
LEMMA RequestHolds ==
  ASSUME ExchState, NEW kind, NEW mode \in {"tx", "rx"}, Request(kind, mode),
         mode = "rx" => kind # "SEND"
  PROVE  RxInv' /\ HoldInv'
<1> USE DEF ExchState
<1>1. /\ phase = "ready" /\ cnotif = {} /\ ~reading /\ phase' # "ready"
      /\ UNCHANGED <<notif, pc, word, back, pend, cnotif, unread, reading>>
  BY DEF Request, taskVars
<1>2. NoRx /\ "RECV_DONE" \notin back /\ ~unread /\ ~Rearm
  BY <1>1 DEF RxInv, HoldInv
<1>3. (RxWord' <=> RxWord) /\ (RxNotif' <=> RxNotif) /\ (Rearm' <=> Rearm)
  BY <1>1 DEF RxWord, RxNotif, InWord, Rearm, RearmNotif, RearmWord
<1>4. RxRadio' => ltype' # "SEND"
  <2>1. CASE dev' \in Started(dev, mode) /\ ltype' = kind
    BY <2>1, DeviceOutcomes DEF TypeOK, RxRadio
  <2>2. CASE dev' \in NotStarted(dev, mode)
    BY <1>2, <2>2, DeviceOutcomes DEF TypeOK, RxRadio, NoRx
  <2>3. CASE dev' = dev
    BY <1>2, <2>3 DEF RxRadio, NoRx
  <2> QED BY <2>1, <2>2, <2>3 DEF Request
<1>5. RxInv'
  BY <1>1, <1>2, <1>3, <1>4 DEF RxInv, NoRx
<1>6. HoldInv'
  BY <1>1, <1>2, <1>3 DEF HoldInv, Rearm
<1> QED BY <1>5, <1>6

\* The caller takes its word: a message in it is held on, or has been given up.
LEMMA TakeHolds ==
  ASSUME ExchState, Take
  PROVE  RxInv' /\ HoldInv'
<1> USE DEF ExchState
<1>1. /\ ~reading /\ cnotif' = {}
      /\ phase' = IF phase # "busy" \/ cnotif \cap Ends(ltype) = {} THEN phase
                  ELSE IF cnotif \cap {"TIMEOUT", "ERROR"} # {}   THEN "done" ELSE "ready"
      /\ UNCHANGED <<dev, notif, pc, word, back, pend, ltype>>
  BY DEF Take, taskVars
<1>2. (RxWord' <=> RxWord) /\ (RxNotif' <=> RxNotif) /\ (RxRadio' <=> RxRadio)
  BY <1>1 DEF RxWord, RxNotif, RxRadio, InWord
<1>3. (RearmNotif' <=> RearmNotif) /\ (RearmWord' <=> RearmWord)
  BY <1>1 DEF RearmNotif, RearmWord
<1>4. PICK kept \in BOOLEAN :
        /\ kept => phase = "busy" /\ ltype = "MANY"
        /\ reading' = ("RECV_DONE" \in cnotif /\ kept)
        /\ unread' = (unread /\ ("RECV_DONE" \notin cnotif \/ kept))
  BY DEF Take
<1>5. ltype = "MANY" /\ phase # "ready" => phase' # "ready"
  BY <1>1 DEF Ends
<1>6. phase' = "ready" => NoRx /\ "RECV_DONE" \notin back
  <2> SUFFICES ASSUME phase' = "ready", phase # "ready"
               PROVE  NoRx /\ "RECV_DONE" \notin back
    BY DEF RxInv
  <2>1. ltype # "MANY" /\ cnotif \cap Ends(ltype) # {} /\ cnotif \cap {"TIMEOUT", "ERROR"} = {}
    BY <1>1, <1>5
  <2>2. CASE ltype = "SEND"
    BY <2>2 DEF RxInv
  <2>3. CASE ltype # "SEND"
    <3>1. "RECV_DONE" \in cnotif
      BY <2>1, <2>3 DEF Ends, TypeOK, Requests, Listens
    <3> QED BY <2>1, <3>1 DEF HoldInv
  <2> QED BY <2>2, <2>3
<1>7. RxInv'
  BY <1>1, <1>2, <1>6 DEF RxInv, NoRx
<1>8. HoldInv'
  BY <1>1, <1>2, <1>3, <1>4, <1>5 DEF HoldInv, NoRx, Rearm, TypeOK, FlagsOK
<1> QED BY <1>7, <1>8

-----------------------------------------------------------------------------
\* While a session holds a message, no frame is received over it.
LEMMA ExchStep ==
  ASSUME CInv, NextC
  PROVE  ExchInv'
<1> SUFFICES ASSUME ses' = "EXCH" PROVE RxInv' /\ HoldInv'
  BY DEF ExchInv
<1> USE DEF CInv, SInv
<1>1. CASE OpenSession
  <2>1. /\ phase = "closed" /\ pc = "wait" /\ notif = {} /\ cnotif = {} /\ open'
        /\ UNCHANGED <<notif, pc, word, back, pend, cnotif, unread, reading, ltype>>
    BY <1>1 DEF OpenSession, Open, Quiescent, StageInv, taskVars
  <2>2. back = {} /\ ~unread /\ ~reading /\ ~open
    BY <2>1 DEF BackInv, StageInv
  <2>3. dev'.radio = "off"
    <3>1. dev' = [st |-> "IDLE", err |-> "NONE", radio |-> "off"]
      BY <1>1, <2>1, <2>2 DEF OpenSession, Open
    <3> QED BY <3>1
  <2>4. ~RxWord' /\ ~RxNotif' /\ ~RxRadio' /\ ~Rearm' /\ ~RearmNotif'
    BY <2>1, <2>3 DEF RxWord, RxNotif, RxRadio, InWord, Rearm, RearmNotif, RearmWord
  <2> QED BY <2>1, <2>2, <2>4 DEF RxInv, HoldInv, NoRx, Rearm
<1>2. CASE ~OpenSession
  <2>1. ses = "EXCH"
    BY <1>2 DEF NextC, Session, CloseSession, CfgMedium, CfgProto, Configure,
       Exchange, Window, NextWindow, Heard, Tune, SetUplink, SetField, WriteParam, confVars
  <2>2. ExchState
    BY <2>1 DEF ExchState, ExchInv, StageInv
  <2>3. CASE Task
    BY <2>2, <2>3, WaitHolds, SwitchHolds, FsmTxHolds, FsmRxDropHolds, FsmRxPassHolds,
       FsmRxFailHolds, FsmRxMatchHolds, FsmEndHolds, NotifyHolds DEF Task, Fsm
  <2>4. CASE Interrupt \/ Arm \/ ListenReady
    BY <2>2, <2>4, InterruptHolds, ArmHolds, ListenReadyHolds
  <2>5. CASE Exchange
    BY <2>2, <2>5, RequestHolds DEF Exchange, Send, Listen
  <2>6. CASE Heard
    BY <2>2, <2>6, TakeHolds DEF Heard
  <2>7. CASE UNCHANGED vars
    BY <2>2, <2>7 DEF ExchState, vars, taskVars, callerVars, RxInv, HoldInv, NoRx,
       RxWord, RxNotif, RxRadio, InWord, Rearm, RearmNotif, RearmWord
  <2>8. ~CloseSession /\ ~Window /\ ~NextWindow
    BY <1>2, <2>1 DEF CloseSession, Window, NextWindow, StageInv
  <2>9. CfgMedium \/ CfgProto \/ (\E l \in Links : Tune(l[1], l[2]) \/ SetUplink(l[1], l[2]))
          \/ (\E f \in Touched, v \in {1, OutOfRange} : SetField(f, v))
          \/ (\E f \in Touched, v \in Values : WriteParam(f, v)) => UNCHANGED vars
    BY DEF CfgMedium, CfgProto, Configure, Tune, SetUplink, SetField, WriteParam
  <2> QED BY <1>2, <2>3, <2>4, <2>5, <2>6, <2>7, <2>8, <2>9 DEF NextC, Session
<1> QED BY <1>1, <1>2

LEMMA ConfInit == InitC => CInv /\ AsAsked
<1> SUFFICES ASSUME InitC PROVE CInv /\ AsAsked
  OBVIOUS
<1>1. TypeOK
  BY TypeInit DEF InitC
<1>2. StageInv /\ AskInv /\ BackInv /\ ExchInv
  BY DEF InitC, Init, StageInv, AskInv, BackInv, ExchInv
<1>3. AsAsked
  BY DEF InitC, Nothing, AsAsked, Fields, Junk
<1> QED BY <1>1, <1>2, <1>3 DEF CInv, SInv

LEMMA ConfStep == CInv /\ AsAsked /\ [NextC]_<<vars, confVars>> => CInv' /\ AsAsked'
<1> SUFFICES ASSUME CInv, AsAsked, [NextC]_<<vars, confVars>> PROVE CInv' /\ AsAsked'
  OBVIOUS
<1>1. CASE NextC
  <2>1. TypeOK'
    BY <1>1, ConfTyped DEF CInv, SInv
  <2> QED BY <1>1, <2>1, StageStep, BackStep, ExchStep, AsAskedStep DEF CInv, SInv
<1>2. CASE UNCHANGED <<vars, confVars>>
  <2>1. TypeOK'
    BY <1>2, ConfTyped DEF CInv, SInv
  <2>2. StageInv' /\ AskInv' /\ BackInv'
    BY <1>2 DEF CInv, SInv, StageInv, AskInv, BackInv, Quiescent, vars, taskVars,
       callerVars, confVars
  <2>3. ExchInv'
    BY <1>2 DEF CInv, ExchInv, RxInv, HoldInv, NoRx, RxWord, RxNotif, RxRadio, InWord,
       Rearm, RearmNotif, RearmWord, vars, taskVars, callerVars, confVars
  <2>4. AsAsked'
    BY <1>2 DEF AsAsked, confVars
  <2> QED BY <2>1, <2>2, <2>3, <2>4 DEF CInv, SInv
<1> QED BY <1>1, <1>2

\* While the radio works for a request it works with the configuration the session
\* in charge relies on (ses_dispatcher.c:684, net_mgr.c:272), whatever the driver,
\* the protocol and the timers report and whichever parameters are written.
THEOREM OnAirAsAskedAlways == SpecC => []OnAirAsAsked
<1>1. CInv /\ AsAsked => OnAirAsAsked
  <2> SUFFICES ASSUME CInv, AsAsked, req # "none" PROVE conf = asked
    BY DEF OnAirAsAsked
  <2>1. phase \in {"arm", "busy"}
    BY DEF CInv, SInv, AskInv
  <2>2. step \in {"run", "tuned", "again"}
    BY <2>1 DEF CInv, SInv, StageInv
  <2> QED BY <2>2 DEF AsAsked
<1> QED BY <1>1, ConfInit, ConfStep, PTL DEF SpecC

\* In an exchange no frame is written into the buffer while the session holds the
\* message in it (net_mgr.c:632), error events of the driver included.
THEOREM NoOverwriteAlways == SpecC => NoOverwrite
<1>1. CInv /\ AsAsked /\ [NextC]_<<vars, confVars>> =>
        [ses = "EXCH" /\ unread => ~(FsmRxMatch \/ FsmRxPass \/ FsmRxFail)]_<<vars, confVars>>
  <2> SUFFICES ASSUME CInv, ses = "EXCH", unread, FsmRxMatch \/ FsmRxPass \/ FsmRxFail
               PROVE  FALSE
    OBVIOUS
  <2>1. ExchState
    BY DEF CInv, SInv, ExchState, ExchInv, StageInv
  <2>2. WizeNetRecv
    BY DEF FsmRxMatch, FsmRxPass, FsmRxFail
  <2> QED BY <2>1, <2>2, RecvFindsFree
<1> QED BY <1>1, ConfInit, ConfStep, PTL DEF SpecC, NoOverwrite
=============================================================================
