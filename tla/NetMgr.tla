------------------------------- MODULE NetMgr -------------------------------
(***************************************************************************)
(* The network manager task of WizeCore (mgr/src/net_mgr.c) on top of the  *)
(* Wize network device (net/src/net_api.c).                                *)
(*                                                                         *)
(* Four actors interleave here: the net_mgr task, whose loop body is cut   *)
(* at every place where an interrupt can change what it reads next; the    *)
(* PHY interrupt; the interrupt of the request's timer; and the one task   *)
(* that owns the manager (the session dispatcher), the "caller".           *)
(* They share the device state, one binary semaphore (hLock) and the two   *)
(* task-notification words, in which events are or-ed together: two events *)
(* that arrive before the task runs are read as one word.                  *)
(*                                                                         *)
(* A definition named Bug... is the next definition with a mistake in it,  *)
(* used to see that a property can fail.  Nothing else refers to it.       *)
(***************************************************************************)
CONSTANTS
  PhyCallFails,    \* a call of the PHY driver may return an error
  ProtoFails,      \* Wize_ProtoBuild may refuse the frame to send
  TimerFails,      \* TimeEvt_TimerInit or TimeEvt_TimerStart may fail
  PhyErrorEvents   \* the PHY driver may raise PHYDEV_EVT_ERROR

ASSUME SwitchesAreBoolean ==
  /\ PhyCallFails \in BOOLEAN
  /\ ProtoFails \in BOOLEAN
  /\ TimerFails \in BOOLEAN
  /\ PhyErrorEvents \in BOOLEAN

VARIABLES
  dev,      \* the network device: eState, eErrType and what the radio is doing
  timer,    \* sTimeOut is armed
  lock,     \* hLock can be taken
  notif,    \* the net_mgr task's notification word
  pc,       \* where the net_mgr task is in its loop
  word,     \* u32Evt, the word the task is working on
  back,     \* u32BackEvt
  bError,
  bAbort,
  pend,     \* bListenPend
  det,      \* u8Detected: "seen" is bit 0x01, "expanded" is bit 0x10
  ltype,    \* eListenType, "SEND" for the 0 that NetMgr_Send writes
  open,     \* hCaller is set; hMutex is taken exactly then
  phase,    \* the caller: what it may do next
  cnotif,   \* the caller's notification word, net_mgr's bits of it
  req,      \* the request accepted and not yet answered, or "none"
  unread,   \* the caller's buffer holds a message that it has not released
  reading,  \* the caller is about to call NetMgr_ListenReady
  sent      \* the radio has transmitted since the last NetMgr_Send

taskVars   == <<pc, word, back, bError, bAbort, pend, det>>
callerVars == <<phase, reading>>
vars == <<dev, timer, lock, notif, taskVars, ltype, open, callerVars, cnotif,
          req, unread, sent>>

-----------------------------------------------------------------------------
(* The values of the enumerations.                                         *)

Listens  == {"ONE", "DETECT", "MANY"}                  \* net_listen_type_e
Requests == Listens \cup {"SEND"}

\* netdev_evt_e.  An error event is no bit of its own: 0x05 is the or of
\* RX_STARTED (0x01) and TX_COMPLETE (0x04).
ErrorEvt == {"RX_STARTED", "TX_COMPLETE"}
NetEvts  == {"RX_STARTED", "RX_COMPLETE", "TX_COMPLETE", "TIMEOUT", "REARM"}

\* net_event_e, without NET_EVENT_SUCCESS, which every word carries and
\* nobody tests.
BackEvts == {"ERROR", "SEND_DONE", "RECV_DONE", "TIMEOUT", "FRM_PASSED"}

Devices == [st    : {"UNKNOWN", "IDLE", "BUSY", "ERROR"},
            err   : {"NONE", "PHY", "PROTO"},
            radio : {"off", "tx", "rx"}]

\* The events that end a request of kind r.
Ends(r) == {"TIMEOUT", "ERROR"}
           \cup CASE r = "SEND"              -> {"SEND_DONE"}
                  [] r \in {"ONE", "DETECT"} -> {"RECV_DONE"}
                  [] OTHER                   -> {}

-----------------------------------------------------------------------------
(* The device.  Each operator gives the set of devices an operation of     *)
(* net_api.c, or a helper of net_mgr.c built on it, may leave behind.      *)

PhyFaulty(d) ==
  IF PhyCallFails
    THEN {[st |-> "ERROR", err |-> "PHY", radio |-> r] : r \in {d.radio, "off"}}
    ELSE {}

\* WizeNet_Ioctl with NETDEV_CTL_PHY_CMD: READY, SLEEP and RESET stop the radio.
PhyCmd(d) == {[st |-> "IDLE", err |-> "NONE", radio |-> "off"]} \cup PhyFaulty(d)

\* _net_mgr_error_: whatever the error was, NETDEV_CTL_CLR_ERR leaves IDLE.
Cleared(d) == [d EXCEPT !.st = "IDLE", !.err = "NONE"]

\* READY, and RESET when READY fails: nothing is left that one of them alone
\* does not leave.
TryAbort(d) == PhyCmd(d)

\* The two retry loops.  A BUSY device refuses every attempt; an ERROR or
\* UNKNOWN one is cleared by the first attempt, so a later one may succeed.
\* A first attempt that succeeds leaves eErrType as it was.
MayFail(mode) == PhyCallFails \/ (ProtoFails /\ mode = "tx")

Started(d, mode) ==
  {[st |-> "BUSY", err |-> e, radio |-> mode] :
     e \in CASE d.st = "BUSY"                     -> {}
             [] d.st = "IDLE" /\ ~MayFail(mode)   -> {d.err}
             [] d.st = "IDLE" /\ MayFail(mode)    -> {d.err, "NONE"}
             [] OTHER                             -> {"NONE"}}

NotStarted(d, mode) ==
  CASE d.st = "BUSY"      -> {d}
    [] d.st # "BUSY" /\ PhyCallFails  -> {Cleared(d)} \cup PhyCmd(d)
    [] d.st # "BUSY" /\ ~PhyCallFails -> IF MayFail(mode) THEN {Cleared(d)} ELSE {}

-----------------------------------------------------------------------------
(* NetMgr_Setup: every object exists, the semaphore is created empty.      *)
Init ==
  /\ dev = [st |-> "UNKNOWN", err |-> "NONE", radio |-> "off"]
  /\ timer = FALSE /\ lock = FALSE /\ notif = {}
  /\ pc = "wait" /\ word = {} /\ back = {} /\ bError = FALSE /\ bAbort = FALSE
  /\ pend = FALSE /\ det = {} /\ ltype = "SEND" /\ open = FALSE
  /\ phase = "closed" /\ cnotif = {} /\ req = "none"
  /\ unread = FALSE /\ reading = FALSE /\ sent = FALSE

-----------------------------------------------------------------------------
(* The net_mgr task, _net_mgr_main_.                                       *)

Wait ==
  /\ pc = "wait" /\ notif # {}
  /\ word' = notif /\ notif' = {}
  /\ pc' = "switch"
  /\ UNCHANGED <<dev, timer, lock, back, bError, bAbort, pend, det, ltype, open,
                 callerVars, cnotif, req, unread, sent>>

Switch ==
  /\ pc = "switch"
  /\ \/ /\ dev.st = "ERROR"
        /\ bError' = TRUE /\ pc' = "abort"
        /\ UNCHANGED pend
     \/ /\ dev.st = "UNKNOWN"
        /\ pc' = "abort"
        /\ UNCHANGED <<pend, bError>>
     \/ /\ dev.st \in {"IDLE", "BUSY"}
        /\ pend' = (pend /\ "REARM" \notin word)
        /\ pc' = "tx"
        /\ UNCHANGED bError
  /\ UNCHANGED <<dev, timer, lock, notif, word, back, bAbort, det, ltype, open,
                 callerVars, cnotif, req, unread, sent>>

\* _net_mgr_fsm_: the transmission is complete, a reception has started.
FsmTx ==
  /\ pc = "tx" /\ pc' = "rx"
  /\ \/ /\ "TX_COMPLETE" \in word
        /\ timer' = FALSE
        /\ dev' \in PhyCmd(dev)
        /\ lock' = TRUE
        /\ back' = back \cup {"SEND_DONE"}
     \/ /\ "TX_COMPLETE" \notin word
        /\ UNCHANGED <<timer, dev, lock, back>>
  /\ det' = IF "RX_STARTED" \in word /\ ltype = "DETECT"
              THEN det \cup {"seen"} ELSE det
  /\ UNCHANGED <<notif, word, bError, bAbort, pend, ltype, open, callerVars,
                 cnotif, req, unread, sent>>

\* The failure to listen again is not reported.
BugRelisten(d, evts) ==
  /\ back' = back \cup evts
  /\ \/ dev' \in Started(d, "rx") /\ UNCHANGED timer
     \/ dev' \in NotStarted(d, "rx") /\ timer' = FALSE

\* Listen again on device d with _net_mgr_listen_with_retry_.  When that fails
\* NET_EVENT_ERROR replaces the events collected so far; evts is or-ed after.
Relisten(d, evts) ==
  \/ /\ dev' \in Started(d, "rx")
     /\ back' = back \cup evts
     /\ UNCHANGED timer
  \/ /\ dev' \in NotStarted(d, "rx")
     /\ timer' = FALSE
     /\ back' = {"ERROR"} \cup evts

InFsmRx == pc = "rx" /\ "RX_COMPLETE" \in word

\* A frame arrives in a MANY window while the caller holds the previous one.
FsmRxDrop ==
  /\ InFsmRx /\ pend /\ ltype = "MANY"
  /\ Relisten(dev, {})
  /\ det' = {} /\ pc' = "tmo"
  /\ UNCHANGED <<lock, notif, word, bError, bAbort, pend, ltype, open,
                 callerVars, cnotif, req, unread, sent>>

\* bListenPend is not looked at.
BugWizeNetRecv == InFsmRx

WizeNetRecv == InFsmRx /\ ~(pend /\ ltype = "MANY")

\* WizeNet_Recv gives a message of the expected type.
FsmRxMatch ==
  /\ WizeNetRecv /\ dev.st = "IDLE"
  /\ \/ /\ ltype = "MANY"
        /\ Relisten(dev, {"RECV_DONE"})
        /\ pend' = (pend \/ "ERROR" \notin back')
        /\ UNCHANGED lock
     \/ /\ ltype # "MANY"
        /\ timer' = FALSE /\ lock' = TRUE
        /\ back' = back \cup {"RECV_DONE"}
        /\ UNCHANGED <<dev, pend>>
  /\ unread' = open
  /\ det' = {} /\ pc' = "tmo"
  /\ UNCHANGED <<notif, word, bError, bAbort, ltype, open, callerVars, cnotif,
                 req, sent>>

\* WizeNet_Recv gives a message of another type.
FsmRxPass ==
  /\ WizeNetRecv /\ dev.st = "IDLE"
  /\ Relisten(dev, {"FRM_PASSED"})
  /\ det' = {} /\ pc' = "tmo"
  /\ UNCHANGED <<lock, notif, word, bError, bAbort, pend, ltype, open,
                 callerVars, cnotif, req, unread, sent>>

\* WizeNet_Recv fails: a PHY error, the protocol refuses the frame, or the
\* device is not IDLE.  _net_mgr_error_ clears the device in every case.
FsmRxFail ==
  /\ WizeNetRecv
  /\ \/ /\ \/ dev.st = "IDLE" /\ PhyCallFails
           \/ dev.st # "IDLE" /\ dev.err = "PHY"
        /\ dev' = Cleared(dev)
        /\ timer' = FALSE
        /\ back' = {"TIMEOUT"}
     \/ /\ dev.st = "IDLE" \/ dev.err # "PHY"
        /\ Relisten(Cleared(dev), {})
  /\ det' = {} /\ pc' = "tmo"
  /\ UNCHANGED <<lock, notif, word, bError, bAbort, pend, ltype, open,
                 callerVars, cnotif, req, unread, sent>>

FsmNoRx ==
  /\ pc = "rx" /\ "RX_COMPLETE" \notin word
  /\ pc' = "tmo"
  /\ UNCHANGED <<dev, timer, lock, notif, word, back, bError, bAbort, pend, det,
                 ltype, open, callerVars, cnotif, req, unread, sent>>

\* The window is expanded although it already has been.
BugExpandable == ltype = "DETECT" /\ det # {}

\* A DETECT window that has seen the start of a frame is given 900 ms more,
\* unless it already has been.
Expandable == ltype = "DETECT" /\ det # {} /\ "expanded" \notin det

FsmTimeout ==
  /\ pc = "tmo" /\ pc' = "abort"
  /\ \/ /\ "TIMEOUT" \notin word
        /\ UNCHANGED <<det, timer, back>>
     \/ /\ "TIMEOUT" \in word /\ ~Expandable
        /\ det' = IF ltype = "DETECT" THEN {} ELSE det
        /\ back' = back \cup {"TIMEOUT"}
        /\ UNCHANGED timer
     \/ /\ "TIMEOUT" \in word /\ Expandable
        /\ det' = {"expanded"}
        /\ \/ timer' = TRUE /\ UNCHANGED back
           \/ TimerFails /\ back' = {"ERROR"} /\ UNCHANGED timer
  /\ bAbort' = ("TIMEOUT" \in back')
  /\ bError' = ("ERROR" \in back')
  /\ UNCHANGED <<dev, lock, notif, word, pend, ltype, open, callerVars, cnotif,
                 req, unread, sent>>

\* Clear the error, stop the radio and put the PHY to sleep.  What the error
\* was does not matter to a device that is then stopped.
Aborting == bAbort \/ (bError /\ dev.err = "PHY")

Abort ==
  /\ pc = "abort" /\ pc' = "notify"
  /\ \/ Aborting /\ dev' \in PhyCmd(dev)
     \/ ~Aborting /\ bError /\ dev' = Cleared(dev)
     \/ ~Aborting /\ ~bError /\ UNCHANGED dev
  /\ bAbort' = Aborting
  /\ UNCHANGED <<timer, lock, notif, word, back, bError, pend, det, ltype, open,
                 callerVars, cnotif, req, unread, sent>>

\* xTaskNotify to the caller, if there is one.  The variables of the loop are
\* not read any more: they are reset here, not at the head of the loop.
Notify ==
  /\ pc = "notify"
  /\ cnotif' = IF open THEN cnotif \cup back ELSE cnotif
  /\ req' = IF open /\ Ends(req) \cap back # {} THEN "none" ELSE req
  /\ pc' = IF bError \/ bAbort THEN "release" ELSE "wait"
  /\ word' = {} /\ back' = {} /\ bError' = FALSE /\ bAbort' = FALSE
  /\ UNCHANGED <<dev, timer, lock, notif, pend, det, ltype, open, callerVars,
                 unread, sent>>

Release ==
  /\ pc = "release" /\ pc' = "wait"
  /\ lock' = TRUE
  /\ UNCHANGED <<dev, timer, notif, word, back, bError, bAbort, pend, det,
                 ltype, open, callerVars, cnotif, req, unread, sent>>

-----------------------------------------------------------------------------
(* The interrupts: _evt_cb on behalf of the PHY, and the timer of the      *)
(* request.  They can preempt any other step.                              *)

RadioOn == dev.radio # "off"

PhyEvent(evts) ==
  /\ notif' = notif \cup evts
  /\ UNCHANGED <<timer, lock, taskVars, ltype, open, callerVars, cnotif, req,
                 unread>>

PhyTxComplete ==
  /\ dev.radio = "tx"
  /\ dev' = [dev EXCEPT !.st = "IDLE", !.radio = "off"]
  /\ sent' = TRUE
  /\ PhyEvent({"TX_COMPLETE"})

PhyRxStarted ==
  /\ dev.radio = "rx"
  /\ PhyEvent({"RX_STARTED"})
  /\ UNCHANGED <<dev, sent>>

PhyRxComplete ==
  /\ dev.radio = "rx"
  /\ dev' = [dev EXCEPT !.st = "IDLE", !.radio = "off"]
  /\ PhyEvent({"RX_COMPLETE"})
  /\ UNCHANGED sent

PhyError ==
  /\ PhyErrorEvents
  /\ dev' = [dev EXCEPT !.st = "ERROR", !.radio = "off"]
  /\ PhyEvent(ErrorEvt)
  /\ UNCHANGED sent

\* _evt_cb: the PHY of a radio that works has an event.
EvtCb ==
  /\ RadioOn
  /\ PhyTxComplete \/ PhyRxStarted \/ PhyRxComplete \/ PhyError

TimeOut ==
  /\ timer
  /\ timer' = FALSE
  /\ notif' = notif \cup {"TIMEOUT"}
  /\ UNCHANGED <<dev, lock, taskVars, ltype, open, callerVars, cnotif, req,
                 unread, sent>>

-----------------------------------------------------------------------------
(* The caller.  Its calls are the code's; the order it makes them in is    *)
(* the one of the sessions: open, a request, its end, then a further       *)
(* request or close; after a refusal, a TIMEOUT or an ERROR only close.  It *)
(* may also close under a request, as SesDisp shows.                       *)

\* A session starts before the words of the last one are read.
BugQuiescent == pc = "wait"

\* A session starts on a call of an application task, whose priority is below
\* that of the tasks here: it runs only when they all wait.
Quiescent == pc = "wait" /\ notif = {} /\ cnotif = {}

Open ==
  /\ phase = "closed" /\ Quiescent
  /\ \/ /\ dev' = [st |-> "IDLE", err |-> "NONE", radio |-> "off"]
        /\ open' = TRUE /\ lock' = TRUE /\ phase' = "ready"
        /\ timer' = FALSE
     \/ /\ PhyCallFails
        /\ dev' = [st |-> "UNKNOWN", err |-> "PHY", radio |-> dev.radio]
        /\ timer' = FALSE
        /\ UNCHANGED <<open, lock, phase>>
     \/ /\ TimerFails
        /\ UNCHANGED <<dev, open, lock, phase, timer>>
  /\ UNCHANGED <<notif, taskVars, ltype, cnotif, req, unread, reading, sent>>

Close ==
  /\ phase \in {"ready", "busy", "done"} /\ ~reading
  /\ timer' = FALSE /\ req' = "none"
  /\ dev' = [dev EXCEPT !.st = "UNKNOWN", !.radio = "off"]
  /\ open' = FALSE /\ phase' = "closed" /\ unread' = FALSE
  /\ UNCHANGED <<lock, notif, taskVars, ltype, cnotif, reading, sent>>

\* What NetMgr_Send (kind "SEND") and NetMgr_Listen do before they arm the
\* timer.  A request that fails keeps the lock.
Request(kind, mode) ==
  /\ phase = "ready" /\ cnotif = {} /\ ~reading
  /\ \/ /\ lock
        /\ lock' = FALSE /\ ltype' = kind
        /\ \/ dev' \in Started(dev, mode)    /\ phase' = "arm" /\ req' = kind
           \/ dev' \in NotStarted(dev, mode) /\ phase' = "done" /\ UNCHANGED req
     \/ /\ ~lock
        /\ phase' = "done"
        /\ UNCHANGED <<lock, ltype, dev, req>>
  /\ UNCHANGED <<timer, notif, taskVars, open, cnotif, unread, reading>>

Send == Request("SEND", "tx") /\ sent' = FALSE

Listen(kind) == Request(kind, "rx") /\ UNCHANGED sent

\* The end of NetMgr_Send and NetMgr_Listen: arm the timer.
Arm ==
  /\ phase = "arm"
  /\ \/ timer' = TRUE /\ phase' = "busy" /\ UNCHANGED <<dev, req>>
     \/ /\ TimerFails
        /\ dev' \in TryAbort(dev)
        /\ phase' = "done"
        /\ req' = "none"
        /\ UNCHANGED timer
  /\ UNCHANGED <<lock, notif, taskVars, ltype, open, cnotif, unread, reading,
                 sent>>

\* The caller reads its notification word.
Take ==
  /\ phase # "arm" /\ ~reading /\ cnotif # {}
  /\ cnotif' = {}
  /\ phase' = IF phase # "busy" \/ cnotif \cap Ends(ltype) = {} THEN phase
              ELSE IF cnotif \cap {"TIMEOUT", "ERROR"} # {}   THEN "done"
              ELSE "ready"
  /\ LET kept == phase = "busy" /\ ltype = "MANY" /\ "TIMEOUT" \notin cnotif IN
     /\ reading' = ("RECV_DONE" \in cnotif /\ kept)
     /\ unread' = (unread /\ ("RECV_DONE" \notin cnotif \/ kept))
  /\ UNCHANGED <<dev, timer, lock, notif, taskVars, ltype, open, req, sent>>

ListenReady ==
  /\ reading /\ open
  /\ notif' = notif \cup {"REARM"}
  /\ reading' = FALSE /\ unread' = FALSE
  /\ UNCHANGED <<dev, timer, lock, taskVars, ltype, open, phase, cnotif, req,
                 sent>>

-----------------------------------------------------------------------------
Fsm == \/ FsmTx \/ FsmRxDrop \/ FsmRxMatch \/ FsmRxPass \/ FsmRxFail \/ FsmNoRx
       \/ FsmTimeout

Task == Wait \/ Switch \/ Fsm \/ Abort \/ Notify \/ Release

Interrupt == EvtCb \/ TimeOut

Caller == \/ Open \/ Close \/ Send \/ Arm \/ Take \/ ListenReady
          \/ \E kind \in Listens : Listen(kind)

Next == Task \/ Interrupt \/ Caller

Spec == Init /\ [][Next]_vars

\* A task that can run does, an armed timer expires, and the caller gets
\* through the calls it has begun.  The radio owes nothing.
Fairness ==
  /\ WF_vars(Task)
  /\ WF_vars(TimeOut)
  /\ WF_vars(Arm)

FairSpec == Spec /\ Fairness

-----------------------------------------------------------------------------
(* Properties.                                                             *)

FlagsOK ==
  /\ timer \in BOOLEAN /\ lock \in BOOLEAN /\ bError \in BOOLEAN
  /\ bAbort \in BOOLEAN /\ pend \in BOOLEAN /\ open \in BOOLEAN
  /\ unread \in BOOLEAN /\ reading \in BOOLEAN /\ sent \in BOOLEAN

TypeOK ==
  /\ FlagsOK
  /\ dev \in Devices
  /\ notif \in SUBSET NetEvts /\ word \in SUBSET NetEvts
  /\ pc \in {"wait", "switch", "tx", "rx", "tmo", "abort", "notify", "release"}
  /\ back \in SUBSET BackEvts /\ cnotif \in SUBSET BackEvts
  /\ det \in SUBSET {"seen", "expanded"}
  /\ ltype \in Requests /\ req \in Requests \cup {"none"}
  /\ phase \in {"closed", "ready", "arm", "busy", "done"}

\* The task has in hand what ends the request: a word with the timer's expiry
\* that it will not throw away, or the answer itself.
Answering ==
  \/ pc = "switch" /\ "TIMEOUT" \in word /\ dev.st \in {"IDLE", "BUSY"}
  \/ pc \in {"tx", "rx", "tmo"} /\ "TIMEOUT" \in word
  \/ pc \in {"rx", "tmo", "abort", "notify"} /\ Ends(req) \cap back # {}

\* A request that NetMgr_Send or NetMgr_Listen accepted is never forgotten:
\* until it is answered its timer is armed, or the expiry waits to be read, or
\* the task has the answer in hand (or the call has yet to arm the timer).
NoLostRequest ==
  req # "none" => \/ phase = "arm" \/ timer
                  \/ "TIMEOUT" \in notif \/ Answering

\* NET_EVENT_SEND_DONE, "Message has been sent" (net_mgr.h:57), is reported
\* only if the radio has transmitted since the last NetMgr_Send.
SendDoneMeansSent == "SEND_DONE" \in back \cup cnotif => sent

\* Every accepted request is answered, unless frames keep starting for ever:
\* then a DETECT window may be expanded again and again.
Answered == \/ []<><<PhyRxStarted>>_vars
            \/ req # "none" ~> req = "none"

-----------------------------------------------------------------------------
(* The inductive invariant behind NoLostRequest and SendDoneMeansSent, for *)
(* drivers that raise no error events.  It follows the token that one      *)
(* start of the radio is: the active radio, then the completion in notif,  *)
(* then in word, then the answer in back.                                  *)

Completions == {"TX_COMPLETE", "RX_COMPLETE"}
Dones       == {"SEND_DONE", "RECV_DONE"}

InWord(e) == /\ e \in word
             /\ pc \in {"switch", "tx"} \/ (pc = "rx" /\ e # "TX_COMPLETE")
InNotif    == notif \cap Completions # {}
InHand     == \E e \in Completions : InWord(e)
InBack     == back \cap Dones # {}

NoToken == ~RadioOn /\ ~InNotif /\ ~InHand /\ ~InBack

LoopInv ==
  /\ pc \in {"wait", "switch", "tx", "release"} => back = {} /\ ~bError /\ ~bAbort
  /\ pc \in {"rx", "tmo"} => ~bError /\ ~bAbort
  /\ pc = "abort" => /\ bAbort <=> "TIMEOUT" \in back
                     /\ bError => "ERROR" \in back \/ back = {}

CallerInv ==
  /\ open <=> phase # "closed"
  /\ open => dev.st # "UNKNOWN"
  /\ req # "none" => phase \in {"arm", "busy"} /\ ltype = req
  /\ req # "none" => cnotif \cap Ends(req) = {}

\* The token is of the kind of the last request.
KindInv ==
  /\ dev.radio = "tx" \/ "TX_COMPLETE" \in notif \/ InWord("TX_COMPLETE")
       => ltype = "SEND"
  /\ dev.radio = "rx" \/ "RX_COMPLETE" \in notif \/ InWord("RX_COMPLETE")
       => ltype # "SEND"

\* The request has ended with its SEND_DONE or RECV_DONE.
EndedWell == /\ phase \in {"arm", "busy"} /\ req = "none"
             /\ cnotif \cap {"TIMEOUT", "ERROR"} = {}

\* There is one token at a time, and none once the request is over.
TokenInv ==
  /\ ltype # "MANY" => /\ RadioOn => ~InNotif /\ ~InHand /\ ~InBack
                       /\ InNotif => ~InHand /\ ~InBack
                       /\ InHand => ~InBack
  /\ phase = "ready" => NoToken
  /\ (EndedWell /\ ltype # "MANY") => NoToken

\* The device is in error under a pending request only when the task is about
\* to answer it.  An IDLE device may keep the error type of a call that failed,
\* but not for a request to come.
ErrorInv ==
  /\ (req # "none" /\ (dev.st = "ERROR" \/ dev.err # "NONE")) =>
       pc \in {"rx", "tmo", "abort", "notify"} /\ Ends(req) \cap back # {}
  /\ (req # "none" /\ dev.st # "ERROR" /\ dev.err # "NONE") =>
       back \cap {"TIMEOUT", "ERROR"} # {}
  /\ (phase = "ready" \/ (EndedWell /\ ltype # "MANY")) /\ dev.st # "ERROR" =>
       dev.err = "NONE"

SentInv ==
  "TX_COMPLETE" \in notif \/ InWord("TX_COMPLETE")
    \/ "SEND_DONE" \in back \/ "SEND_DONE" \in cnotif => sent

IInv == /\ TypeOK /\ LoopInv /\ CallerInv /\ KindInv /\ TokenInv /\ ErrorInv
        /\ SentInv /\ NoLostRequest

-----------------------------------------------------------------------------
(* What the sessions build on.                                             *)

\* A SEND_DONE may still come: the radio transmits, or its completion is on the
\* way through notif, word and back.
Owed == \/ dev.radio = "tx"
        \/ "TX_COMPLETE" \in notif
        \/ pc \in {"switch", "tx"} /\ "TX_COMPLETE" \in word
        \/ pc \in {"rx", "tmo", "abort", "notify"} /\ "SEND_DONE" \in back
Service == INSTANCE NetService WITH last <- ltype, owed <- Owed

\* The network manager gives the sessions what NetService promises
\* (net_mgr.h:52): one request at a time, answered by a word that ends it;
\* SEND_DONE once for a frame handed over, and RECV_DONE only after a listen.
ServiceSpec == Service!Spec
=============================================================================
