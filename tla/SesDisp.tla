------------------------------ MODULE SesDisp ------------------------------
(***************************************************************************)
(* The session dispatcher task (app/src/ses_dispatcher.c), the ADM and     *)
(* INST sessions it drives (mgr/src/adm_mgr.c, inst_mgr.c), the treatment  *)
(* of commands (app/src/adm_internal.c) and the calls of the application   *)
(* tasks (app/src/wize_api.c), on top of the service the network manager   *)
(* gives (NetService).                                                     *)
(*                                                                         *)
(* The dispatcher reads its notification word and treats it in a fixed     *)
(* order: calls, events of the network, delays.  Each session may run on   *)
(* the same word more than once.  The word arrives in two parts here: the  *)
(* network manager's bits (cnotif) and the others (wake).                  *)
(*                                                                         *)
(* A definition named Bug... is the next definition with a mistake in it,  *)
(* used to see that a property can fail.  Nothing else refers to it.       *)
(***************************************************************************)
EXTENDS Naturals

CONSTANTS
  NetRefuses,   \* NetMgr_Open, NetMgr_Send and NetMgr_Listen may fail
  Coalesced,    \* a DONE and the TIMEOUT of its request may be read together
  TimerFails,   \* TimeEvt_TimerStart may fail
  Concurrent,   \* two application tasks, of any priority, may call
  MaxCmd        \* bound: the commands the head-end may issue

ASSUME ConstantsTyped ==
  /\ {NetRefuses, Coalesced, TimerFails, Concurrent} \subseteq BOOLEAN
  /\ MaxCmd \in Nat

VARIABLES
  open, req, last, owed, cnotif,     \* the network manager, see NetService
  wake,      \* the calls' and the delays' bits of the notification word
  pc,        \* where the dispatcher is
  word,      \* u32Event, the word being treated
  flags,     \* ulFlg, what the session's fsm has returned
  active,    \* eActiveId (pActive is NULL exactly when it is "NONE")
  sst,       \* eState of each session
  delay,     \* sTimeEvt of each session is armed
  bypass,    \* u8ByPassCmd of the ADM session
  pending,   \* u8Pending of the ADM session: ADM_RSP_PEND, ADM_RSP_READY
  bPend,     \* bPendAction: SES_ADM_CMD_PEND, SES_ADM_RSP_PEND
  cmd,       \* sCmdMsg: id and kind of the last command received
  rspId,     \* u16Id of sRspMsg
  executed,  \* how often each command has been executed
  bits,      \* the event group
  call,      \* the call each application task is in
  got,       \* the bits with which its wait has ended
  failed     \* the session has returned ERROR since it was opened

netVars  == <<open, req, last, owed, cnotif>>
sesVars  == <<flags, sst, delay, bypass, pending, failed>>
cmdVars  == <<bPend, cmd, rspId, executed>>
appVars  == <<bits, call, got>>
vars == <<netVars, wake, pc, word, active, sesVars, cmdVars, appVars>>

Sessions == {"INST", "ADM"}          \* SES_DWN is never opened by a call
States   == {"IDLE", "SENDING", "LISTENING", "WAITING_RX_DELAY", "WAITING_TX_DELAY"}
Flags    == {"ERROR", "SUCCESS", "COMPLETE", "TIMEOUT", "OUT_DATE", "CMD_RECV",
             "DATA_SENT", "RSP_SENT", "PING_SENT", "PONG_RECV"}
Apps     == {"ping", "data"}
Calls(a) == IF a = "ping" THEN {"ExecPing"} ELSE {"Send", "SendEx"}

\* The sessions test no other event of the network manager.  NET_EVENT_ERROR,
\* with which a request ends and nothing happens, is left out.
BackEvts == {"SEND_DONE", "RECV_DONE", "TIMEOUT"}
Requests == {"SEND", "ONE", "DETECT", "MANY"}
Ends(r)  == {"TIMEOUT"}
            \cup (CASE r = "SEND"              -> {"SEND_DONE"}
                    [] r \in {"ONE", "DETECT"} -> {"RECV_DONE"}
                    [] r \in {"MANY", "none"}  -> {})
Net == INSTANCE NetService

Delay(s) == IF s = "ADM" THEN "ADM_DELAY" ELSE "INST_DELAY"
WakeEvts == {"OPEN", "FOR_ADM", "ADM_DELAY", "INST_DELAY"}

\* READ_PARAM, WRITE_KEY, ANNDOWNLOAD and unknown commands take the path of
\* WRITE_PARAM; their numbers grow, a repeated command keeps its number.
Kinds == {"WRITE_PARAM", "EXECPING"}
NoCmd == [id |-> 0, kind |-> "none"]

-----------------------------------------------------------------------------
Init ==
  /\ Net!Init
  /\ wake = {} /\ pc = "wait" /\ word = {} /\ flags = {}
  /\ active = "NONE"
  /\ sst = [s \in Sessions |-> "IDLE"] /\ delay = [s \in Sessions |-> FALSE]
  /\ bypass = FALSE /\ pending = {} /\ bPend = {}
  /\ cmd = NoCmd /\ rspId = 0 /\ executed = [i \in 1..MaxCmd |-> 0]
  /\ bits = {} /\ call = [a \in Apps |-> "none"] /\ got = [a \in Apps |-> {}]
  /\ failed = FALSE

-----------------------------------------------------------------------------
(* The event group.  A result is the or of a value (SES_MGR_FLG_SUCCESS 1, *)
(* FAILED 2, REQUEST 3) and of the session's number in bit 16 (INST 0,     *)
(* ADM 1); a task waits for any bit of its mask and clears the mask.       *)

Result(s, value) ==
  (CASE value = "SUCCESS" -> {0}
     [] value = "FAILED"  -> {1}
     [] value = "REQUEST" -> {0, 1}) \cup (IF s = "ADM" THEN {16} ELSE {})

\* The mask of the ADM calls leaves out the session's number.
BugMask(a) == {0, 1}

Mask(a) == IF a = "ping" THEN {0, 1} ELSE {0, 1, 16}

\* xEventGroupSetBits: every task that waits for one of the bits is released.
SetBits(result) ==
  LET all   == bits \cup result
      woken == {a \in Apps : call[a] # "none" /\ Mask(a) \cap all # {} /\ got[a] = {}}
  IN  /\ got'  = [a \in Apps |-> IF a \in woken THEN all ELSE got[a]]
      /\ bits' = all \ UNION {Mask(a) : a \in woken}
      /\ UNCHANGED call

-----------------------------------------------------------------------------
(* The sessions.  Fsm is a step of the function fsm of the active session  *)
(* on the events evts; it returns flags'.                                  *)

\* COMPLETE is not returned.
BugGoto(s, st, fl) == sst' = [sst EXCEPT ![s] = st] /\ flags' = fl

Goto(s, st, fl) ==
  /\ sst' = [sst EXCEPT ![s] = st]
  /\ flags' = fl \cup (IF st = "IDLE" /\ sst[s] # "IDLE" THEN {"COMPLETE"} ELSE {})

\* NetMgr_Send or NetMgr_Listen: accepted, then the session is in state st, or
\* refused, then it is back in IDLE.
TryRequest(s, kind, st) ==
  \/ Net!Accept(kind) /\ Goto(s, st, {})
  \/ /\ NetRefuses \/ ~open \/ req # "none"
     /\ Net!Refuse(kind)
     /\ Goto(s, "IDLE", {"ERROR"})

\* TimeEvt_TimerStart, and the state and the flags that follow.
TryDelay(s, st, fl, failSt, failFl) ==
  \/ delay' = [delay EXCEPT ![s] = TRUE] /\ Goto(s, st, fl)
  \/ TimerFails /\ UNCHANGED delay /\ Goto(s, failSt, failFl)

\* A session gives up on any TIMEOUT.
BugStay(s) == /\ Goto(s, IF "TIMEOUT" \in word THEN "IDLE" ELSE sst[s], {})
              /\ UNCHANGED <<netVars, delay>>

Stay(s) == Goto(s, sst[s], {}) /\ UNCHANGED <<netVars, delay>>

\* The TIMEOUT of a request, tested after its DONE on the same word.
OrTimeout(evts, st) == IF "TIMEOUT" \in evts THEN "IDLE" ELSE st
TimeoutFlag(evts) == {"TIMEOUT"} \cap evts

AdmIdle(evts) ==
  /\ sst["ADM"] = "IDLE"
  /\ \/ /\ "OPEN" \in evts
        /\ bypass' = FALSE /\ pending' = {}
        /\ TryRequest("ADM", "SEND", "SENDING")
        /\ UNCHANGED delay
     \/ "OPEN" \notin evts /\ Stay("ADM") /\ UNCHANGED <<bypass, pending>>

AdmWaitingRxDelay(evts) ==
  /\ sst["ADM"] = "WAITING_RX_DELAY"
  /\ \/ /\ "ADM_DELAY" \in evts /\ ~bypass
        /\ TryRequest("ADM", "DETECT", "LISTENING")
     \/ /\ "ADM_DELAY" \in evts /\ bypass
        /\ Goto("ADM", "IDLE", {"SUCCESS"}) /\ UNCHANGED netVars
     \/ /\ "ADM_DELAY" \notin evts
        /\ Goto("ADM", "WAITING_RX_DELAY", {}) /\ UNCHANGED netVars
  /\ UNCHANGED <<delay, bypass, pending>>

AdmListening(evts) ==
  /\ sst["ADM"] = "LISTENING"
  /\ \/ /\ "RECV_DONE" \in evts
        /\ pending' = {"PEND"}
        /\ TryDelay("ADM", OrTimeout(evts, "WAITING_TX_DELAY"),
                    {"CMD_RECV"} \cup TimeoutFlag(evts), "IDLE", {"ERROR"})
     \/ /\ "RECV_DONE" \notin evts
        /\ Goto("ADM", OrTimeout(evts, "LISTENING"), TimeoutFlag(evts))
        /\ UNCHANGED <<delay, pending>>
  /\ UNCHANGED <<netVars, bypass>>

AdmWaitingTxDelay(evts) ==
  /\ sst["ADM"] = "WAITING_TX_DELAY"
  /\ \/ /\ "ADM_DELAY" \in evts /\ "READY" \in pending
        /\ TryRequest("ADM", "SEND", "SENDING")
     \/ /\ "ADM_DELAY" \in evts /\ "READY" \notin pending
        /\ Goto("ADM", "IDLE", {"OUT_DATE"}) /\ UNCHANGED netVars
     \/ /\ "ADM_DELAY" \notin evts
        /\ Goto("ADM", "WAITING_TX_DELAY", {}) /\ UNCHANGED netVars
  /\ UNCHANGED <<delay, bypass, pending>>

AdmSending(evts) ==
  /\ sst["ADM"] = "SENDING"
  /\ \/ /\ "SEND_DONE" \in evts /\ "PEND" \in pending
        /\ pending' = {}
        /\ Goto("ADM", "IDLE", {"RSP_SENT"} \cup TimeoutFlag(evts))
        /\ UNCHANGED delay
     \/ /\ "SEND_DONE" \in evts /\ "PEND" \notin pending /\ ~bypass
        /\ TryDelay("ADM", OrTimeout(evts, "WAITING_RX_DELAY"),
                    {"DATA_SENT"} \cup TimeoutFlag(evts),
                    "IDLE", {"ERROR", "DATA_SENT"} \cup TimeoutFlag(evts))
        /\ UNCHANGED pending
     \/ /\ "SEND_DONE" \in evts /\ "PEND" \notin pending /\ bypass
        /\ Goto("ADM", "IDLE", {"DATA_SENT"} \cup TimeoutFlag(evts))
        /\ UNCHANGED <<delay, pending>>
     \/ /\ "SEND_DONE" \notin evts
        /\ Goto("ADM", OrTimeout(evts, "SENDING"), TimeoutFlag(evts))
        /\ UNCHANGED <<delay, pending>>
  /\ UNCHANGED <<netVars, bypass>>

AdmFsm(evts) == \/ AdmIdle(evts) \/ AdmWaitingRxDelay(evts) \/ AdmListening(evts)
                \/ AdmWaitingTxDelay(evts) \/ AdmSending(evts)

InstIdle(evts) ==
  /\ sst["INST"] = "IDLE"
  /\ \/ "OPEN" \in evts /\ TryRequest("INST", "SEND", "SENDING") /\ UNCHANGED delay
     \/ "OPEN" \notin evts /\ Stay("INST")

InstSending(evts) ==
  /\ sst["INST"] = "SENDING"
  /\ \/ /\ "SEND_DONE" \in evts
        /\ TryDelay("INST", OrTimeout(evts, "WAITING_RX_DELAY"),
                    {"PING_SENT"} \cup TimeoutFlag(evts),
                    "IDLE", {"ERROR"} \cup TimeoutFlag(evts))
     \/ /\ "SEND_DONE" \notin evts
        /\ Goto("INST", OrTimeout(evts, "SENDING"), TimeoutFlag(evts))
        /\ UNCHANGED delay
  /\ UNCHANGED netVars

InstWaitingRxDelay(evts) ==
  /\ sst["INST"] = "WAITING_RX_DELAY"
  /\ \/ /\ "INST_DELAY" \in evts
        /\ TryRequest("INST", "MANY", "LISTENING")
        /\ UNCHANGED delay
     \/ "INST_DELAY" \notin evts /\ Stay("INST")

InstListening(evts) ==
  /\ sst["INST"] = "LISTENING"
  /\ Goto("INST", OrTimeout(evts, "LISTENING"),
          TimeoutFlag(evts) \cup (IF "RECV_DONE" \in evts THEN {"PONG_RECV"} ELSE {}))
  /\ UNCHANGED <<netVars, delay>>

InstFsm(evts) == /\ \/ InstIdle(evts) \/ InstSending(evts)
                    \/ InstWaitingRxDelay(evts) \/ InstListening(evts)
                 /\ UNCHANGED <<bypass, pending>>

Fsm(s, evts) ==
  /\ \/ s = "ADM" /\ AdmFsm(evts)
     \/ s = "INST" /\ InstFsm(evts)
  /\ failed' = (failed \/ "ERROR" \in flags')

-----------------------------------------------------------------------------
(* Commands, AdmInt_PreCmd and _ses_disp_postCmd_.  A command is prepared  *)
(* when it is received and executed when its response has been sent; one   *)
(* whose number is that of the last response is only answered again.       *)

\* The number of the command is not noted in the response.
BugPreCmd ==
  /\ bPend' = bPend \cup {"CMD"} /\ pending' = pending \cup {"READY"}
  /\ UNCHANGED rspId

PreCmd ==
  \/ /\ cmd.id # rspId
     /\ rspId' = cmd.id
     /\ \/ /\ cmd.kind = "EXECPING"
           /\ bPend' = bPend \cup {"RSP"} /\ UNCHANGED pending
        \/ /\ cmd.kind # "EXECPING"
           /\ bPend' = bPend \cup {"CMD"} /\ pending' = pending \cup {"READY"}
  \/ /\ cmd.id = rspId
     /\ bPend' = {} /\ pending' = pending \cup {"READY"}
     /\ UNCHANGED rspId

\* A count above 2 is not told from 2.
PostCmd ==
  /\ bPend' = bPend \ {"CMD"}
  /\ executed' = IF "CMD" \in bPend /\ executed[cmd.id] < 2
                   THEN [executed EXCEPT ![cmd.id] = @ + 1] ELSE executed

\* The end of an INST session tests bPendAction with a constant of the ADM
\* session, ADM_RSP_PEND, whose value is that of SES_ADM_CMD_PEND.
InstEnd ==
  /\ bPend' = bPend \ {"CMD"}
  /\ rspId' = IF "CMD" \in bPend THEN cmd.id ELSE rspId

-----------------------------------------------------------------------------
(* The dispatcher, _ses_disp_fsm_, one step for each session run and for   *)
(* what is done with the flags it returns.                                 *)

Wait ==
  /\ pc = "wait" /\ wake \cup cnotif # {}
  /\ word' = wake \cup cnotif /\ wake' = {}
  /\ Net!Take
  /\ pc' = "api"
  /\ UNCHANGED <<active, sesVars, cmdVars, appVars>>

\* The session that the OPEN in the word is for: bit 24 is the ADM session's.
Opened == IF "FOR_ADM" \in word THEN "ADM" ELSE "INST"

NoCall ==
  /\ pc = "api" /\ "OPEN" \notin word
  /\ pc' = "net"
  /\ UNCHANGED <<netVars, wake, word, active, sesVars, cmdVars, appVars>>

Rejected ==
  /\ pc = "api" /\ "OPEN" \in word /\ active # "NONE"
  /\ SetBits(Result(Opened, "FAILED"))
  /\ pc' = "net"
  /\ UNCHANGED <<netVars, wake, word, active, sesVars, cmdVars>>

\* The result of NetMgr_Open is not looked at.  Whether the parameter
\* EXCH_RX_LENGTH wants a reception window is not known here.
Begin ==
  /\ pc = "api" /\ "OPEN" \in word /\ active = "NONE"
  /\ active' = Opened
  /\ \/ Net!Open
     \/ (NetRefuses \/ open) /\ UNCHANGED netVars
  /\ bypass' \in IF Opened = "ADM" THEN BOOLEAN ELSE {bypass}
  /\ failed' = FALSE
  /\ pc' = "open"
  /\ UNCHANGED <<wake, word, flags, sst, delay, pending, cmdVars, appVars>>

RunOpen ==
  /\ pc = "open"
  /\ Fsm(active, {"OPEN"})
  /\ pc' = "openback"
  /\ UNCHANGED <<wake, word, active, cmdVars, appVars>>

\* The command in the buffer: a new one of the head-end's, or one repeated.
Received ==
  \/ cmd.id > 0 /\ UNCHANGED cmd
  \/ cmd.id < MaxCmd /\ cmd' \in [id : {cmd.id + 1}, kind : Kinds]

RunNet ==
  /\ pc = "net" /\ word \cap BackEvts # {} /\ active # "NONE"
  /\ Fsm(active, word)
  /\ IF active = "ADM" /\ sst["ADM"] = "LISTENING" /\ "RECV_DONE" \in word
       THEN Received ELSE UNCHANGED cmd
  /\ pc' = "post"
  /\ UNCHANGED <<wake, word, active, bPend, rspId, executed, appVars>>

NoNet ==
  /\ pc = "net" /\ (word \cap BackEvts = {} \/ active = "NONE")
  /\ pc' = "delay"
  /\ UNCHANGED <<netVars, wake, word, active, sesVars, cmdVars, appVars>>

Post ==
  /\ pc = "post"
  /\ \/ "CMD_RECV" \in flags /\ PreCmd /\ UNCHANGED executed
     \/ "RSP_SENT" \in flags /\ PostCmd /\ UNCHANGED <<rspId, pending>>
     \/ /\ "COMPLETE" \in flags /\ active = "INST"
        /\ InstEnd /\ UNCHANGED <<executed, pending>>
     \/ /\ flags \cap {"CMD_RECV", "RSP_SENT"} = {}
        /\ "COMPLETE" \notin flags \/ active # "INST"
        /\ UNCHANGED <<bPend, rspId, executed, pending>>
  /\ pc' = "netback"
  /\ UNCHANGED <<netVars, wake, word, active, flags, sst, delay, bypass,
                 failed, cmd, appVars>>

\* A delay makes its session the active one, whichever that was.
DelayOf == CHOOSE s \in Sessions :
             /\ Delay(s) \in word
             /\ s = "ADM" \/ Delay("ADM") \notin word

RunDelay ==
  /\ pc = "delay" /\ active # "NONE"
  /\ \E s \in Sessions : Delay(s) \in word
  /\ active' = DelayOf
  /\ Fsm(DelayOf, word)
  /\ pc' = "delayback"
  /\ UNCHANGED <<wake, word, cmdVars, appVars>>

NoDelay ==
  /\ pc = "delay" /\ (active = "NONE" \/ \A s \in Sessions : Delay(s) \notin word)
  /\ pc' = "wait" /\ word' = {} /\ flags' = {}
  /\ UNCHANGED <<netVars, wake, active, sst, delay, bypass, pending, failed,
                 cmdVars, appVars>>

\* The error is not looked at.
BugValue(fl) == IF "CMD_RECV" \in fl THEN "REQUEST" ELSE "SUCCESS"

\* _ses_disp_bckflg_: only a session that has left its last state is closed.
Value(fl) == CASE "ERROR" \in fl                           -> "FAILED"
               [] "ERROR" \notin fl /\ "CMD_RECV" \in fl    -> "REQUEST"
               [] fl \cap {"ERROR", "CMD_RECV"} = {}        -> "SUCCESS"

BckFlg ==
  \/ /\ "COMPLETE" \in flags
     /\ active' = "NONE"
     /\ IF open THEN Net!Close ELSE UNCHANGED netVars
     /\ SetBits(Result(active, Value(flags)))
  \/ /\ "COMPLETE" \notin flags
     /\ UNCHANGED <<netVars, active, appVars>>

Back ==
  /\ pc \in {"openback", "netback", "delayback"}
  /\ BckFlg
  /\ flags' = {}
  /\ \/ pc = "openback"  /\ pc' = "net"   /\ UNCHANGED word
     \/ pc = "netback"   /\ pc' = "delay" /\ UNCHANGED word
     \/ pc = "delayback" /\ pc' = "wait"  /\ word' = {}
  /\ UNCHANGED <<wake, sst, delay, bypass, pending, failed, cmdVars>>

-----------------------------------------------------------------------------
(* The environment: the network manager's answers, which are taken to come *)
(* between two words of the dispatcher, and the delays.                    *)

Deliver(evts) ==
  /\ pc = "wait" /\ open /\ evts # {}
  /\ Coalesced \/ ~({"SEND_DONE", "RECV_DONE"} \cap (cnotif \cup evts) # {}
                    /\ "TIMEOUT" \in cnotif \cup evts)
  /\ Net!Deliver(evts)
  /\ UNCHANGED <<wake, pc, word, active, sesVars, cmdVars, appVars>>

Lose ==
  /\ pc = "wait" /\ Net!Lose
  /\ UNCHANGED <<wake, pc, word, active, sesVars, cmdVars, appVars>>

DelayExpire(s) ==
  /\ delay[s]
  /\ delay' = [delay EXCEPT ![s] = FALSE]
  /\ wake' = wake \cup {Delay(s)}
  /\ UNCHANGED <<netVars, pc, word, active, flags, sst, bypass, pending,
                 failed, cmdVars, appVars>>

-----------------------------------------------------------------------------
(* The calls of the application, each task's behind its session's mutex.   *)

\* A serial application runs below the priority of the tasks here, and one
\* call at a time.
MayCall == Concurrent \/ /\ pc = "wait" /\ wake = {} /\ cnotif = {}
                         /\ \A a \in Apps : call[a] = "none"

\* xTaskNotify overwrites the dispatcher's word; xEventGroupWaitBits returns
\* at once if bits of the mask are left from before.
Call(a, kind) ==
  /\ call[a] = "none" /\ MayCall
  /\ call' = [call EXCEPT ![a] = kind]
  /\ wake' = (IF a = "ping" THEN {"OPEN"} ELSE {"OPEN", "FOR_ADM"}) /\ Net!Take
  /\ IF bits \cap Mask(a) = {}
       THEN UNCHANGED <<bits, got>>
       ELSE bits' = bits \ Mask(a) /\ got' = [got EXCEPT ![a] = bits]
  /\ UNCHANGED <<pc, word, active, sesVars, cmdVars>>

Outcome(kind, g) ==
  CASE kind = "ExecPing" -> IF g = {1} THEN "FAILED" ELSE "SUCCESS"
    [] kind = "SendEx"   -> IF g = {0, 1, 16}
                              THEN IF cmd.kind = "WRITE_PARAM" THEN "ADM_SUCCESS"
                                   ELSE "SUCCESS"
                              ELSE IF g = {0, 16} THEN "SUCCESS" ELSE "FAILED"
    [] kind = "Send"     -> IF g \cap {0, 1} # {}
                              THEN IF cmd.kind = "WRITE_PARAM" THEN "ADM_SUCCESS"
                                   ELSE "SUCCESS"
                              ELSE IF 0 \in g THEN "SUCCESS" ELSE "FAILED"

Return(a) ==
  /\ got[a] # {}
  /\ call' = [call EXCEPT ![a] = "none"] /\ got' = [got EXCEPT ![a] = {}]
  /\ UNCHANGED <<netVars, wake, pc, word, active, sesVars, cmdVars, bits>>

-----------------------------------------------------------------------------
Dispatcher == \/ Wait \/ NoCall \/ Rejected \/ Begin \/ RunOpen \/ RunNet
              \/ NoNet \/ Post \/ RunDelay \/ NoDelay \/ Back

Next == \/ Dispatcher \/ Lose
        \/ \E evts \in SUBSET BackEvts : Deliver(evts)
        \/ \E s \in Sessions : DelayExpire(s)
        \/ \E a \in Apps : Return(a) \/ \E kind \in Calls(a) : Call(a, kind)

Spec == Init /\ [][Next]_vars

\* The network manager answers a request, as NetMgr does (Answered).  Its timer
\* runs whatever the dispatcher does: the fairness is strong because answers
\* are only let in between two words.
Answer == \E evts \in SUBSET BackEvts :
            req # "none" /\ evts \cap Ends(req) # {} /\ Deliver(evts)

Fairness == /\ WF_vars(Dispatcher) /\ SF_vars(Answer)
            /\ \A s \in Sessions : WF_vars(DelayExpire(s))
            /\ \A a \in Apps : WF_vars(Return(a))

FairSpec == Spec /\ Fairness

-----------------------------------------------------------------------------
(* Properties.                                                             *)

TypeOK ==
  /\ open \in BOOLEAN /\ owed \in BOOLEAN /\ bypass \in BOOLEAN
  /\ req \in Requests \cup {"none"} /\ last \in Requests
  /\ cnotif \in SUBSET BackEvts /\ wake \in SUBSET WakeEvts
  /\ word \in SUBSET (BackEvts \cup WakeEvts)
  /\ pc \in {"wait", "api", "open", "openback", "net", "post", "netback",
             "delay", "delayback"}
  /\ active \in Sessions \cup {"NONE"}
  /\ sst \in [Sessions -> States] /\ delay \in [Sessions -> BOOLEAN]
  /\ flags \in SUBSET Flags /\ failed \in BOOLEAN
  /\ pending \in SUBSET {"PEND", "READY"} /\ bPend \in SUBSET {"CMD", "RSP"}
  /\ cmd \in [id : 0..MaxCmd, kind : Kinds \cup {"none"}]
  /\ rspId \in 0..MaxCmd /\ executed \in [1..MaxCmd -> 0..2]
  /\ bits \in SUBSET {0, 1, 16} /\ got \in [Apps -> SUBSET {0, 1, 16}]
  /\ call \in [Apps -> {"none", "ExecPing", "Send", "SendEx"}]

\* An active session runs for a task that waits for its end, no session that is
\* not active is out of its IDLE state, and the network manager is held for an
\* active session only.
ActiveForCaller ==
  /\ active # "NONE" => \E a \in Apps : call[a] # "none" /\ got[a] = {}
  /\ \A s \in Sessions : sst[s] # "IDLE" => active = s
  /\ open => active # "NONE"

\* While the dispatcher waits, the active session waits for something that is
\* on its way: a delay, or the answer to its request.
ActiveRuns ==
  pc = "wait" /\ wake \cup cnotif = {} /\ active # "NONE" =>
    \/ sst[active] \in {"WAITING_RX_DELAY", "WAITING_TX_DELAY"} /\ delay[active]
    \/ sst[active] \in {"SENDING", "LISTENING"} /\ req # "none"

\* A delay runs only for the active session, in a state that awaits it: "Event
\* from NetManager or TimerEvt Tmo => active session already exist"
\* (ses_dispatcher.c:307).
DelayHasSession ==
  \A s \in Sessions : delay[s] \/ Delay(s) \in wake =>
    active = s /\ (pc = "wait" => sst[s] \in {"WAITING_RX_DELAY", "WAITING_TX_DELAY"})

\* Every call of the application returns.
CallReturns == \A a \in Apps : call[a] # "none" ~> call[a] = "none"

\* A call finds no result of an earlier one.
NoStaleResult == (\A a \in Apps : call[a] = "none") => bits = {}

\* A command is executed at most once, however often it is received.
ExecutedOnce == \A i \in 1..MaxCmd : executed[i] <= 1

\* What is executed is the command that has just been answered.
ExecutedWasAnswered ==
  [][executed' # executed =>
       /\ "RSP_SENT" \in flags /\ rspId = cmd.id
       /\ \A i \in 1..MaxCmd : executed'[i] # executed[i] => i = cmd.id]_vars

\* A task is told FAILED exactly when the session it called has met an error.
FailedIffError ==
  \A a \in Apps : call[a] \in {"ExecPing", "SendEx"} /\ got[a] # {} =>
    (Outcome(call[a], got[a]) = "FAILED" <=> failed)

\* The types, and that what runs belongs together: a task waits for the active
\* session, the session waits for an answer or a delay, the delay is the session's.
SesInv == TypeOK /\ ActiveForCaller /\ ActiveRuns /\ DelayHasSession
=============================================================================
