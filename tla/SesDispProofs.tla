---------------------------- MODULE SesDispProofs ----------------------------
(***************************************************************************)
(* Proofs about the session dispatcher, for every number of commands and   *)
(* every value of the switches named in a theorem.                         *)
(*                                                                         *)
(* FsmRuns says what one run of a session's fsm may do, and is all that    *)
(* the rest uses of the sessions' states.  Then come two invariants:       *)
(*  - OnceInv, on any interleaving: a command is counted only when its     *)
(*    number is that of the last response, and a response is only sent in  *)
(*    the state in which its command is still in the buffer;               *)
(*  - SerialInv, for an application whose calls do not overlap and a       *)
(*    network manager that does not report a DONE and a TIMEOUT at once:   *)
(*    who waits, which session is active, which delay runs and what is in  *)
(*    the notification word are one and the same thing.  RunsInv adds what *)
(*    a session asks for, with a network manager that does not refuse.     *)
(***************************************************************************)
EXTENDS SesDisp, TLAPS

Awaits == {"WAITING_RX_DELAY", "WAITING_TX_DELAY"}
Words  == BackEvts \cup WakeEvts
Dones  == {"SEND_DONE", "RECV_DONE"}

\* The request whose answer a session waits for.
Asked(s, st) == IF st = "SENDING" THEN "SEND" ELSE IF s = "ADM" THEN "DETECT" ELSE "MANY"

SesTyped ==
  /\ sst \in [Sessions -> States] /\ delay \in [Sessions -> BOOLEAN]
  /\ flags \in SUBSET Flags

\* What a transition does.
Went(s, st, fl) ==
  /\ sst' \in [Sessions -> States] /\ sst'[s] = st
  /\ \A r \in Sessions : r # s => sst'[r] = sst[r]
  /\ flags' \in SUBSET Flags
  /\ "COMPLETE" \in flags' <=> sst[s] # "IDLE" /\ st = "IDLE"
  /\ \A f \in Flags \ {"COMPLETE"} : f \in flags' <=> f \in fl

\* A transition returns COMPLETE when it leaves the last state for IDLE, and no
\* other flag than those it is given.
LEMMA GotoDoes ==
  ASSUME SesTyped, NEW s \in Sessions, NEW st \in States,
         NEW fl \in SUBSET (Flags \ {"COMPLETE"}), Goto(s, st, fl)
  PROVE  Went(s, st, fl)
BY DEF SesTyped, Goto, Went, Flags

NetTyped ==
  /\ open \in BOOLEAN /\ owed \in BOOLEAN
  /\ req \in Requests \cup {"none"} /\ last \in Requests

\* A request is accepted, or refused and the session is back in IDLE.
LEMMA TryRequestDoes ==
  ASSUME SesTyped, NetTyped, NEW s \in Sessions, NEW kind \in Requests, NEW st \in States,
         TryRequest(s, kind, st)
  PROVE  /\ NetTyped' /\ UNCHANGED <<open, cnotif>> /\ (open \/ req' = req)
         /\ \/ req' = kind /\ Went(s, st, {})
            \/ /\ NetRefuses \/ ~open \/ req # "none"
               /\ Went(s, "IDLE", {"ERROR"})
<1>1. CASE Net!Accept(kind) /\ Goto(s, st, {})
  BY <1>1, GotoDoes DEF Net!Accept, NetTyped
<1>2. CASE /\ NetRefuses \/ ~open \/ req # "none"
           /\ Net!Refuse(kind) /\ Goto(s, "IDLE", {"ERROR"})
  <2>1. Went(s, "IDLE", {"ERROR"})
    BY <1>2, GotoDoes DEF States, Flags
  <2>2. NetTyped' /\ UNCHANGED <<open, cnotif, req>>
    BY <1>2 DEF Net!Refuse, NetTyped
  <2> QED
    BY <1>2, <2>1, <2>2
<1> QED
  BY <1>1, <1>2 DEF TryRequest

\* A delay is armed, or nothing is and the other outcome is taken.
LEMMA TryDelayDoes ==
  ASSUME SesTyped, NEW s \in Sessions, NEW st \in States, NEW failSt \in States,
         NEW fl \in SUBSET (Flags \ {"COMPLETE"}), NEW failFl \in SUBSET (Flags \ {"COMPLETE"}),
         TryDelay(s, st, fl, failSt, failFl)
  PROVE  /\ delay' \in [Sessions -> BOOLEAN]
         /\ \A r \in Sessions : r # s => delay'[r] = delay[r]
         /\ \/ Went(s, st, fl) /\ delay'[s] = TRUE
            \/ Went(s, failSt, failFl) /\ delay' = delay
BY GotoDoes DEF TryDelay, SesTyped

-----------------------------------------------------------------------------
\* A run of a session on some events.
Ran(s, evts) ==
  /\ NetTyped' /\ UNCHANGED <<open, cnotif>> /\ (open \/ req' = req)
  /\ SesTyped' /\ failed' = (failed \/ "ERROR" \in flags')
  /\ \A r \in Sessions : r # s => sst'[r] = sst[r] /\ delay'[r] = delay[r]
  /\ "COMPLETE" \in flags' <=> sst[s] # "IDLE" /\ sst'[s] = "IDLE"
  /\ "ERROR" \in flags' => sst'[s] = "IDLE"
  /\ sst[s] = "IDLE" /\ "OPEN" \notin evts => sst'[s] = "IDLE"

\* And what it does to the requests and delays it waits for.
RanDelay(s, evts) ==
  /\ sst[s] \in Awaits /\ Delay(s) \notin evts => sst'[s] = sst[s] /\ delay'[s] = delay[s]
  /\ sst[s] \in Awaits /\ Delay(s) \in evts => sst'[s] \notin Awaits /\ delay'[s] = delay[s]
  /\ sst[s] \notin Awaits /\ sst'[s] \in Awaits => delay'[s] = TRUE
  /\ sst[s] \notin Awaits /\ sst'[s] \notin Awaits /\ ~("TIMEOUT" \in evts /\ Dones \cap evts # {})
       => delay'[s] = delay[s]

RanRequest(s, evts) ==
  /\ sst'[s] \in {"SENDING", "LISTENING"} =>
       \/ req' = Asked(s, sst'[s])
       \/ sst'[s] = sst[s] /\ req' = req /\ evts \cap Ends(Asked(s, sst[s])) = {}
  /\ sst[s] = "IDLE" /\ "OPEN" \in evts /\ open /\ req = "none" /\ ~NetRefuses
       => sst'[s] = "SENDING"

\* And to the response of the ADM session.
RanAnswer(s, evts) ==
  /\ bypass' \in BOOLEAN /\ pending' \in SUBSET {"PEND", "READY"}
  /\ "READY" \in pending' =>
       "READY" \in pending /\ ~(s = "ADM" /\ sst["ADM"] = "LISTENING" /\ "RECV_DONE" \in evts)
  /\ sst'["ADM"] = "SENDING" /\ "PEND" \in pending' =>
       "READY" \in pending' \/ (sst["ADM"] = "SENDING" /\ pending' = pending)
  /\ "RSP_SENT" \in flags' => s = "ADM" /\ sst["ADM"] = "SENDING" /\ "PEND" \in pending

RanAll(s, evts) == Ran(s, evts) /\ RanDelay(s, evts) /\ RanRequest(s, evts) /\ RanAnswer(s, evts)

\* What one run of adm_mgr.c's or inst_mgr.c's fsm does, whatever the events.
LEMMA FsmRuns ==
  ASSUME SesTyped, NetTyped, bypass \in BOOLEAN, pending \in SUBSET {"PEND", "READY"},
         NEW s \in Sessions, NEW evts \in SUBSET Words, Fsm(s, evts)
  PROVE  RanAll(s, evts)
<1> USE DEF RanAll, Ran, RanDelay, RanRequest, RanAnswer, Asked, Ends, Awaits, Dones,
            Fsm, SesTyped, NetTyped, Sessions, Requests, States, Flags, Delay
<1>0. \A st \in States, fl \in SUBSET (Flags \ {"COMPLETE"}) :
        Goto(s, st, fl) => Went(s, st, fl)
  BY GotoDoes
<1>1. CASE s = "ADM" /\ AdmIdle(evts)
  <2>1. CASE "OPEN" \in evts /\ TryRequest("ADM", "SEND", "SENDING")
    <3>1. /\ bypass' \in BOOLEAN /\ delay' = delay /\ sst["ADM"] = "IDLE"
          /\ pending' \in SUBSET {"PEND", "READY"} /\ {"PEND", "READY"} \cap pending' = {}
          /\ failed' = (failed \/ "ERROR" \in flags')
      BY <1>1, <2>1 DEF AdmIdle, Stay
    <3>2. /\ NetTyped' /\ UNCHANGED <<open, cnotif>> /\ (open \/ req' = req)
          /\ \/ req' = "SEND" /\ Went("ADM", "SENDING", {})
             \/ (NetRefuses \/ ~open \/ req # "none") /\ Went("ADM", "IDLE", {"ERROR"})
      BY <2>1, TryRequestDoes
    <3> QED
      BY <1>1, <2>1, <3>1, <3>2 DEF Went
  <2>2. CASE "OPEN" \notin evts /\ Stay("ADM")
    BY <1>0, <1>1, <2>2 DEF AdmIdle, Stay, Went, netVars
  <2> QED
    BY <1>1, <2>1, <2>2 DEF AdmIdle
<1>2. CASE s = "ADM" /\ AdmWaitingRxDelay(evts)
  <2>1. CASE "ADM_DELAY" \in evts /\ TryRequest("ADM", "DETECT", "LISTENING")
    <3>1. /\ NetTyped' /\ UNCHANGED <<open, cnotif>> /\ (open \/ req' = req)
          /\ \/ req' = "DETECT" /\ Went("ADM", "LISTENING", {})
             \/ (NetRefuses \/ ~open \/ req # "none") /\ Went("ADM", "IDLE", {"ERROR"})
      BY <2>1, TryRequestDoes
    <3>2. sst["ADM"] = "WAITING_RX_DELAY" /\ UNCHANGED <<delay, bypass, pending>>
      BY <1>2, <2>1 DEF AdmWaitingRxDelay
    <3> QED
      BY <1>2, <2>1, <3>1, <3>2 DEF Went
  <2>2. CASE /\ "ADM_DELAY" \in evts
             /\ Goto("ADM", "IDLE", {"SUCCESS"}) /\ UNCHANGED netVars
    BY <1>0, <1>2, <2>2 DEF AdmWaitingRxDelay, Went, netVars
  <2>3. CASE /\ "ADM_DELAY" \notin evts
             /\ Goto("ADM", "WAITING_RX_DELAY", {}) /\ UNCHANGED netVars
    BY <1>0, <1>2, <2>3 DEF AdmWaitingRxDelay, Went, netVars
  <2> QED
    BY <1>2, <2>1, <2>2, <2>3 DEF AdmWaitingRxDelay
<1>3. CASE s = "ADM" /\ AdmListening(evts)
  <2>1. CASE /\ "RECV_DONE" \in evts /\ pending' = {"PEND"}
             /\ TryDelay("ADM", OrTimeout(evts, "WAITING_TX_DELAY"),
                         {"CMD_RECV"} \cup TimeoutFlag(evts), "IDLE", {"ERROR"})
    <3>0. "IDLE" \in States /\ "ADM" \in Sessions
      OBVIOUS
    <3>1. ({"CMD_RECV"} \cup TimeoutFlag(evts)) \in SUBSET (Flags \ {"COMPLETE"}) /\ OrTimeout(evts, "WAITING_TX_DELAY") \in States
          /\ {"ERROR"} \in SUBSET (Flags \ {"COMPLETE"})
      BY DEF OrTimeout, TimeoutFlag
    <3>2. /\ delay' \in [Sessions -> BOOLEAN]
          /\ \A r \in Sessions : r # "ADM" => delay'[r] = delay[r]
          /\ \/ Went("ADM", OrTimeout(evts, "WAITING_TX_DELAY"), ({"CMD_RECV"} \cup TimeoutFlag(evts))) /\ delay'["ADM"] = TRUE
             \/ Went("ADM", "IDLE", {"ERROR"}) /\ delay' = delay
      <4> HIDE DEF Sessions, States, Flags, SesTyped
      <4> QED
        BY <3>0, <3>1, <2>1, TryDelayDoes
    <3> QED
      BY <3>2, <1>3, <2>1 DEF AdmListening, Went, OrTimeout, TimeoutFlag, netVars
  <2>2. CASE /\ "RECV_DONE" \notin evts
             /\ Goto("ADM", OrTimeout(evts, "LISTENING"), TimeoutFlag(evts))
             /\ UNCHANGED <<delay, pending>>
    BY <1>0, <1>3, <2>2 DEF AdmListening, Went, OrTimeout, TimeoutFlag, netVars
  <2> QED
    BY <1>3, <2>1, <2>2 DEF AdmListening
<1>4. CASE s = "ADM" /\ AdmWaitingTxDelay(evts)
  <2>1. CASE /\ "ADM_DELAY" \in evts /\ "READY" \in pending
             /\ TryRequest("ADM", "SEND", "SENDING")
    <3>1. /\ NetTyped' /\ UNCHANGED <<open, cnotif>> /\ (open \/ req' = req)
          /\ \/ req' = "SEND" /\ Went("ADM", "SENDING", {})
             \/ (NetRefuses \/ ~open \/ req # "none") /\ Went("ADM", "IDLE", {"ERROR"})
      BY <2>1, TryRequestDoes
    <3>2. sst["ADM"] = "WAITING_TX_DELAY" /\ UNCHANGED <<delay, bypass, pending>>
      BY <1>4, <2>1 DEF AdmWaitingTxDelay
    <3> QED
      BY <1>4, <2>1, <3>1, <3>2 DEF Went
  <2>2. CASE /\ "ADM_DELAY" \in evts
             /\ Goto("ADM", "IDLE", {"OUT_DATE"}) /\ UNCHANGED netVars
    BY <1>0, <1>4, <2>2 DEF AdmWaitingTxDelay, Went, netVars
  <2>3. CASE /\ "ADM_DELAY" \notin evts
             /\ Goto("ADM", "WAITING_TX_DELAY", {}) /\ UNCHANGED netVars
    BY <1>0, <1>4, <2>3 DEF AdmWaitingTxDelay, Went, netVars
  <2> QED
    BY <1>4, <2>1, <2>2, <2>3 DEF AdmWaitingTxDelay
<1>5. CASE s = "ADM" /\ AdmSending(evts)
  <2>1. CASE /\ "SEND_DONE" \in evts /\ "PEND" \in pending /\ pending' = {}
             /\ Goto("ADM", "IDLE", {"RSP_SENT"} \cup TimeoutFlag(evts))
             /\ UNCHANGED delay
    BY <1>0, <1>5, <2>1 DEF AdmSending, Went, TimeoutFlag, netVars
  <2>2. CASE /\ "SEND_DONE" \in evts /\ "PEND" \notin pending
             /\ TryDelay("ADM", OrTimeout(evts, "WAITING_RX_DELAY"),
                         {"DATA_SENT"} \cup TimeoutFlag(evts),
                         "IDLE", {"ERROR", "DATA_SENT"} \cup TimeoutFlag(evts))
             /\ UNCHANGED pending
    <3>0. "IDLE" \in States /\ "ADM" \in Sessions
      OBVIOUS
    <3>1. ({"DATA_SENT"} \cup TimeoutFlag(evts)) \in SUBSET (Flags \ {"COMPLETE"}) /\ OrTimeout(evts, "WAITING_RX_DELAY") \in States
          /\ ({"ERROR", "DATA_SENT"} \cup TimeoutFlag(evts)) \in SUBSET (Flags \ {"COMPLETE"})
      BY DEF OrTimeout, TimeoutFlag
    <3>2. /\ delay' \in [Sessions -> BOOLEAN]
          /\ \A r \in Sessions : r # "ADM" => delay'[r] = delay[r]
          /\ \/ Went("ADM", OrTimeout(evts, "WAITING_RX_DELAY"), ({"DATA_SENT"} \cup TimeoutFlag(evts))) /\ delay'["ADM"] = TRUE
             \/ Went("ADM", "IDLE", ({"ERROR", "DATA_SENT"} \cup TimeoutFlag(evts))) /\ delay' = delay
      <4> HIDE DEF Sessions, States, Flags, SesTyped
      <4> QED
        BY <3>0, <3>1, <2>2, TryDelayDoes
    <3> QED
      BY <3>2, <1>5, <2>2 DEF AdmSending, Went, OrTimeout, TimeoutFlag, netVars
  <2>3. CASE /\ "SEND_DONE" \in evts /\ "PEND" \notin pending
             /\ Goto("ADM", "IDLE", {"DATA_SENT"} \cup TimeoutFlag(evts))
             /\ UNCHANGED <<delay, pending>>
    BY <1>0, <1>5, <2>3 DEF AdmSending, Went, TimeoutFlag, netVars
  <2>4. CASE /\ "SEND_DONE" \notin evts
             /\ Goto("ADM", OrTimeout(evts, "SENDING"), TimeoutFlag(evts))
             /\ UNCHANGED <<delay, pending>>
    BY <1>0, <1>5, <2>4 DEF AdmSending, Went, OrTimeout, TimeoutFlag, netVars
  <2> QED
    BY <1>5, <2>1, <2>2, <2>3, <2>4 DEF AdmSending
<1>6. CASE s = "INST" /\ InstIdle(evts) /\ UNCHANGED <<bypass, pending>>
  <2>1. CASE "OPEN" \in evts /\ TryRequest("INST", "SEND", "SENDING") /\ UNCHANGED delay
    <3>1. /\ NetTyped' /\ UNCHANGED <<open, cnotif>> /\ (open \/ req' = req)
          /\ \/ req' = "SEND" /\ Went("INST", "SENDING", {})
             \/ (NetRefuses \/ ~open \/ req # "none") /\ Went("INST", "IDLE", {"ERROR"})
      BY <2>1, TryRequestDoes
    <3>2. sst["INST"] = "IDLE" /\ UNCHANGED <<delay, bypass, pending>>
      BY <1>6, <2>1 DEF InstIdle
    <3> QED
      BY <1>6, <2>1, <3>1, <3>2 DEF Went
  <2>2. CASE "OPEN" \notin evts /\ Stay("INST")
    BY <1>0, <1>6, <2>2 DEF InstIdle, Stay, Went, netVars
  <2> QED
    BY <1>6, <2>1, <2>2 DEF InstIdle
<1>7. CASE s = "INST" /\ InstSending(evts) /\ UNCHANGED <<bypass, pending>>
  <2>1. CASE /\ "SEND_DONE" \in evts
             /\ TryDelay("INST", OrTimeout(evts, "WAITING_RX_DELAY"),
                         {"PING_SENT"} \cup TimeoutFlag(evts),
                         "IDLE", {"ERROR"} \cup TimeoutFlag(evts))
    <3>0. "IDLE" \in States /\ "INST" \in Sessions
      OBVIOUS
    <3>1. ({"PING_SENT"} \cup TimeoutFlag(evts)) \in SUBSET (Flags \ {"COMPLETE"}) /\ OrTimeout(evts, "WAITING_RX_DELAY") \in States
          /\ ({"ERROR"} \cup TimeoutFlag(evts)) \in SUBSET (Flags \ {"COMPLETE"})
      BY DEF OrTimeout, TimeoutFlag
    <3>2. /\ delay' \in [Sessions -> BOOLEAN]
          /\ \A r \in Sessions : r # "INST" => delay'[r] = delay[r]
          /\ \/ Went("INST", OrTimeout(evts, "WAITING_RX_DELAY"), ({"PING_SENT"} \cup TimeoutFlag(evts))) /\ delay'["INST"] = TRUE
             \/ Went("INST", "IDLE", ({"ERROR"} \cup TimeoutFlag(evts))) /\ delay' = delay
      <4> HIDE DEF Sessions, States, Flags, SesTyped
      <4> QED
        BY <3>0, <3>1, <2>1, TryDelayDoes
    <3> QED
      BY <3>2, <1>7, <2>1 DEF InstSending, Went, OrTimeout, TimeoutFlag, netVars
  <2>2. CASE /\ "SEND_DONE" \notin evts
             /\ Goto("INST", OrTimeout(evts, "SENDING"), TimeoutFlag(evts))
             /\ UNCHANGED delay
    BY <1>0, <1>7, <2>2 DEF InstSending, Went, OrTimeout, TimeoutFlag, netVars
  <2> QED
    BY <1>7, <2>1, <2>2 DEF InstSending
<1>8. CASE s = "INST" /\ InstWaitingRxDelay(evts) /\ UNCHANGED <<bypass, pending>>
  <2>1. CASE "INST_DELAY" \in evts /\ TryRequest("INST", "MANY", "LISTENING") /\ UNCHANGED delay
    <3>1. /\ NetTyped' /\ UNCHANGED <<open, cnotif>> /\ (open \/ req' = req)
          /\ \/ req' = "MANY" /\ Went("INST", "LISTENING", {})
             \/ (NetRefuses \/ ~open \/ req # "none") /\ Went("INST", "IDLE", {"ERROR"})
      BY <2>1, TryRequestDoes
    <3>2. sst["INST"] = "WAITING_RX_DELAY" /\ UNCHANGED <<delay, bypass, pending>>
      BY <1>8, <2>1 DEF InstWaitingRxDelay
    <3> QED
      BY <1>8, <2>1, <3>1, <3>2 DEF Went
  <2>2. CASE "INST_DELAY" \notin evts /\ Stay("INST")
    BY <1>0, <1>8, <2>2 DEF InstWaitingRxDelay, Stay, Went, netVars
  <2> QED
    BY <1>8, <2>1, <2>2 DEF InstWaitingRxDelay
<1>9. CASE s = "INST" /\ InstListening(evts) /\ UNCHANGED <<bypass, pending>>
  BY <1>0, <1>9 DEF InstListening, Went, OrTimeout, TimeoutFlag, netVars
<1> QED
  BY <1>1, <1>2, <1>3, <1>4, <1>5, <1>6, <1>7, <1>8, <1>9 DEF AdmFsm, InstFsm

-----------------------------------------------------------------------------
(* The types of the variables.                                             *)

\* The part of the types that a run of a session needs.
LEMMA TypesOfFsm == TypeOK => SesTyped /\ NetTyped
BY DEF TypeOK, SesTyped, NetTyped

\* FsmRuns from the type invariant, with the types a run leaves behind.
LEMMA FsmTyped ==
  ASSUME TypeOK, NEW s \in Sessions, NEW evts \in SUBSET Words, Fsm(s, evts)
  PROVE  /\ RanAll(s, evts)
         /\ open' \in BOOLEAN /\ owed' \in BOOLEAN /\ bypass' \in BOOLEAN
         /\ req' \in Requests \cup {"none"} /\ last' \in Requests
         /\ cnotif' \in SUBSET BackEvts
         /\ sst' \in [Sessions -> States] /\ delay' \in [Sessions -> BOOLEAN]
         /\ flags' \in SUBSET Flags /\ failed' \in BOOLEAN
         /\ pending' \in SUBSET {"PEND", "READY"}
<1>1. RanAll(s, evts)
  BY TypesOfFsm, FsmRuns DEF TypeOK
<1> QED
  BY <1>1 DEF RanAll, Ran, RanAnswer, NetTyped, SesTyped, TypeOK

\* A result is made of the three bits that the masks hold.
LEMMA SetBitsTyped ==
  ASSUME TypeOK, NEW s, NEW v \in {"SUCCESS", "FAILED", "REQUEST"}, SetBits(Result(s, v))
  PROVE  /\ bits' \in SUBSET {0, 1, 16} /\ got' \in [Apps -> SUBSET {0, 1, 16}]
         /\ call' = call
<1>1. Result(s, v) \in SUBSET {0, 1, 16}
  BY DEF Result
<1> QED
  BY <1>1 DEF TypeOK, SetBits

\* The delay that is treated is one that the word holds.
LEMMA DelayOfSession ==
  ASSUME \E s \in Sessions : Delay(s) \in word
  PROVE  DelayOf \in Sessions /\ Delay(DelayOf) \in word
<1>1. \E s \in Sessions : Delay(s) \in word /\ (s = "ADM" \/ Delay("ADM") \notin word)
  BY DEF Sessions, Delay
<1> QED
  BY <1>1 DEF DelayOf

\* Every step keeps the types.
LEMMA TypeStep == TypeOK /\ [Next]_vars => TypeOK'
<1> SUFFICES ASSUME TypeOK, [Next]_vars PROVE TypeOK'
  OBVIOUS
<1> USE DEF vars, netVars, sesVars, cmdVars, appVars
<1>1. ASSUME Wait PROVE TypeOK'
  BY <1>1 DEF TypeOK, Wait, Net!Take
<1>2. ASSUME NoCall \/ NoNet \/ NoDelay PROVE TypeOK'
  BY <1>2 DEF TypeOK, NoCall, NoNet, NoDelay
<1>3. ASSUME Rejected PROVE TypeOK'
  <2>1. /\ bits' \in SUBSET {0, 1, 16} /\ got' \in [Apps -> SUBSET {0, 1, 16}]
        /\ call' = call
    BY <1>3, SetBitsTyped DEF Rejected
  <2> QED
    BY <1>3, <2>1 DEF TypeOK, Rejected
<1>4. ASSUME Begin PROVE TypeOK'
  BY <1>4 DEF TypeOK, Begin, Opened, Sessions, Net!Open
<1>5. ASSUME RunOpen PROVE TypeOK'
  <2>1. {"OPEN"} \in SUBSET Words /\ active \in Sessions
    BY <1>5 DEF Words, WakeEvts, RunOpen, Fsm, Sessions
  <2> QED
    BY <1>5, <2>1, FsmTyped DEF TypeOK, RunOpen
<1>6. ASSUME RunNet PROVE TypeOK'
  <2>1. active \in Sessions /\ word \in SUBSET Words
    BY <1>6 DEF RunNet, TypeOK, Words
  <2>2. cmd' \in [id : 0..MaxCmd, kind : Kinds \cup {"none"}]
    BY <1>6, ConstantsTyped DEF RunNet, TypeOK, Received
  <2> QED
    BY <1>6, <2>1, <2>2, FsmTyped DEF TypeOK, RunNet
<1>7. ASSUME Post PROVE TypeOK'
  <2>1. /\ bPend' \in SUBSET {"CMD", "RSP"} /\ rspId' \in 0..MaxCmd
        /\ pending' \in SUBSET {"PEND", "READY"}
    BY <1>7 DEF TypeOK, Post, PreCmd, PostCmd, InstEnd
  <2>2. executed' \in [1..MaxCmd -> 0..2]
    <3>1. executed' = executed \/ PostCmd
      BY <1>7 DEF Post
    <3>2. CASE PostCmd
      <4>1. executed \in [1..MaxCmd -> 0..2]
        BY DEF TypeOK
      <4>2. CASE executed' = executed
        BY <4>1, <4>2
      <4>3. CASE executed[cmd.id] < 2 /\ executed' = [executed EXCEPT ![cmd.id] = @ + 1]
        <5>1. \A i \in 1..MaxCmd : i = cmd.id => executed[i] + 1 \in 0..2
          BY <4>1, <4>3
        <5> QED
          BY <4>1, <4>3, <5>1
      <4> QED
        BY <3>2, <4>2, <4>3 DEF PostCmd
    <3> QED
      BY <3>1, <3>2 DEF TypeOK
  <2> QED
    BY <1>7, <2>1, <2>2 DEF TypeOK, Post
<1>8. ASSUME RunDelay PROVE TypeOK'
  <2>1. DelayOf \in Sessions /\ word \in SUBSET Words
    BY <1>8, DelayOfSession DEF RunDelay, TypeOK, Words
  <2> QED
    BY <1>8, <2>1, FsmTyped DEF TypeOK, RunDelay
<1>9. ASSUME Back PROVE TypeOK'
  <2>1. Value(flags) \in {"SUCCESS", "FAILED", "REQUEST"}
    BY DEF Value
  <2>2. /\ bits' \in SUBSET {0, 1, 16} /\ got' \in [Apps -> SUBSET {0, 1, 16}]
        /\ call' \in [Apps -> {"none", "ExecPing", "Send", "SendEx"}]
    BY <1>9, <2>1, SetBitsTyped DEF Back, BckFlg, TypeOK
  <2>3. /\ open' \in BOOLEAN /\ owed' \in BOOLEAN
        /\ req' \in Requests \cup {"none"} /\ last' \in Requests
        /\ cnotif' \in SUBSET BackEvts /\ active' \in Sessions \cup {"NONE"}
    BY <1>9 DEF Back, BckFlg, TypeOK, Net!Close
  <2> QED
    BY <1>9, <2>2, <2>3 DEF Back, TypeOK
<1>10. ASSUME NEW evts \in SUBSET BackEvts, Deliver(evts) PROVE TypeOK'
  BY <1>10 DEF TypeOK, Deliver, Net!Deliver
<1>11. ASSUME Lose PROVE TypeOK'
  BY <1>11 DEF TypeOK, Lose, Net!Lose
<1>12. ASSUME NEW s \in Sessions, DelayExpire(s) PROVE TypeOK'
  BY <1>12 DEF TypeOK, DelayExpire, Delay, WakeEvts
<1>13. ASSUME NEW a \in Apps, NEW kind \in Calls(a), Call(a, kind) PROVE TypeOK'
  <2>1. call' \in [Apps -> {"none", "ExecPing", "Send", "SendEx"}]
    BY <1>13 DEF TypeOK, Call, Calls
  <2>2. bits' \in SUBSET {0, 1, 16} /\ got' \in [Apps -> SUBSET {0, 1, 16}]
    <3>1. /\ bits \in SUBSET {0, 1, 16} /\ got \in [Apps -> SUBSET {0, 1, 16}]
      BY DEF TypeOK
    <3>2. \/ UNCHANGED <<bits, got>>
          \/ bits' = bits \ Mask(a) /\ got' = [got EXCEPT ![a] = bits]
      BY <1>13 DEF Call
    <3> QED
      BY <3>1, <3>2
  <2>3. wake' \in SUBSET WakeEvts
    BY <1>13 DEF Call, WakeEvts
  <2> QED
    BY <1>13, <2>1, <2>2, <2>3 DEF TypeOK, Call, Net!Take
<1>14. ASSUME NEW a \in Apps, Return(a) PROVE TypeOK'
  BY <1>14 DEF TypeOK, Return
<1>15. CASE UNCHANGED vars
  BY <1>15 DEF TypeOK
<1> QED
  BY <1>1, <1>2, <1>3, <1>4, <1>5, <1>6, <1>7, <1>8, <1>9, <1>10, <1>11, <1>12, <1>13,
     <1>14, <1>15 DEF Next, Dispatcher

-----------------------------------------------------------------------------
(* Commands.                                                               *)

OnceInv ==
  /\ rspId <= cmd.id
  /\ "READY" \in pending => rspId = cmd.id
  /\ sst["ADM"] = "SENDING" /\ "PEND" \in pending => "READY" \in pending
  /\ pc = "post" /\ "RSP_SENT" \in flags => rspId = cmd.id
  /\ \A i \in 1..MaxCmd :
       /\ executed[i] <= 1 /\ (i > rspId => executed[i] = 0)
       /\ "CMD" \in bPend /\ i = rspId => executed[i] = 0

\* A run of a session that receives no command.
LEMMA RunOnce ==
  ASSUME TypeOK, OnceInv, NEW s \in Sessions, NEW evts \in SUBSET Words, Fsm(s, evts),
         UNCHANGED <<bPend, rspId, executed>>,
         cmd' = cmd \/ (/\ s = "ADM" /\ sst["ADM"] = "LISTENING" /\ "RECV_DONE" \in evts
                        /\ cmd'.id \in Nat /\ cmd'.id >= cmd.id)
  PROVE  OnceInv'
<1>1. RanAnswer(s, evts)
  BY FsmTyped DEF RanAll
<1>2. cmd.id \in Nat /\ cmd'.id \in Nat /\ cmd'.id >= cmd.id /\ rspId \in Nat
  BY ConstantsTyped DEF TypeOK
<1>3. cmd' # cmd => sst["ADM"] # "SENDING" /\ "READY" \notin pending'
  BY <1>1 DEF RanAnswer
<1>4. "READY" \in pending' => rspId' = cmd'.id
  BY <1>1, <1>3 DEF RanAnswer, OnceInv
<1>5. sst'["ADM"] = "SENDING" /\ "PEND" \in pending' => "READY" \in pending'
  BY <1>1 DEF RanAnswer, OnceInv
<1>6. "RSP_SENT" \in flags' => rspId' = cmd'.id
  BY <1>1, <1>3 DEF RanAnswer, OnceInv
<1> QED
  BY <1>2, <1>4, <1>5, <1>6 DEF OnceInv

\* A command is executed once, and only the one that has just been answered.
LEMMA PostOnce ==
  ASSUME TypeOK, OnceInv, Post
  PROVE  /\ OnceInv'
         /\ executed' # executed =>
              /\ "RSP_SENT" \in flags /\ rspId = cmd.id
              /\ \A i \in 1..MaxCmd : executed'[i] # executed[i] => i = cmd.id
<1>1. /\ cmd.id \in Nat /\ rspId \in Nat /\ MaxCmd \in Nat
      /\ rspId <= cmd.id /\ executed \in [1..MaxCmd -> 0..2]
  BY ConstantsTyped DEF TypeOK, OnceInv
<1>2. CASE PreCmd /\ UNCHANGED executed
  BY <1>1, <1>2 DEF Post, PreCmd, OnceInv, sesVars
<1>3. CASE "RSP_SENT" \in flags /\ PostCmd /\ UNCHANGED <<rspId, pending>>
  <2>1. rspId = cmd.id
    BY <1>3 DEF OnceInv, Post
  <2>2. \A i \in 1..MaxCmd : i # cmd.id => executed'[i] = executed[i]
    BY <1>1, <1>3 DEF PostCmd
  <2>3. \A i \in 1..MaxCmd : i = cmd.id => executed'[i] <= 1
    BY <1>1, <1>3, <2>1 DEF PostCmd, OnceInv
  <2>4. "CMD" \notin bPend'
    BY <1>3 DEF PostCmd
  <2>5. sst' = sst /\ cmd' = cmd /\ pc' = "netback"
    BY DEF Post
  <2> QED
    BY <1>1, <1>3, <2>1, <2>2, <2>3, <2>4, <2>5 DEF OnceInv
<1>4. CASE InstEnd /\ UNCHANGED <<executed, pending>>
  <2>1. rspId' = rspId \/ rspId' = cmd.id
    BY <1>4 DEF InstEnd
  <2>2. "CMD" \notin bPend' /\ sst' = sst /\ cmd' = cmd /\ pc' = "netback"
    BY <1>4 DEF InstEnd, Post
  <2> QED
    BY <1>1, <1>4, <2>1, <2>2 DEF OnceInv
<1>5. CASE UNCHANGED <<bPend, rspId, executed, pending>>
  BY <1>5 DEF Post, OnceInv
<1> QED
  BY <1>2, <1>3, <1>4, <1>5 DEF Post

\* Every other step leaves the commands, their count and the answer alone.
LEMMA OnceKept ==
  ASSUME OnceInv, UNCHANGED cmdVars, sst' = sst, pending' = pending, pc' # "post"
  PROVE  OnceInv'
BY DEF OnceInv, cmdVars

\* Every step keeps OnceInv, and only Post executes.
LEMMA OnceStep ==
  ASSUME TypeOK, OnceInv, [Next]_vars
  PROVE  /\ OnceInv'
         /\ executed' # executed =>
              /\ "RSP_SENT" \in flags /\ rspId = cmd.id
              /\ \A i \in 1..MaxCmd : executed'[i] # executed[i] => i = cmd.id
<1>1. CASE Post
  BY <1>1, PostOnce
<1>2. CASE RunOpen
  <2>1. active \in Sessions /\ {"OPEN"} \in SUBSET Words
    BY <1>2 DEF RunOpen, Fsm, Sessions, Words, WakeEvts
  <2> QED
    BY <1>2, <2>1, RunOnce DEF RunOpen, cmdVars
<1>3. CASE RunDelay
  <2>1. DelayOf \in Sessions /\ word \in SUBSET Words
    BY <1>3, DelayOfSession DEF RunDelay, TypeOK, Words
  <2> QED
    BY <1>3, <2>1, RunOnce DEF RunDelay, cmdVars
<1>4. CASE RunNet
  <2>1. active \in Sessions /\ word \in SUBSET Words
    BY <1>4 DEF RunNet, TypeOK, Words
  <2>2. cmd' = cmd \/ (/\ active = "ADM" /\ sst["ADM"] = "LISTENING" /\ "RECV_DONE" \in word
                       /\ cmd'.id \in Nat /\ cmd'.id >= cmd.id)
    BY <1>4, ConstantsTyped DEF RunNet, Received, TypeOK
  <2> QED
    BY <1>4, <2>1, <2>2, RunOnce DEF RunNet
<1>5. CASE Wait \/ NoCall \/ Rejected \/ Begin \/ NoNet \/ NoDelay \/ Back
  BY <1>5, OnceKept DEF Wait, NoCall, Rejected, Begin, NoNet, NoDelay, Back, sesVars, cmdVars
<1>6. ASSUME pc' = pc, UNCHANGED <<cmdVars, sst, pending, flags>> PROVE OnceInv' /\ executed' = executed
  BY <1>6 DEF OnceInv, cmdVars
<1>7. CASE Lose \/ (\E evts \in SUBSET BackEvts : Deliver(evts)) \/ UNCHANGED vars
  BY <1>6, <1>7 DEF Lose, Deliver, vars, sesVars, cmdVars
<1>8. CASE \E s \in Sessions : DelayExpire(s)
  BY <1>6, <1>8 DEF DelayExpire, cmdVars
<1>9. CASE \E a \in Apps : Return(a) \/ \E kind \in Calls(a) : Call(a, kind)
  BY <1>6, <1>9 DEF Return, Call, sesVars, cmdVars
<1> QED
  BY <1>1, <1>2, <1>3, <1>4, <1>5, <1>7, <1>8, <1>9 DEF Next, Dispatcher

\* Nothing has been received or executed at the start.
LEMMA InitOnce == Init => TypeOK /\ OnceInv
<1> SUFFICES ASSUME Init PROVE TypeOK /\ OnceInv
  OBVIOUS
<1>1. /\ cmd \in [id : 0..MaxCmd, kind : Kinds \cup {"none"}]
      /\ rspId \in 0..MaxCmd /\ executed \in [1..MaxCmd -> 0..2]
  BY ConstantsTyped DEF Init, NoCmd
<1>2. /\ open \in BOOLEAN /\ owed \in BOOLEAN
      /\ req \in Requests \cup {"none"} /\ last \in Requests
      /\ cnotif \in SUBSET BackEvts
  BY DEF Init, Net!Init, Requests
<1>3. /\ sst \in [Sessions -> States] /\ delay \in [Sessions -> BOOLEAN]
      /\ got \in [Apps -> SUBSET {0, 1, 16}]
      /\ call \in [Apps -> {"none", "ExecPing", "Send", "SendEx"}]
  BY DEF Init, States
<1>4. TypeOK
  BY <1>1, <1>2, <1>3 DEF Init, TypeOK
<1>5. OnceInv
  BY ConstantsTyped DEF Init, OnceInv, NoCmd
<1> QED
  BY <1>4, <1>5

\* The variables keep their types on every interleaving.
THEOREM TypeCorrect == Spec => []TypeOK
BY InitOnce, TypeStep, PTL DEF Spec

\* A command is executed at most once, however often the head-end repeats it,
\* whatever calls, refusals and timeouts come in between: its number is noted in
\* the response when it is prepared (adm_internal.c:80) and it is executed only
\* when that response has been sent (ses_dispatcher.c:350).
THEOREM ExecutedOnceAlways == Spec => []ExecutedOnce
<1>1. OnceInv => ExecutedOnce
  BY DEF OnceInv, ExecutedOnce
<1>2. TypeOK /\ OnceInv /\ [Next]_vars => OnceInv'
  BY OnceStep
<1> QED
  BY <1>1, <1>2, InitOnce, TypeStep, PTL DEF Spec

\* A step that executes a command comes after its response has been sent, and
\* executes that command and no other (ses_dispatcher.c:350-358).
THEOREM ExecutedWasAnsweredAlways == Spec => ExecutedWasAnswered
<1>1. TypeOK /\ OnceInv /\ [Next]_vars =>
        [executed' # executed =>
           /\ "RSP_SENT" \in flags /\ rspId = cmd.id
           /\ \A i \in 1..MaxCmd : executed'[i] # executed[i] => i = cmd.id]_vars
  BY OnceStep
<1>2. TypeOK /\ OnceInv /\ [Next]_vars => OnceInv'
  BY OnceStep
<1> QED
  BY <1>1, <1>2, InitOnce, TypeStep, PTL DEF Spec, ExecutedWasAnswered
-----------------------------------------------------------------------------
(* One application task, whose calls do not overlap, and a network manager *)
(* that does not report a DONE and a TIMEOUT together.                     *)

Serial == ~Coalesced /\ ~Concurrent

Waits(a)    == call[a] # "none" /\ got[a] = {}
SesOf(a)    == IF a = "ping" THEN "INST" ELSE "ADM"
OpenWord(a) == IF a = "ping" THEN {"OPEN"} ELSE {"OPEN", "FOR_ADM"}

\* At most one task calls, and no bit of the event group is left behind.
CallsInv ==
  /\ bits = {}
  /\ \A a, b \in Apps : call[a] # "none" /\ call[b] # "none" => a = b
  /\ \A a \in Apps : /\ call[a] \in Calls(a) \cup {"none"}
                     /\ got[a] # {} => call[a] # "none"

\* The network manager's bits come between two words, to its owner, and never
\* a DONE with a TIMEOUT.
NoMix(evts) == ~("TIMEOUT" \in evts /\ Dones \cap evts # {})
AnswersInv ==
  /\ (cnotif # {} => pc = "wait" /\ open) /\ (open \/ req = "none")
  /\ NoMix(cnotif) /\ NoMix(word)
  /\ "OPEN" \in word => word \subseteq {"OPEN", "FOR_ADM"}

\* Without an active session everything is at rest, and a task that waits has
\* its call in the notification word or in the word just read.
IdleInv ==
  active = "NONE" =>
    /\ ~open /\ \A s \in Sessions : sst[s] = "IDLE"
    /\ pc \in {"wait", "api", "net", "delay"}
    /\ \A a \in Apps : Waits(a) =>
         \/ pc = "wait" /\ wake = OpenWord(a)
         \/ pc = "api" /\ wake = {} /\ word = OpenWord(a)
    /\ (\A a \in Apps : ~Waits(a)) => wake = {} /\ (pc = "api" => "OPEN" \notin word)

\* An active session is the one that a task waits for; the other is at rest,
\* and nothing but the session's delay is in the notification word.
ActiveInv ==
  active # "NONE" =>
    /\ \E a \in Apps : Waits(a) /\ SesOf(a) = active
    /\ \A s \in Sessions : s # active => sst[s] = "IDLE"
    /\ wake \subseteq {Delay(active)}
    /\ pc = "api" => "OPEN" \notin word

\* A delay runs, or is announced, for the active session while it awaits one;
\* a session that awaits a delay will see it.
DelayInv ==
  \A s \in Sessions :
    /\ delay[s] \/ Delay(s) \in wake => active = s /\ sst[s] \in Awaits
    /\ delay[s] => Delay(s) \notin wake
    /\ pc \in {"api", "net"} /\ Delay(s) \in word => sst[s] \in Awaits
    /\ pc \in {"open", "openback"} => Delay(s) \notin word
    /\ pc \in {"api", "net", "post", "netback", "delay"} /\ Delay(s) \in word
         => ~delay[s] /\ Delay(s) \notin wake /\ active \in {s, "NONE"}
    /\ sst[s] \in Awaits => \/ delay[s] \/ Delay(s) \in wake
                            \/ pc \in {"api", "net", "delay"} /\ Delay(s) \in word

\* An error brings the session to its IDLE state.
ErrorInv ==
  /\ flags # {} => pc \in {"openback", "post", "netback", "delayback"}
  /\ active # "NONE" /\ failed => sst[active] = "IDLE" /\ pc # "open"
  /\ "COMPLETE" \in flags =>
       active # "NONE" /\ sst[active] = "IDLE" /\ (failed <=> "ERROR" \in flags)
  /\ \A a \in Apps : got[a] # {} =>
       \/ got[a] = (IF a = "ping" THEN {1} ELSE {1, 16}) /\ failed
       \/ got[a] \in (IF a = "ping" THEN {{0}, {0, 1}} ELSE {{0, 16}, {0, 1, 16}}) /\ ~failed

SerialInv == CallsInv /\ AnswersInv /\ IdleInv /\ ActiveInv /\ DelayInv /\ ErrorInv


\* The events a run of the active session is given.
RunStep(evts) ==
  \/ pc = "open" /\ evts = {"OPEN"} /\ pc' = "openback"
  \/ pc = "net" /\ evts = word /\ "OPEN" \notin word /\ pc' = "post"
  \/ pc = "delay" /\ evts = word /\ "OPEN" \notin word /\ pc' = "delayback"
                  /\ Delay(active) \in word

\* A run of the active session keeps SerialInv.
LEMMA RunSerial ==
  ASSUME TypeOK, SerialInv, active \in Sessions, NEW evts \in SUBSET Words,
         Fsm(active, evts), UNCHANGED <<wake, word, active, appVars>>, RunStep(evts)
  PROVE  SerialInv'
<1>1. /\ Ran(active, evts) /\ RanDelay(active, evts)
      /\ sst \in [Sessions -> States] /\ sst' \in [Sessions -> States]
      /\ delay \in [Sessions -> BOOLEAN] /\ delay' \in [Sessions -> BOOLEAN]
  BY FsmTyped DEF RanAll, TypeOK
<1>2. active # "NONE"
  BY DEF Sessions
<1>3. CallsInv' /\ IdleInv'
  BY <1>2 DEF SerialInv, CallsInv, IdleInv, appVars
<1>4. AnswersInv'
  BY <1>1 DEF SerialInv, AnswersInv, NoMix, RunStep, Ran
<1>5. ActiveInv'
  BY <1>1, <1>2 DEF SerialInv, ActiveInv, Ran, RunStep, Waits, appVars
<1>6. DelayInv'
  <2> SUFFICES ASSUME NEW s \in Sessions
               PROVE  /\ delay'[s] \/ Delay(s) \in wake => active = s /\ sst'[s] \in Awaits
                      /\ delay'[s] => Delay(s) \notin wake
                      /\ pc' = "openback" => Delay(s) \notin word
                      /\ pc' = "post" /\ Delay(s) \in word => ~delay'[s] /\ Delay(s) \notin wake /\ active = s
                      /\ sst'[s] \in Awaits => delay'[s] \/ Delay(s) \in wake
    BY DEF DelayInv, RunStep, Delay
  <2>1. /\ delay[s] \/ Delay(s) \in wake => active = s /\ sst[s] \in Awaits
        /\ delay[s] => Delay(s) \notin wake
        /\ pc = "net" /\ Delay(s) \in word => sst[s] \in Awaits
        /\ pc = "open" => Delay(s) \notin word
        /\ pc \in {"net", "delay"} /\ Delay(s) \in word
             => ~delay[s] /\ Delay(s) \notin wake /\ active = s
        /\ sst[s] \in Awaits => \/ delay[s] \/ Delay(s) \in wake
                                \/ pc \in {"net", "delay"} /\ Delay(s) \in word
    BY <1>2 DEF SerialInv, DelayInv, RunStep
  <2>2. CASE s # active
    <3>1. sst'[s] = sst[s] /\ delay'[s] = delay[s]
      BY <1>1, <2>2 DEF Ran
    <3> QED
      BY <2>1, <2>2, <3>1 DEF RunStep
  <2>3. CASE s = active
    <3>1. CASE sst[s] \in Awaits /\ Delay(s) \notin evts
      BY <1>1, <2>1, <2>3, <3>1 DEF RanDelay, RunStep, Delay
    <3>2. CASE sst[s] \in Awaits /\ Delay(s) \in evts
      <4>1. sst'[s] \notin Awaits /\ delay'[s] = delay[s]
        BY <1>1, <2>3, <3>2 DEF RanDelay
      <4> QED
        BY <2>1, <2>3, <3>2, <4>1 DEF RunStep, Delay
    <3>3. CASE sst[s] \notin Awaits /\ sst'[s] \in Awaits
      <4>1. delay'[s] = TRUE /\ Delay(s) \notin wake
        BY <1>1, <2>1, <2>3, <3>3 DEF RanDelay
      <4> QED
        BY <2>1, <2>3, <3>3, <4>1 DEF RunStep
    <3>4. CASE sst[s] \notin Awaits /\ sst'[s] \notin Awaits
      <4>1. NoMix(evts)
        BY DEF RunStep, NoMix, SerialInv, AnswersInv
      <4>2. delay'[s] = delay[s]
        BY <1>1, <2>3, <3>4, <4>1 DEF RanDelay, NoMix
      <4> QED
        BY <2>1, <2>3, <3>4, <4>2 DEF RunStep
    <3> QED
      BY <3>1, <3>2, <3>3, <3>4
  <2> QED
    BY <2>2, <2>3
<1>7. ErrorInv'
  <2>1. \A a \in Apps : got[a] = {}
    BY <1>2 DEF SerialInv, CallsInv, ActiveInv, Waits
  <2>2. "COMPLETE" \in flags' => sst'[active] = "IDLE" /\ (failed' <=> "ERROR" \in flags')
    BY <1>1, <1>2 DEF Ran, SerialInv, ErrorInv
  <2>3. failed' => sst'[active] = "IDLE" /\ pc' # "open"
    BY <1>1, <1>2 DEF Ran, SerialInv, ErrorInv, RunStep
  <2>4. pc' \in {"openback", "post", "netback", "delayback"}
    BY DEF RunStep
  <2> QED
    BY <1>2, <2>1, <2>2, <2>3, <2>4 DEF ErrorInv, appVars
<1> QED
  BY <1>3, <1>4, <1>5, <1>6, <1>7 DEF SerialInv

\* The task that waits is told the end of its session, and no bit is left.
LEMMA EndTold ==
  ASSUME TypeOK, CallsInv, NEW a \in Apps, Waits(a),
         NEW v \in {"SUCCESS", "FAILED", "REQUEST"}, SetBits(Result(SesOf(a), v))
  PROVE  /\ bits' = {} /\ call' = call
         /\ got' = [got EXCEPT ![a] = Result(SesOf(a), v)]
<1>1. /\ Mask(a) \cap Result(SesOf(a), v) # {} /\ Result(SesOf(a), v) \ Mask(a) = {}
  BY DEF Result, SesOf, Mask, Apps
<1> DEFINE woken == {b \in Apps : call[b] # "none" /\ Mask(b) \cap (bits \cup Result(SesOf(a), v)) # {}
                                   /\ got[b] = {}}
<1>2. woken = {a}
  BY <1>1 DEF CallsInv, Waits
<1>3. got \in [Apps -> SUBSET {0, 1, 16}] /\ bits = {}
  BY DEF TypeOK, CallsInv
<1> QED
  BY <1>1, <1>2, <1>3 DEF SetBits

\* Every step keeps SerialInv, and no call is rejected.
LEMMA SerialStep ==
  ASSUME Serial, TypeOK, SerialInv, [Next]_vars
  PROVE  SerialInv'
<1> USE DEF netVars, sesVars, cmdVars, appVars
<1>0. /\ sst \in [Sessions -> States] /\ delay \in [Sessions -> BOOLEAN]
      /\ wake \in SUBSET WakeEvts /\ word \in SUBSET Words /\ active \in Sessions \cup {"NONE"}
      /\ call \in [Apps -> {"none", "ExecPing", "Send", "SendEx"}]
      /\ got \in [Apps -> SUBSET {0, 1, 16}] /\ cnotif \in SUBSET BackEvts
  BY DEF TypeOK, Words
<1>1. ASSUME Wait PROVE SerialInv'
  <2>1. CallsInv' /\ ErrorInv'
    BY <1>1 DEF SerialInv, CallsInv, ErrorInv, Wait, Net!Take
  <2>2. active = "NONE" => cnotif = {}
    BY DEF SerialInv, AnswersInv, IdleInv
  <2>3. "OPEN" \in wake => active = "NONE" /\ wake \subseteq {"OPEN", "FOR_ADM"}
    BY <1>0 DEF SerialInv, ActiveInv, IdleInv, OpenWord, Delay
  <2>4. AnswersInv'
    BY <1>0, <1>1, <2>2, <2>3 DEF SerialInv, AnswersInv, Wait, Net!Take, NoMix, WakeEvts, Dones, BackEvts
  <2>5. IdleInv' /\ ActiveInv'
    BY <1>0, <1>1, <2>2, <2>3 DEF SerialInv, IdleInv, ActiveInv, Wait, Net!Take, Waits, OpenWord, BackEvts
  <2>6. DelayInv'
    BY <1>0, <1>1 DEF SerialInv, DelayInv, Wait, Net!Take, Delay, BackEvts
  <2> QED
    BY <2>1, <2>4, <2>5, <2>6 DEF SerialInv
<1>2. ASSUME NoCall PROVE SerialInv'
  <2>1. CallsInv' /\ ErrorInv' /\ AnswersInv'
    BY <1>2 DEF SerialInv, CallsInv, ErrorInv, AnswersInv, NoCall
  <2>2. IdleInv' /\ ActiveInv'
    BY <1>2 DEF SerialInv, IdleInv, ActiveInv, NoCall, Waits, OpenWord
  <2>3. DelayInv'
    BY <1>2 DEF SerialInv, DelayInv, NoCall
  <2> QED
    BY <2>1, <2>2, <2>3 DEF SerialInv
<1>3. ~Rejected
  BY DEF Rejected, SerialInv, ActiveInv
<1>4. ASSUME Begin PROVE SerialInv'
  <2>1. PICK a \in Apps : Waits(a) /\ wake = {} /\ word = OpenWord(a)
    BY <1>4 DEF Begin, SerialInv, IdleInv
  <2>2. Opened = SesOf(a) /\ SesOf(a) \in Sessions
    BY <2>1 DEF Opened, OpenWord, SesOf, Sessions, Apps
  <2>3. \A b \in Apps : got[b] = {}
    BY <2>1 DEF SerialInv, CallsInv, Waits
  <2>4. CallsInv' /\ IdleInv'
    BY <1>4, <2>2 DEF SerialInv, CallsInv, IdleInv, Begin, Sessions
  <2>5. AnswersInv'
    BY <1>4 DEF SerialInv, AnswersInv, Begin, Net!Open
  <2>6. ActiveInv'
    BY <1>4, <2>1, <2>2 DEF SerialInv, ActiveInv, IdleInv, Begin, Waits
  <2>7. DelayInv'
    BY <1>4, <2>1 DEF SerialInv, DelayInv, IdleInv, Begin, Delay, OpenWord, Awaits, Sessions
  <2>8. ErrorInv'
    BY <1>4, <2>3 DEF SerialInv, ErrorInv, Begin
  <2> QED
    BY <2>4, <2>5, <2>6, <2>7, <2>8 DEF SerialInv
<1>5. ASSUME RunOpen PROVE SerialInv'
  <2>1. active \in Sessions /\ {"OPEN"} \in SUBSET Words
    BY <1>5 DEF RunOpen, Fsm, Sessions, Words, WakeEvts
  <2> QED
    BY <1>5, <2>1, RunSerial DEF RunOpen, RunStep
<1>6. ASSUME RunNet PROVE SerialInv'
  <2>1. active \in Sessions /\ "OPEN" \notin word
    BY <1>0, <1>6 DEF RunNet, SerialInv, AnswersInv, BackEvts
  <2> QED
    BY <1>0, <1>6, <2>1, RunSerial DEF RunNet, RunStep
<1>7. ASSUME NoNet PROVE SerialInv'
  <2>1. CallsInv' /\ ErrorInv' /\ AnswersInv'
    BY <1>7 DEF SerialInv, CallsInv, ErrorInv, AnswersInv, NoNet
  <2>2. IdleInv' /\ ActiveInv'
    BY <1>7 DEF SerialInv, IdleInv, ActiveInv, NoNet, Waits
  <2>3. DelayInv'
    BY <1>7 DEF SerialInv, DelayInv, NoNet
  <2> QED
    BY <2>1, <2>2, <2>3 DEF SerialInv
<1>8. ASSUME Post PROVE SerialInv'
  <2>1. CallsInv' /\ ErrorInv' /\ AnswersInv'
    BY <1>8 DEF SerialInv, CallsInv, ErrorInv, AnswersInv, Post
  <2>2. IdleInv' /\ ActiveInv'
    BY <1>8 DEF SerialInv, IdleInv, ActiveInv, Post, Waits
  <2>3. DelayInv'
    BY <1>8 DEF SerialInv, DelayInv, Post
  <2> QED
    BY <2>1, <2>2, <2>3 DEF SerialInv
<1>9. ASSUME RunDelay PROVE SerialInv'
  <2>1. DelayOf \in Sessions /\ Delay(DelayOf) \in word
    BY <1>9, DelayOfSession DEF RunDelay
  <2>2. DelayOf = active /\ active' = active
    BY <1>9, <2>1 DEF RunDelay, SerialInv, DelayInv
  <2>3. "OPEN" \notin word
    BY <2>1 DEF SerialInv, AnswersInv, Delay
  <2> QED
    BY <1>0, <1>9, <2>1, <2>2, <2>3, RunSerial DEF RunDelay, RunStep
<1>10. ASSUME NoDelay PROVE SerialInv'
  <2>1. CallsInv' /\ ErrorInv' /\ AnswersInv'
    BY <1>10 DEF SerialInv, CallsInv, ErrorInv, AnswersInv, NoDelay, NoMix
  <2>2. IdleInv' /\ ActiveInv'
    BY <1>10 DEF SerialInv, IdleInv, ActiveInv, NoDelay, Waits
  <2>3. DelayInv'
    BY <1>10 DEF SerialInv, DelayInv, IdleInv, NoDelay, Awaits, Sessions
  <2> QED
    BY <2>1, <2>2, <2>3 DEF SerialInv
<1>11. ASSUME Back, "COMPLETE" \notin flags PROVE SerialInv'
  <2>0. active # "NONE"
    BY <1>11 DEF Back, SerialInv, IdleInv
  <2>1. UNCHANGED <<netVars, active, appVars, wake, sst, delay, failed>> /\ flags' = {}
    BY <1>11 DEF Back, BckFlg
  <2>2. \/ pc = "openback" /\ pc' = "net" /\ word' = word
        \/ pc = "netback" /\ pc' = "delay" /\ word' = word
        \/ pc = "delayback" /\ pc' = "wait" /\ word' = {}
    BY <1>11 DEF Back
  <2>3. CallsInv' /\ ErrorInv' /\ AnswersInv'
    BY <2>1, <2>2 DEF SerialInv, CallsInv, ErrorInv, AnswersInv, NoMix
  <2>4. IdleInv' /\ ActiveInv'
    BY <2>0, <2>1, <2>2 DEF SerialInv, IdleInv, ActiveInv, Waits
  <2>5. DelayInv'
    BY <2>0, <2>1, <2>2 DEF SerialInv, DelayInv, Sessions
  <2> QED
    BY <2>3, <2>4, <2>5 DEF SerialInv
<1>12. ASSUME Back, "COMPLETE" \in flags PROVE SerialInv'
  <2>1. PICK a \in Apps : Waits(a) /\ SesOf(a) = active
    BY <1>12 DEF SerialInv, ErrorInv, ActiveInv
  <2>2. Value(flags) \in {"SUCCESS", "FAILED", "REQUEST"} /\ SetBits(Result(active, Value(flags)))
    BY <1>12 DEF Value, Back, BckFlg
  <2>3. /\ bits' = {} /\ call' = call
        /\ got' = [got EXCEPT ![a] = Result(SesOf(a), Value(flags))]
    BY <2>1, <2>2, EndTold DEF SerialInv
  <2>4. /\ UNCHANGED <<wake, sst, delay, failed>> /\ flags' = {} /\ active' = "NONE"
        /\ ~open' /\ req' = (IF open THEN "none" ELSE req) /\ cnotif' = cnotif
    BY <1>12 DEF Back, BckFlg, Net!Close
  <2>5. \/ pc = "openback" /\ pc' = "net" /\ word' = word
        \/ pc = "netback" /\ pc' = "delay" /\ word' = word
        \/ pc = "delayback" /\ pc' = "wait" /\ word' = {}
    BY <1>12 DEF Back
  <2>6. active # "NONE" /\ \A s \in Sessions : sst[s] = "IDLE" /\ ~delay[s] /\ Delay(s) \notin wake
    BY <1>0, <1>12 DEF SerialInv, ErrorInv, ActiveInv, DelayInv, Awaits
  <2>7. \A b \in Apps : b # a => call[b] = "none" /\ got[b] = {}
    BY <2>1 DEF SerialInv, CallsInv, Waits
  <2>8. got'[a] # {} /\ \A b \in Apps : b # a => got'[b] = {}
    <3>1. Result(SesOf(a), Value(flags)) # {}
      BY <2>2 DEF Result
    <3> QED
      BY <1>0, <2>3, <2>7, <3>1
  <2>9. CallsInv'
    BY <1>0, <2>1, <2>3, <2>7, <2>8 DEF SerialInv, CallsInv, Waits
  <2>10. AnswersInv'
    BY <1>12, <2>4, <2>5 DEF SerialInv, AnswersInv, NoMix
  <2>11. wake = {}
    BY <1>0, <2>6 DEF SerialInv, ActiveInv, Sessions
  <2>12. ActiveInv' /\ DelayInv'
    BY <2>4, <2>5, <2>6 DEF SerialInv, ActiveInv, DelayInv, Awaits
  <2>13. req' = "none"
    BY <2>4 DEF SerialInv, AnswersInv
  <2>14. IdleInv'
    <3>1. \A b \in Apps : ~Waits(b)'
      BY <2>3, <2>7, <2>8 DEF Waits
    <3> QED
      BY <2>4, <2>5, <2>6, <2>11, <3>1 DEF IdleInv
  <2>15. ErrorInv'
    <3>1. failed <=> "ERROR" \in flags
      BY <1>12 DEF SerialInv, ErrorInv
    <3>2. \/ "ERROR" \in flags /\ Value(flags) = "FAILED"
          \/ "ERROR" \notin flags /\ Value(flags) \in {"SUCCESS", "REQUEST"}
      BY DEF Value
    <3>3. got'[a] = Result(SesOf(a), Value(flags))
      BY <1>0, <2>3
    <3> QED
      BY <2>4, <2>8, <3>1, <3>2, <3>3 DEF ErrorInv, Result, SesOf
  <2> QED
    BY <2>9, <2>10, <2>12, <2>14, <2>15 DEF SerialInv
<1>13. ASSUME NEW evts \in SUBSET BackEvts, Deliver(evts) PROVE SerialInv'
  <2>1. /\ UNCHANGED <<wake, pc, word, active, sesVars, cmdVars, appVars, open>>
        /\ pc = "wait" /\ open /\ NoMix(cnotif')
    BY <1>13 DEF Deliver, Net!Deliver, Serial, NoMix, Dones
  <2>2. AnswersInv' /\ CallsInv' /\ ErrorInv' /\ DelayInv'
    BY <2>1 DEF SerialInv, AnswersInv, CallsInv, ErrorInv, DelayInv
  <2>3. IdleInv' /\ ActiveInv'
    BY <2>1 DEF SerialInv, IdleInv, ActiveInv, Waits
  <2> QED
    BY <2>2, <2>3 DEF SerialInv
<1>14. ASSUME Lose \/ UNCHANGED vars PROVE SerialInv'
  <2>1. UNCHANGED <<wake, pc, word, active, sesVars, cmdVars, appVars, open, req, cnotif>>
    BY <1>14 DEF Lose, Net!Lose, vars
  <2>2. AnswersInv' /\ CallsInv' /\ ErrorInv' /\ DelayInv'
    BY <2>1 DEF SerialInv, AnswersInv, CallsInv, ErrorInv, DelayInv
  <2>3. IdleInv' /\ ActiveInv'
    BY <2>1 DEF SerialInv, IdleInv, ActiveInv, Waits
  <2> QED
    BY <2>2, <2>3 DEF SerialInv
<1>15. ASSUME NEW s \in Sessions, DelayExpire(s) PROVE SerialInv'
  <2>1. active = s /\ active # "NONE" /\ sst[s] \in Awaits
    BY <1>15 DEF DelayExpire, SerialInv, DelayInv, Sessions
  <2>2. AnswersInv' /\ CallsInv' /\ ErrorInv' /\ IdleInv' /\ ActiveInv'
    BY <1>15, <2>1 DEF DelayExpire, SerialInv, AnswersInv, CallsInv, ErrorInv, IdleInv, ActiveInv, Waits
  <2>3. DelayInv'
    BY <1>0, <1>15, <2>1 DEF DelayExpire, SerialInv, DelayInv, Delay, Sessions
  <2> QED
    BY <2>2, <2>3 DEF SerialInv
<1>16. ASSUME NEW a \in Apps, NEW kind \in Calls(a), Call(a, kind) PROVE SerialInv'
  <2>1. /\ pc = "wait" /\ wake = {} /\ cnotif = {} /\ \A b \in Apps : call[b] = "none"
        /\ wake' = OpenWord(a) /\ cnotif' = {} /\ call' = [call EXCEPT ![a] = kind]
        /\ UNCHANGED <<open, req, pc, word, active, sesVars, cmdVars, bits, got>>
    BY <1>16 DEF Call, MayCall, Serial, OpenWord, Net!Take, SerialInv, CallsInv
  <2>2. active = "NONE"
    BY <2>1 DEF SerialInv, ActiveInv, Waits
  <2>3. \A b \in Apps : got[b] = {}
    BY <2>1 DEF SerialInv, CallsInv
  <2>4. call'[a] = kind /\ \A b \in Apps : b # a => call'[b] = "none"
    BY <1>0, <2>1
  <2>5. CallsInv'
    BY <2>1, <2>3, <2>4 DEF SerialInv, CallsInv
  <2>6. AnswersInv' /\ ErrorInv'
    BY <2>1, <2>3 DEF SerialInv, AnswersInv, ErrorInv, NoMix
  <2>7. kind # "none"
    BY DEF Calls
  <2>8. IdleInv'
    BY <2>1, <2>2, <2>3, <2>4, <2>7 DEF SerialInv, IdleInv, Waits
  <2>9. ActiveInv' /\ DelayInv'
    BY <2>1, <2>2 DEF SerialInv, IdleInv, ActiveInv, DelayInv, Delay, OpenWord, Awaits, Sessions
  <2> QED
    BY <2>5, <2>6, <2>8, <2>9 DEF SerialInv
<1>17. ASSUME NEW a \in Apps, Return(a) PROVE SerialInv'
  <2>1. /\ UNCHANGED <<netVars, wake, pc, word, active, sesVars, cmdVars, bits>>
        /\ got[a] # {} /\ got'[a] = {} /\ call'[a] = "none"
        /\ \A b \in Apps : b # a => call'[b] = call[b] /\ got'[b] = got[b]
    BY <1>0, <1>17 DEF Return
  <2>2. \A b \in Apps : Waits(b)' <=> Waits(b)
    BY <2>1 DEF Waits
  <2>3. CallsInv'
    BY <2>1 DEF SerialInv, CallsInv
  <2>4. AnswersInv' /\ ErrorInv' /\ DelayInv'
    BY <2>1 DEF SerialInv, AnswersInv, ErrorInv, DelayInv
  <2>5. IdleInv' /\ ActiveInv'
    BY <2>1, <2>2 DEF SerialInv, IdleInv, ActiveInv
  <2> QED
    BY <2>3, <2>4, <2>5 DEF SerialInv
<1> QED
  BY <1>1, <1>2, <1>3, <1>4, <1>5, <1>6, <1>7, <1>8, <1>9, <1>10, <1>11, <1>12, <1>13,
     <1>14, <1>15, <1>16, <1>17 DEF Next, Dispatcher

\* Everything is at rest at the start.
LEMMA InitSerial == Init => SerialInv
<1> SUFFICES ASSUME Init PROVE SerialInv
  OBVIOUS
<1>1. CallsInv /\ AnswersInv /\ IdleInv /\ ActiveInv
  BY DEF Init, Net!Init, CallsInv, AnswersInv, IdleInv, ActiveInv, NoMix, Waits
<1>2. DelayInv /\ ErrorInv
  BY DEF Init, DelayInv, ErrorInv, Awaits
<1> QED
  BY <1>1, <1>2 DEF SerialInv

\* SerialInv holds in every reachable state of a serial application.
LEMMA SerialAlways == Serial => (Spec => [](TypeOK /\ SerialInv))
<1> SUFFICES ASSUME Serial PROVE Spec => [](TypeOK /\ SerialInv)
  OBVIOUS
<1>1. TypeOK /\ SerialInv /\ [Next]_vars => (TypeOK /\ SerialInv)'
  BY TypeStep, SerialStep
<1> QED
  BY <1>1, InitOnce, InitSerial, PTL DEF Spec

\* With one task that makes one call at a time, a call finds no result of an
\* earlier one in the event group, on which it would return before its session
\* has begun (wize_api.c:132, :237).
THEOREM NoStaleResultAlways == Serial => (Spec => []NoStaleResult)
<1> SUFFICES ASSUME Serial PROVE Spec => []NoStaleResult
  OBVIOUS
<1>0. Spec => [](TypeOK /\ SerialInv)
  BY SerialAlways
<1>1. SerialInv => NoStaleResult
  BY DEF SerialInv, CallsInv, NoStaleResult
<1> QED
  BY <1>0, <1>1, PTL

\* A session is active for the task that waits, the other session is idle, and
\* the network manager is held for an active session only (ses_dispatcher.c:270, :530).
LEMMA SerialActive == SerialInv => ActiveForCaller
<1> SUFFICES ASSUME SerialInv PROVE ActiveForCaller
  OBVIOUS
<1>1. CASE active = "NONE"
  BY <1>1 DEF SerialInv, IdleInv, ActiveForCaller
<1>2. CASE active # "NONE"
  BY <1>2 DEF SerialInv, ActiveInv, Waits, ActiveForCaller
<1> QED
  BY <1>1, <1>2

\* A delay always runs for the active session, in a state that awaits it: "Event
\* from NetManager or TimerEvt Tmo => active session already exist"
\* (ses_dispatcher.c:307).
LEMMA SerialDelay == SerialInv => DelayHasSession
BY DEF SerialInv, DelayInv, DelayHasSession, Awaits

\* A task is told FAILED exactly when its session has met an error
\* (ses_dispatcher.c:505-533).
THEOREM FailedIffErrorAlways == Serial => (Spec => []FailedIffError)
<1> SUFFICES ASSUME Serial PROVE Spec => []FailedIffError
  OBVIOUS
<1>0. Spec => [](TypeOK /\ SerialInv)
  BY SerialAlways
<1>1. SerialInv => FailedIffError
  <2> SUFFICES ASSUME SerialInv, NEW a \in Apps, call[a] \in {"ExecPing", "SendEx"}, got[a] # {}
               PROVE  Outcome(call[a], got[a]) = "FAILED" <=> failed
    BY DEF FailedIffError
  <2>1. CASE a = "ping"
    <3>1. call[a] = "ExecPing"
      BY <2>1 DEF SerialInv, CallsInv, Calls
    <3>2. (got[a] = {1} /\ failed) \/ ((got[a] = {0} \/ got[a] = {0, 1}) /\ ~failed)
      <4>1. ErrorInv
        BY DEF SerialInv
      <4> QED
        BY <2>1, <4>1 DEF ErrorInv
    <3>3. {0} # {1} /\ {0, 1} # {1}
      <4>1. 0 \in {0} /\ 0 \in {0, 1} /\ 0 \notin {1}
        OBVIOUS
      <4> QED
        BY <4>1, Zenon
    <3> QED
      BY <3>1, <3>2, <3>3 DEF Outcome
  <2>2. CASE a = "data"
    <3>1. call[a] = "SendEx"
      BY <2>2 DEF SerialInv, CallsInv, Calls
    <3>2. (got[a] = {1, 16} /\ failed) \/ ((got[a] = {0, 16} \/ got[a] = {0, 1, 16}) /\ ~failed)
      <4>1. ErrorInv
        BY DEF SerialInv
      <4> QED
        BY <2>2, <4>1 DEF ErrorInv
    <3>3. {0, 16} # {1, 16} /\ {0, 1, 16} # {1, 16}
      <4>1. 0 \in {0, 16} /\ 0 \in {0, 1, 16} /\ 0 \notin {1, 16}
        OBVIOUS
      <4> QED
        BY <4>1, Zenon
    <3> QED
      BY <3>1, <3>2, <3>3 DEF Outcome
  <2> QED
    BY <2>1, <2>2 DEF Apps
<1> QED
  BY <1>0, <1>1, PTL

-----------------------------------------------------------------------------
(* With a network manager that accepts what it is asked when it is free.   *)

\* The session that is open and not done asks for something, and the answer is
\* on its way.
Answered(s) ==
  LET ends == Ends(Asked(s, sst[s]))
  IN  \/ req = Asked(s, sst[s])
      \/ ends \cap cnotif # {}
      \/ pc \in {"api", "net"} /\ ends \cap word # {}

RunsInv ==
  /\ pc = "open" => open /\ req = "none" /\ active # "NONE" /\ sst[active] = "IDLE"
  /\ active # "NONE" /\ pc # "open" /\ "COMPLETE" \notin flags =>
       /\ open /\ sst[active] # "IDLE"
       /\ sst[active] \in {"SENDING", "LISTENING"} => Answered(active)

\* A run of the active session keeps RunsInv.
LEMMA RunRuns ==
  ASSUME Serial, ~NetRefuses, TypeOK, SerialInv, RunsInv, active \in Sessions,
         NEW evts \in SUBSET Words, Fsm(active, evts),
         UNCHANGED <<wake, word, active, appVars>>, RunStep(evts)
  PROVE  RunsInv'
<1>1. Ran(active, evts) /\ RanRequest(active, evts)
  BY FsmTyped DEF RanAll
<1>2. pc' \notin {"open", "api", "net"} /\ active # "NONE" /\ cnotif = {} /\ cnotif' = {}
  BY <1>1 DEF RunStep, Sessions, SerialInv, AnswersInv, Ran
<1> SUFFICES ASSUME "COMPLETE" \notin flags'
             PROVE  /\ open' /\ sst'[active] # "IDLE"
                    /\ sst'[active] \in {"SENDING", "LISTENING"} => req' = Asked(active, sst'[active])
  BY <1>2 DEF RunsInv, Answered
<1>3. CASE pc = "open"
  <2>1. open /\ req = "none" /\ sst[active] = "IDLE" /\ evts = {"OPEN"}
    BY <1>3 DEF RunsInv, RunStep
  <2> QED
    BY <1>1, <2>1 DEF Ran, RanRequest
<1>4. CASE pc # "open"
  <2>1. "COMPLETE" \notin flags \/ pc = "open"
    BY <1>4 DEF RunStep, SerialInv, ErrorInv
  <2>2. /\ open /\ sst[active] # "IDLE"
        /\ sst[active] \in {"SENDING", "LISTENING"} => Answered(active)
    BY <1>2, <1>4, <2>1 DEF RunsInv
  <2>3. open' /\ sst'[active] # "IDLE"
    BY <1>1, <2>2 DEF Ran
  <2>4. ASSUME sst'[active] \in {"SENDING", "LISTENING"}, sst'[active] = sst[active], req' = req,
               evts \cap Ends(Asked(active, sst[active])) = {}
        PROVE  req' = Asked(active, sst'[active])
    <3>1. evts = word
      BY <1>4 DEF RunStep
    <3> QED
      BY <1>2, <2>2, <2>4, <3>1 DEF Answered
  <2> QED
    BY <1>1, <2>3, <2>4 DEF RanRequest
<1> QED
  BY <1>3, <1>4

\* Every step keeps RunsInv.
LEMMA RunsStep ==
  ASSUME Serial, ~NetRefuses, TypeOK, SerialInv, RunsInv, [Next]_vars
  PROVE  RunsInv'
<1> USE DEF netVars, sesVars, cmdVars, appVars
<1>0. \A s, st : Ends(Asked(s, st)) \subseteq BackEvts
  BY DEF Ends, Asked, BackEvts
<1>1. CASE Wait
  <2>1. cnotif # {} => cnotif \subseteq word'
    BY <1>1 DEF Wait
  <2>2. /\ pc = "wait" /\ pc' = "api" /\ word' = wake \cup cnotif /\ UNCHANGED <<open, req, active, sst, flags>>
    BY <1>1 DEF Wait, Net!Take
  <2> QED
    BY <2>1, <2>2 DEF RunsInv, Answered
<1>2. CASE NoCall
  BY <1>2 DEF NoCall, RunsInv, Answered
<1>3. CASE Rejected
  BY <1>3 DEF Rejected, SerialInv, ActiveInv
<1>4. CASE Begin
  <2>1. active = "NONE" /\ ~open /\ req = "none" /\ \A s \in Sessions : sst[s] = "IDLE"
    BY <1>4 DEF Begin, SerialInv, IdleInv, AnswersInv
  <2>2. Opened \in Sessions /\ Opened # "NONE"
    BY DEF Opened, Sessions
  <2> QED
    BY <1>4, <2>1, <2>2 DEF Begin, RunsInv, Net!Open
<1>5. CASE RunOpen
  <2>1. active \in Sessions /\ {"OPEN"} \in SUBSET Words
    BY <1>5 DEF RunOpen, Fsm, Sessions, Words, WakeEvts
  <2> QED
    BY <1>5, <2>1, RunRuns DEF RunOpen, RunStep
<1>6. CASE RunNet
  <2>1. active \in Sessions /\ "OPEN" \notin word /\ word \in SUBSET Words
    BY <1>6 DEF RunNet, SerialInv, AnswersInv, BackEvts, TypeOK, Words
  <2> QED
    BY <1>6, <2>1, RunRuns DEF RunNet, RunStep
<1>7. CASE NoNet
  <2>1. active # "NONE" => word \cap BackEvts = {}
    BY <1>7 DEF NoNet
  <2> QED
    BY <1>0, <1>7, <2>1 DEF NoNet, RunsInv, Answered
<1>8. CASE Post
  BY <1>8 DEF Post, RunsInv, Answered
<1>9. CASE RunDelay
  <2>1. DelayOf \in Sessions /\ Delay(DelayOf) \in word
    BY <1>9, DelayOfSession DEF RunDelay
  <2>2. DelayOf = active /\ active' = active
    BY <1>9, <2>1 DEF RunDelay, SerialInv, DelayInv
  <2>3. "OPEN" \notin word /\ word \in SUBSET Words
    BY <2>1 DEF SerialInv, AnswersInv, Delay, TypeOK, Words
  <2> QED
    BY <1>9, <2>1, <2>2, <2>3, RunRuns DEF RunDelay, RunStep
<1>10. CASE NoDelay
  <2>1. flags = {}
    BY <1>10 DEF NoDelay, SerialInv, ErrorInv
  <2> QED
    BY <1>10, <2>1 DEF NoDelay, RunsInv, Answered
<1>11. CASE Back
  <2>1. CASE "COMPLETE" \notin flags
    BY <1>11, <2>1 DEF Back, BckFlg, RunsInv, Answered
  <2>2. CASE "COMPLETE" \in flags
    BY <1>11, <2>2 DEF Back, BckFlg, RunsInv
  <2> QED
    BY <2>1, <2>2
<1>12. ASSUME NEW evts \in SUBSET BackEvts, Deliver(evts) PROVE RunsInv'
  <2>1. /\ UNCHANGED <<wake, pc, word, active, flags, sst, open>> /\ open /\ pc = "wait"
        /\ cnotif' = cnotif \cup evts
        /\ req' = IF req # "none" /\ evts \cap Ends(req) # {} THEN "none" ELSE req
    BY <1>12 DEF Deliver, Net!Deliver
  <2>2. \A s : Answered(s) => Answered(s)'
    BY <2>1 DEF Answered
  <2> QED
    BY <2>1, <2>2 DEF RunsInv
<1>13. CASE Lose \/ UNCHANGED vars
  BY <1>13 DEF Lose, Net!Lose, vars, RunsInv, Answered
<1>14. ASSUME NEW s \in Sessions, DelayExpire(s) PROVE RunsInv'
  BY <1>14 DEF DelayExpire, RunsInv, Answered
<1>15. ASSUME NEW a \in Apps, NEW kind \in Calls(a), Call(a, kind) PROVE RunsInv'
  <2>1. cnotif = {} /\ cnotif' = {} /\ UNCHANGED <<open, req, pc, word, active, sesVars>>
    BY <1>15 DEF Call, MayCall, Serial, Net!Take
  <2> QED
    BY <2>1 DEF RunsInv, Answered
<1>16. ASSUME NEW a \in Apps, Return(a) PROVE RunsInv'
  BY <1>16 DEF Return, RunsInv, Answered
<1> QED
  BY <1>1, <1>2, <1>3, <1>4, <1>5, <1>6, <1>7, <1>8, <1>9, <1>10, <1>11, <1>12, <1>13,
     <1>14, <1>15, <1>16 DEF Next, Dispatcher

\* While the dispatcher waits with nothing to read, the active session waits for
\* a delay that runs or a request that will be answered.
LEMMA RunsActive == TypeOK /\ SerialInv /\ RunsInv => ActiveRuns
<1> SUFFICES ASSUME TypeOK, SerialInv, RunsInv, pc = "wait", wake \cup cnotif = {}, active # "NONE"
             PROVE  \/ sst[active] \in Awaits /\ delay[active]
                    \/ sst[active] \in {"SENDING", "LISTENING"} /\ req # "none"
  BY DEF ActiveRuns, Awaits
<1>1. active \in Sessions /\ sst[active] \in States /\ wake = {} /\ cnotif = {}
  BY DEF TypeOK
<1>2. "COMPLETE" \notin flags
  BY DEF SerialInv, ErrorInv
<1>3. CASE sst[active] \in Awaits
  BY <1>1, <1>3 DEF SerialInv, DelayInv
<1>4. CASE sst[active] \notin Awaits
  <2>1. sst[active] \in {"SENDING", "LISTENING"} /\ Answered(active)
    BY <1>1, <1>2, <1>4 DEF RunsInv, States, Awaits
  <2> QED
    BY <1>1, <2>1 DEF Answered, Asked
<1> QED
  BY <1>3, <1>4

\* With one task that makes one call at a time, and a network manager that does
\* not refuse, a session never waits for something that is not on its way, it
\* runs for a task that waits, and its delays are its own.
THEOREM SesInvAlways == Serial /\ ~NetRefuses => (Spec => []SesInv)
<1> SUFFICES ASSUME Serial, ~NetRefuses PROVE Spec => []SesInv
  OBVIOUS
<1>1. Spec => [](TypeOK /\ SerialInv)
  BY SerialAlways
<1>2. Init => RunsInv
  BY DEF Init, Net!Init, RunsInv
<1>3. TypeOK /\ SerialInv /\ RunsInv /\ [Next]_vars => RunsInv'
  BY RunsStep
<1>4. TypeOK /\ SerialInv /\ RunsInv => SesInv
  BY SerialActive, SerialDelay, RunsActive DEF SesInv
<1> QED
  BY <1>1, <1>2, <1>3, <1>4, PTL DEF Spec
=============================================================================
