------------------------------- MODULE NetConf -------------------------------
(***************************************************************************)
(* The configuration of the network device: what a session finds in the    *)
(* parameter table when it opens, what it hands over with NetMgr_Ioctl,    *)
(* and what the radio then works with, while the tasks and interrupts of   *)
(* NetMgr run.  A channel, a modulation, a length or an identifier is a    *)
(* number: 0 and 1 are legal, OutOfRange is what a range check refuses.    *)
(***************************************************************************)
EXTENDS NetMgr, Naturals

CONSTANTS
  Touched,    \* the parameters that are written and set while we look
  MaxWrites   \* how often they are written

Medium    == {"TxChannel", "TxModulation", "TxPower", "TxFreqOffset",
              "RxChannel", "RxModulation"}                  \* medium_cfg_s
ProtoConf == {"TransLenMax", "RecvLenMax", "NetId", "DwnId"} \* proto_config_s
Fields    == Medium \cup ProtoConf \cup {"DevId"}

\* The fields that have a parameter.  DwnId has none.
Parameters == (Medium \cup ProtoConf) \ {"DwnId"}

ASSUME TouchedAreParameters == Touched \subseteq Parameters
ASSUME MaxWritesIsNat == MaxWrites \in Nat

Values     == {0, 1}
OutOfRange == 2
Junk       == 3      \* what the stack held

\* The channels and modulations asked for: a link, and two that are refused
\* before and after the channel has been changed.
Links == {<<1, 1>>, <<OutOfRange, 1>>, <<1, OutOfRange>>}

VARIABLES
  par,     \* the parameter table
  writes,  \* how often it has been written
  conf,    \* sMediumCfg, sProtoConfig and the device identifier
  asked,   \* the configuration the session relies on
  ses,     \* "EXCH": an administration or installation session; "DWN"
  step     \* where the session is: "medium" and "proto" are to be configured,
           \* "tuned": its downlink is set, "again": a window has expired

confVars == <<par, writes, conf, asked, ses, step>>

Nothing == [f \in Fields |-> 0]

InitC ==
  /\ Init
  /\ par = [f \in Parameters |-> 0] /\ writes = 0
  /\ conf = Nothing /\ asked = Nothing
  /\ ses = "none" /\ step = "none"

-----------------------------------------------------------------------------
(* WizeNet_Ioctl and the calls of the network manager around it.           *)

\* _check_idle_state.
Idle(d) == d.st = "IDLE"

\* NETDEV_CTL_SET_...: the five that index a table of the PHY are checked.
Ranged == {"TxChannel", "TxModulation", "TxPower", "RxChannel", "RxModulation"}
Accepts(f, v) == f \in Ranged => v # OutOfRange

\* NETDEV_CTL_SET_DWLINK_MOD written as a copy of NETDEV_CTL_SET_UPLINK_MOD.
BugSet(f, v) ==
  IF ~Accepts(f, v) THEN conf
  ELSE [conf EXCEPT ![IF f = "RxModulation" THEN "TxModulation" ELSE f] = v]

Set(f, v) == IF Accepts(f, v) THEN [conf EXCEPT ![f] = v] ELSE conf

\* NETDEV_CTL_CFG_MEDIUM and NETDEV_CTL_CFG_PROTO: copied, not checked.
Cfg(fields, arg) == [f \in Fields |-> IF f \in fields THEN arg[f] ELSE conf[f]]

\* The caller owns the manager, gets hLock and finds the device idle.  hLock is
\* given back at once.
Acquired == open /\ lock /\ Idle(dev)

\* NetMgr_Ioctl with one of the SET controls.  The session relies on what it
\* was told to be done.
Ioctl(f, v) ==
  IF Acquired
    THEN /\ conf' = Set(f, v)
         /\ asked' = IF Accepts(f, v) THEN [asked EXCEPT ![f] = v] ELSE asked
    ELSE UNCHANGED <<conf, asked>>

\* NetMgr_SetUplink and NetMgr_SetDwlink.  The modulation is set only after the
\* channel; if it is refused then the channel has changed.
LinkDone(v, w) == Acquired /\ v # OutOfRange /\ w # OutOfRange

SetLink(ch, v, mod, w) ==
  IF ~Acquired THEN UNCHANGED <<conf, asked>>
  ELSE /\ conf' = IF ~Accepts(ch, v) THEN conf
                  ELSE [Set(mod, w) EXCEPT ![ch] = v]
       /\ asked' = IF LinkDone(v, w)
                     THEN [asked EXCEPT ![ch] = v, ![mod] = w] ELSE asked

-----------------------------------------------------------------------------
(* The session.  After Open it configures the device; what the two calls   *)
(* return is not looked at.                                                *)

OpenSession ==
  /\ Open
  /\ \/ open' /\ ses' \in {"EXCH", "DWN"} /\ step' = "medium"
     \/ ~open' /\ UNCHANGED <<ses, step>>
  /\ UNCHANGED <<par, writes, conf, asked>>

\* _ses_disp_get_param_: what the table holds, and of the stack for DwnId.
Given == [f \in Fields |-> IF f \in Parameters THEN par[f] ELSE Junk]

Configure(now, next, fields) ==
  /\ step = now /\ step' = next
  /\ conf' = IF Acquired THEN Cfg(fields, Given) ELSE conf
  /\ asked' = [f \in Fields |-> IF f \in fields THEN Given[f] ELSE asked[f]]
  /\ UNCHANGED <<vars, par, writes, ses>>

CfgMedium == Configure("medium", "proto", Medium)
CfgProto  == Configure("proto", "run", ProtoConf)

\* An exchange sends and listens with what it has configured.
Exchange ==
  /\ ses = "EXCH" /\ step = "run"
  /\ Send \/ \E kind \in {"DETECT", "MANY"} : Listen(kind)
  /\ UNCHANGED confVars

\* A download window: NetMgr_SetDwlink with what was announced, and NetMgr_Listen
\* if that has succeeded.
Tune(v, w) ==
  /\ ses = "DWN" /\ step = "run" /\ phase = "ready" /\ cnotif = {}
  /\ SetLink("RxChannel", v, "RxModulation", w)
  /\ step' = IF LinkDone(v, w) THEN "tuned" ELSE "failed"
  /\ UNCHANGED <<vars, par, writes, ses>>

Window ==
  /\ ses = "DWN" /\ step = "tuned"
  /\ Listen("ONE")
  /\ step' = "run"
  /\ UNCHANGED <<par, writes, conf, asked, ses>>

\* The window expires without a frame; the next one begins seconds later.
Heard ==
  /\ Take
  /\ step' = IF ses = "DWN" /\ phase = "busy" /\ phase' = "done"
               /\ "ERROR" \notin cnotif THEN "again" ELSE step
  /\ UNCHANGED <<par, writes, conf, asked, ses>>

NextWindow ==
  /\ step = "again" /\ phase = "done" /\ Quiescent
  /\ step' = "run" /\ phase' = "ready"
  /\ UNCHANGED <<dev, timer, lock, notif, taskVars, ltype, open, reading, cnotif,
                 req, unread, sent, par, writes, conf, asked, ses>>

CloseSession ==
  /\ step \in {"run", "tuned", "failed", "again"}
  /\ Close
  /\ ses' = "none" /\ step' = "none" /\ asked' = Nothing
  /\ UNCHANGED <<par, writes, conf>>

\* The other calls of the interface, between two requests.
SetField(f, v) ==
  /\ step = "run" /\ ses = "EXCH" /\ phase = "ready" /\ ~reading
  /\ Ioctl(f, v)
  /\ UNCHANGED <<vars, par, writes, ses, step>>

SetUplink(v, w) ==
  /\ step = "run" /\ ses = "EXCH" /\ phase = "ready" /\ ~reading
  /\ SetLink("TxChannel", v, "TxModulation", w)
  /\ step' = IF LinkDone(v, w) THEN step ELSE "failed"
  /\ UNCHANGED <<vars, par, writes, ses>>

\* A parameter is written, by the application or by a command that this very
\* session has received.
WriteParam(f, v) ==
  /\ writes < MaxWrites /\ step \in {"none", "run", "failed", "again"}
  /\ v # par[f]
  /\ par' = [par EXCEPT ![f] = v] /\ writes' = writes + 1
  /\ UNCHANGED <<vars, conf, asked, ses, step>>

-----------------------------------------------------------------------------
Session ==
  \/ OpenSession \/ CloseSession \/ CfgMedium \/ CfgProto
  \/ Exchange \/ Window \/ NextWindow \/ Heard
  \/ \E l \in Links : Tune(l[1], l[2]) \/ SetUplink(l[1], l[2])
  \/ \E f \in Touched, v \in {1, OutOfRange} : SetField(f, v)
  \/ \E f \in Touched, v \in Values : WriteParam(f, v)

NextC ==
  \/ (Task \/ Interrupt \/ Arm \/ ListenReady) /\ UNCHANGED confVars
  \/ Session

SpecC == InitC /\ [][NextC]_<<vars, confVars>>

-----------------------------------------------------------------------------
(* Properties.                                                             *)

\* While the radio works for a request it works with the configuration that the
\* session in charge relies on: the parameters as they were when it opened, and
\* the link it has set since, never what an earlier session has left
\* (ses_dispatcher.c:684, net_mgr.c:272).
OnAirAsAsked == req # "none" /\ dev.radio # "off" => conf = asked

\* In an exchange the message buffer is not written while the session still
\* holds the message in it, whatever errors the radio reports (net_mgr.c:632).
NoOverwrite ==
  [][ses = "EXCH" /\ unread => ~(FsmRxMatch \/ FsmRxPass \/ FsmRxFail)]_<<vars, confVars>>
==============================================================================
