------------------------------ MODULE MCNetMgr ------------------------------
(***************************************************************************)
(* The network manager for TLC, with the retry loops of net_mgr.c (lines   *)
(* 789 to 923) written out: the sets Started and NotStarted are what they  *)
(* can end in.                                                             *)
(***************************************************************************)
EXTENDS NetMgr, Naturals

\* One attempt: WizeNet_Send or WizeNet_Listen on device d.
Attempt(d, mode) ==
  CASE d.st = "BUSY" -> {[status |-> "BUSY", dev |-> d]}
    [] d.st \in {"ERROR", "UNKNOWN"} -> {[status |-> "ERROR", dev |-> d]}
    [] d.st = "IDLE" ->
         {[status |-> "OK", dev |-> [d EXCEPT !.st = "BUSY", !.radio = mode]]}
         \cup {[status |-> "ERROR", dev |-> e] : e \in
                 PhyFaulty(d) \cup
                 IF ProtoFails /\ mode = "tx"
                   THEN {[d EXCEPT !.st = "ERROR", !.err = "PROTO"]} ELSE {}}

\* The radio is not stopped after an error of the PHY.
BugRecovered(d) == {Cleared(d)}

\* After a failed attempt: clear the error, and abort if it was the PHY's.
Recovered(d) == IF d.err = "PHY" THEN TryAbort(Cleared(d)) ELSE {Cleared(d)}

\* One attempt, and as many more as there are retries left.
RECURSIVE Loop(_, _, _)
Loop(d, mode, retries) ==
  UNION {CASE a.status = "OK"    -> {a}
           [] a.status = "BUSY"  -> {a}
           [] a.status = "ERROR" ->
                IF retries = 0
                  THEN {[a EXCEPT !.dev = e] : e \in Recovered(a.dev)}
                  ELSE UNION {Loop(e, mode, retries - 1) : e \in Recovered(a.dev)}
         : a \in Attempt(d, mode)}

\* The devices for which Started and NotStarted are what the three retries of
\* _NET_MGR_RECV_RETRIES_ and _NET_MGR_TRANS_RETRIES_ can end in.
Summarised ==
  {d \in Devices : \A mode \in {"tx", "rx"} :
     LET ends == Loop(d, mode, 3) IN
     /\ {a.dev : a \in {b \in ends : b.status = "OK"}} = Started(d, mode)
     /\ {a.dev : a \in {b \in ends : b.status # "OK"}} = NotStarted(d, mode)}

\* The loops _net_mgr_send_with_retry_ and _net_mgr_listen_with_retry_ succeed
\* and fail with exactly the devices that NetMgr's Started and NotStarted give,
\* whenever they are called: by a request, or to listen again after a frame.
RetriesSummarised ==
  /\ phase = "ready" /\ lock => dev \in Summarised
  /\ InFsmRx => Cleared(dev) \in Summarised
  /\ InFsmRx /\ (dev.st = "IDLE" \/ (pend /\ ltype = "MANY")) =>
       dev \in Summarised
=============================================================================
