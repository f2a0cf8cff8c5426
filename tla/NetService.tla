----------------------------- MODULE NetService -----------------------------
(***************************************************************************)
(* What the network manager promises the task that owns it, as the         *)
(* sessions use it (mgr/include/net_mgr.h): requests are taken one at a    *)
(* time; the answer comes as words of events, and a word that holds an     *)
(* event ending the request ends it.  Words may still come after the end,  *)
(* but SEND_DONE comes at most once for a frame handed over, never for an  *)
(* earlier one, and RECV_DONE only after a listen.                         *)
(* NetMgr implements it; SesDisp is built on it.                           *)
(***************************************************************************)
CONSTANTS BackEvts,       \* the events of a word
          Requests,       \* the kinds of requests, "SEND" among them
          Ends(_)         \* the events that end a request of that kind

VARIABLES open,    \* the manager has an owner
          req,     \* the request to be answered, or "none"
          last,    \* the kind of the last request made
          owed,    \* a SEND_DONE may still come
          cnotif   \* the owner's notification word

serviceVars == <<open, req, last, owed, cnotif>>

Init == /\ open = FALSE /\ req = "none" /\ last = "SEND"
        /\ owed = FALSE /\ cnotif = {}

\* The radio is stopped: nothing of the previous owner's comes any more.
Open == /\ ~open /\ cnotif = {}
        /\ open' = TRUE /\ owed' = FALSE
        /\ UNCHANGED <<req, last, cnotif>>

\* A request in progress is given up.
Close == /\ open
         /\ open' = FALSE /\ req' = "none"
         /\ owed' \in {owed, FALSE}
         /\ UNCHANGED <<last, cnotif>>

Accept(kind) ==
  /\ open /\ req = "none" /\ cnotif = {} /\ ~owed
  /\ req' = kind /\ last' = kind
  /\ owed' = (kind = "SEND")
  /\ UNCHANGED <<open, cnotif>>

\* The request function returns an error; a request in progress is untouched.
Refuse(kind) ==
  /\ last' \in IF open /\ req = "none" THEN {last, kind} ELSE {last}
  /\ UNCHANGED <<open, req, owed, cnotif>>

\* The request function reports an error although the radio has started.
Withdraw == /\ req' = "none"
            /\ owed' \in {owed, FALSE}
            /\ UNCHANGED <<open, last, cnotif>>

\* The radio is stopped: the frame is not sent any more.
Lose == /\ owed /\ owed' = FALSE
        /\ UNCHANGED <<open, req, last, cnotif>>

Deliver(word) ==
  /\ "SEND_DONE" \in word => owed
  /\ "RECV_DONE" \in word => last # "SEND"
  /\ owed' = (owed /\ "SEND_DONE" \notin word)
  /\ IF open
       THEN /\ cnotif' = cnotif \cup word
            /\ req' = IF req # "none" /\ word \cap Ends(req) # {}
                        THEN "none" ELSE req
       ELSE UNCHANGED <<cnotif, req>>
  /\ UNCHANGED <<open, last>>

Take == /\ cnotif' = {}
        /\ UNCHANGED <<open, req, last, owed>>

Next == \/ Open \/ Close \/ Withdraw \/ Lose \/ Take
        \/ \E kind \in Requests : Accept(kind) \/ Refuse(kind)
        \/ \E word \in SUBSET BackEvts : Deliver(word)

Spec == Init /\ [][Next]_serviceVars
=============================================================================
