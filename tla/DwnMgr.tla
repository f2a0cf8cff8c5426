-------------------------------- MODULE DwnMgr --------------------------------
(***************************************************************************)
(* The session that receives a software image (mgr/src/dwn_mgr.c).  A      *)
(* campaign has a window for a block every Delta seconds from its start,   *)
(* some blocks a day, on the first day and on as many days after it as it  *)
(* is repeated.  An absolute timer waits for a day, a periodic one paces   *)
(* the windows of that day.  The dispatcher calls the state machine with   *)
(* the events of the network manager and of the timer.                     *)
(*                                                                         *)
(* The timer is what TimeEvt promises of one timer.  The application that  *)
(* takes a block and returns the buffer is not part of this code.          *)
(*                                                                         *)
(* A definition named Bug... is the next definition with a mistake in it,  *)
(* used to see that a property can fail.  Nothing else refers to it.       *)
(***************************************************************************)
EXTENDS Integers

CONSTANTS
  Day,           \* seconds in a day
  Campaigns,     \* what ADM_ANNDOWNLOAD can set
  InitDelayMin,  \* u32InitDelayMin: u8ExchRespDelay + 1
  NetFails,      \* whether the network manager can refuse or report an error
  MaxTime        \* bound on the time

ASSUME DwnConstants ==
  /\ Day \in Nat \ {0} /\ InitDelayMin \in Nat \ {0} /\ NetFails \in BOOLEAN
  /\ MaxTime \in Nat
  /\ Campaigns \subseteq [start : Nat, repeat : Nat, delta : Nat \ {0}, blocks : Nat \ {0}]
  /\ \A c \in Campaigns : c.repeat < 256 /\ c.delta < 256 /\ c.blocks < 65536

VARIABLES
  time,      \* the epoch
  state,     \* eState
  timer,     \* sTimeEvt: its configuration and when it expires
  evts,      \* the events the dispatcher's task has not taken yet
  camp,      \* u32DaysProg, u8DayRepeat, u8DeltaSec, u16BlocksCount
  dayNext,   \* _u32DayNext
  blocks,    \* _u16BlocksCount
  days,      \* _u8DayCount
  pending,   \* u8Pending
  flags,     \* what the last call has returned
  net,       \* the network manager listens for the session
  windows,   \* (history) windows since the start of the day they belong to
  erred      \* (history) an error of the network manager has ended a window

vars == <<time, state, timer, evts, camp, dayNext, blocks, days, pending, flags, net,
          windows, erred>>

Expired == "DWN_DELAY_EXPIRED"
NetEvts == {"RECV_DONE", "TIMEOUT", "ERROR"}
Off     == [cfg |-> "off", at |-> 0]
Running == {"WAITING", "WAITING_RX_DELAY", "LISTENING"}

Absolute(t) == [cfg |-> "ABSOLUTE", at |-> t]
Periodic    == [cfg |-> "PERIODIC", at |-> time + camp.delta]

-----------------------------------------------------------------------------
\* DwnMgr_Setup, then _dwn_mgr_ini_.
Init ==
  /\ time = 0 /\ state = "IDLE" /\ timer = Off /\ evts = {}
  /\ camp \in Campaigns
  /\ dayNext = 0 /\ blocks = 0 /\ days = 0 /\ pending = FALSE
  /\ flags = {} /\ net = FALSE /\ windows = 0 /\ erred = FALSE

Ceil(n, d) == (n + d - 1) \div d

\* _dwn_mgr_adjustInit_ of a campaign that has begun: the days and the blocks that
\* are gone; when no block is left today, the day that comes.
Late   == time > camp.start
Passed == IF Late THEN ((time - camp.start) \div Day) % 256 ELSE 0
Today  == camp.start + Passed * Day
Gone   == IF Late THEN Ceil(time - Today, camp.delta) % 65536 ELSE 0
Over   == Gone >= camp.blocks

\* The day that is next, the days after it, the delay of its first window, the
\* blocks left.  A window too near to prepare for is skipped.
FirstDay == IF Over THEN Today + Day ELSE Today
DaysLeft == IF Over THEN camp.repeat - Passed - 1 ELSE camp.repeat - Passed
FirstIn  == IF time > FirstDay THEN camp.delta - ((time - FirstDay) % camp.delta) ELSE 0
Skip     == FirstIn < InitDelayMin
Offset   == IF Skip THEN FirstIn + camp.delta ELSE FirstIn
Blocks   == LET now == IF Over THEN camp.blocks ELSE camp.blocks - Gone
            IN  IF Skip THEN (now + 65535) % 65536 ELSE now

\* Open only if a window is left.
WindowLeft == Late => camp.repeat > Passed /\ (Over => camp.repeat > Passed + 1)

\* Returns without a session: COMPLETE, with ERROR when the first window is past.
\* The counters are left as they may be: the next OPEN sets them anew.
OpenNot ==
  /\ \/ ~WindowLeft /\ flags' = {"COMPLETE"} /\ UNCHANGED timer
     \/ /\ WindowLeft /\ FirstDay + Offset <= time
        /\ flags' = {"COMPLETE", "ERROR"} /\ timer' = Off
  /\ UNCHANGED <<state, dayNext, blocks, days>>

\* SES_EVT_OPEN in IDLE.
Open ==
  /\ state = "IDLE" /\ evts = {}
  /\ erred' = FALSE
  /\ \/ OpenNot /\ UNCHANGED windows
     \/ /\ WindowLeft /\ FirstDay + Offset > time
        /\ dayNext' = FirstDay /\ blocks' = Blocks /\ days' = DaysLeft
        /\ timer' = Absolute(FirstDay + Offset)
        /\ state' = "WAITING" /\ flags' = {}
        /\ windows' = 0
  /\ UNCHANGED <<time, evts, camp, pending, net>>

\* SES_EVT_CLOSE; the dispatcher then closes the network manager.
Close ==
  /\ state \in Running
  /\ timer' = Off /\ state' = "IDLE" /\ flags' = {"COMPLETE"} /\ net' = FALSE
  /\ UNCHANGED <<time, evts, camp, dayNext, blocks, days, pending, windows, erred>>

\* SES_EVT_DWN_READY: the application returns the buffer, in any state.
Ready ==
  /\ pending /\ pending' = FALSE
  /\ UNCHANGED <<time, state, timer, evts, camp, dayNext, blocks, days, flags, net,
                 windows, erred>>

\* _ses_disp_postCmd_ for ADM_ANNDOWNLOAD, in the time of another session.
Announced ==
  /\ state = "IDLE" /\ camp' \in Campaigns
  /\ UNCHANGED <<time, state, timer, evts, dayNext, blocks, days, pending, flags, net,
                 windows, erred>>

\* The timer is not started anew.
BugPace == timer

\* The timer of a call that waits for the day becomes the one of its windows.
Pace == IF state = "WAITING" THEN Periodic ELSE timer
Paced == "WAITING_RX_DELAY"

\* The window is not counted.
BugBlocksLeft == blocks

BlocksLeft == blocks - 1

BlocksToday == blocks > 0

\* There are blocks left today: a window, unless the network manager refuses.
Window ==
  /\ BlocksToday /\ blocks' = BlocksLeft
  /\ timer' = Pace
  /\ windows' = windows + 1
  /\ \/ state' = "LISTENING" /\ flags' = {} /\ net' = TRUE
     \/ NetFails /\ state' = Paced /\ flags' = {"ERROR"} /\ UNCHANGED net
     \/ NetFails /\ state' = "IDLE" /\ flags' = {"ERROR", "COMPLETE"} /\ net' = FALSE
  /\ UNCHANGED <<dayNext, days>>

\* The blocks of a new day.
BlocksAnew == camp.blocks

DayAfter == dayNext + Day

\* No block left today, but days.  The next day is past when the windows take
\* longer than a day.
NextDay ==
  /\ blocks = 0 /\ days > 0
  /\ days' = days - 1 /\ dayNext' = DayAfter /\ blocks' = BlocksAnew
  /\ windows' = 0
  /\ IF DayAfter > time
     THEN timer' = Absolute(DayAfter) /\ state' = "WAITING" /\ flags' = {}
     ELSE timer' = Off /\ state' = "IDLE" /\ flags' = {"ERROR", "COMPLETE"}
  /\ UNCHANGED net

\* The session is done.
Done ==
  /\ blocks = 0 /\ days = 0
  /\ timer' = Off /\ state' = "IDLE" /\ flags' = {"SUCCESS", "COMPLETE"}
  /\ UNCHANGED <<dayNext, blocks, days, net, windows>>

\* DELAY_EXPIRED in WAITING or WAITING_RX_DELAY; in another state nothing happens
\* and the window is lost.
DelayExpired ==
  /\ evts = {Expired} /\ evts' = {}
  /\ \/ state \in {"WAITING", "WAITING_RX_DELAY"} /\ (Window \/ NextDay \/ Done)
     \/ /\ state \notin {"WAITING", "WAITING_RX_DELAY"} /\ flags' = {}
        /\ UNCHANGED <<state, timer, dayNext, blocks, days, net, windows>>
  /\ UNCHANGED <<time, camp, pending, erred>>

\* The state is left as it is.
BugHeard == state

\* After a window the session waits for the next.
Heard == "WAITING_RX_DELAY"

\* The events of the network manager.  They go to the session before the one of
\* the timer that came with them.  An error is no event of this state machine.
NetEvent ==
  /\ evts \cap NetEvts # {} /\ evts' = evts \ NetEvts
  /\ IF state = "LISTENING"
     THEN /\ state' = IF evts \cap {"RECV_DONE", "TIMEOUT"} # {} THEN Heard ELSE state
          /\ pending' = (pending \/ "RECV_DONE" \in evts)
          /\ flags' = (IF "RECV_DONE" \in evts /\ ~pending THEN {"BLK_RECV"} ELSE {})
                      \cup (evts \cap {"TIMEOUT"})
          /\ erred' = (erred \/ evts \cap NetEvts = {"ERROR"})
     ELSE UNCHANGED <<state, pending, erred>> /\ flags' = {}
  /\ UNCHANGED <<time, timer, camp, dayNext, blocks, days, net, windows>>

\* The network manager's answer to NetMgr_Listen(NET_LISTEN_TYPE_ONE).
NetAnswer(e) ==
  /\ net /\ net' = FALSE
  /\ e = "ERROR" => NetFails
  /\ evts' = evts \cup {e}
  /\ UNCHANGED <<time, state, timer, camp, dayNext, blocks, days, pending, flags, windows,
                 erred>>

\* A second, with the expiry at its end.  The tasks keep up, and the network
\* manager, which listens for a second (u8DownRxLength), answers within it.
Tick ==
  /\ evts = {} /\ ~net /\ time < MaxTime
  /\ time' = time + 1
  /\ LET over == timer.cfg # "off" /\ timer.at = time + 1 IN
     /\ evts' = IF over THEN {Expired} ELSE {}
     /\ timer' = IF ~over THEN timer
                 ELSE IF timer.cfg = "PERIODIC" THEN [timer EXCEPT !.at = @ + camp.delta]
                 ELSE Off
  /\ UNCHANGED <<state, camp, dayNext, blocks, days, pending, flags, net, windows, erred>>

Next ==
  \/ Announced \/ Open \/ Close \/ Ready \/ DelayExpired \/ NetEvent \/ Tick
  \/ \E e \in NetEvts : NetAnswer(e)

\* The tasks run, time passes, and the network manager answers.
Fairness ==
  /\ WF_vars(DelayExpired) /\ WF_vars(NetEvent) /\ WF_vars(Tick)
  /\ WF_vars(\E e \in NetEvts : NetAnswer(e))

Spec == Init /\ [][Next]_vars /\ Fairness

-----------------------------------------------------------------------------
\* The counters keep to the width the code gives them.
Counted ==
  /\ time \in 0..MaxTime
  /\ state \in {"IDLE"} \cup Running
  /\ timer \in [cfg : {"off", "ABSOLUTE", "PERIODIC"}, at : Nat]
  /\ evts \subseteq {Expired} \cup NetEvts
  /\ camp \in Campaigns
  /\ dayNext \in Nat /\ windows \in Nat
  /\ blocks \in Nat /\ blocks < 65536 /\ days \in Nat /\ days < 256
  /\ flags \subseteq {"COMPLETE", "ERROR", "SUCCESS", "BLK_RECV", "TIMEOUT"}

Marks == pending \in BOOLEAN /\ net \in BOOLEAN /\ erred \in BOOLEAN

TypeOK == Counted /\ Marks

\* A session that is open has a timer that runs, or its expiry: there is
\* no state in which it waits for nothing but the end.
NeverStuck == state \in Running => timer.cfg # "off" \/ Expired \in evts

\* A window opens on a day of the campaign, within the time of its blocks,
\* and no day has more windows than blocks, whenever the session has been
\* opened and whatever has been lost (_dwn_mgr_adjustInit_).
WindowsInCampaign ==
  [][Window =>
       /\ windows < camp.blocks
       /\ time - dayNext \in 0..(camp.blocks * camp.delta)
       /\ \E d \in 0..camp.repeat : dayNext = camp.start + d * Day]_vars

\* A session that is open comes to its end with the campaign, unless an
\* error of the network manager has left it in a window, where the timer's
\* expiry is not looked at.
Ends == state \in Running ~> state = "IDLE" \/ erred

\* The types, and that the session is never left without a timer.
DwnInv == TypeOK /\ NeverStuck
=============================================================================
