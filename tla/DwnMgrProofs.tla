----------------------------- MODULE DwnMgrProofs -----------------------------
(***************************************************************************)
(* A session that is open is never left without a timer, and its windows   *)
(* lie in the campaign, for every campaign, day and start-up delay.        *)
(* NeverStuck alone is not inductive: the expiry of a window leaves the    *)
(* timer as it is, which must then be the periodic one (Timed).  For the   *)
(* windows, InDays and OnTime say how much of the campaign and of the day  *)
(* the counters still stand for.                                           *)
(***************************************************************************)
EXTENDS DwnMgr, TLAPS

\* Between the windows of a day and in a window the periodic timer runs; before a
\* day the absolute one does, or it has just expired.
Timed ==
  /\ state \in {"IDLE"} \cup Running
  /\ state \in {"WAITING_RX_DELAY", "LISTENING"} => timer.cfg = "PERIODIC"
  /\ state = "WAITING" => timer.cfg = "ABSOLUTE" \/ Expired \in evts

\* What an opening, an expiry and the passing of time do to the timer.
LEMMA OpenTimed == Timed /\ Open => Timed'
<1>1. CASE OpenNot
  BY <1>1 DEF Open, OpenNot, Timed, Running
<1>2. CASE /\ state' = "WAITING"
           /\ timer' = Absolute(FirstDay + Offset)
  BY <1>2 DEF Timed, Absolute, Running
<1> QED BY <1>1, <1>2 DEF Open

LEMMA ExpiryTimed == Timed /\ DelayExpired => Timed'
<1> SUFFICES ASSUME Timed, DelayExpired PROVE Timed'
  OBVIOUS
<1>1. CASE state \in {"WAITING", "WAITING_RX_DELAY"} /\ Window
  <2>1. timer'.cfg = "PERIODIC"
    <3>1. CASE state = "WAITING"
      BY <1>1, <3>1 DEF Window, Pace, Periodic
    <3>2. CASE state = "WAITING_RX_DELAY"
      BY <1>1, <3>2 DEF Window, Pace, Timed
    <3> QED BY <1>1, <3>1, <3>2
  <2> QED BY <1>1, <2>1 DEF Window, Paced, Timed, Running
<1>2. CASE NextDay
  BY <1>2 DEF NextDay, Timed, Absolute, Running
<1>3. CASE Done
  BY <1>3 DEF Done, Timed, Running
<1>4. CASE state \notin {"WAITING", "WAITING_RX_DELAY"} /\ UNCHANGED <<state, timer>>
  BY <1>4 DEF Timed, Running
<1> QED BY <1>1, <1>2, <1>3, <1>4 DEF DelayExpired

LEMMA TickTimed == Timed /\ Tick => Timed'
  BY DEF Tick, Timed, Running, Off

LEMMA StepTimed == Timed /\ [Next]_vars => Timed'
<1> SUFFICES ASSUME Timed, [Next]_vars PROVE Timed'
  OBVIOUS
<1>1. CASE Announced
  BY <1>1 DEF Announced, Timed
<1>2. CASE Open
  BY <1>2, OpenTimed
<1>3. CASE Close
  BY <1>3 DEF Close, Timed, Running
<1>4. CASE Ready
  BY <1>4 DEF Ready, Timed
<1>5. CASE DelayExpired
  BY <1>5, ExpiryTimed
<1>6. CASE NetEvent
  BY <1>6 DEF NetEvent, Timed, NetEvts, Expired, Heard, Running
<1>7. CASE Tick
  BY <1>7, TickTimed
<1>8. CASE \E e \in NetEvts : NetAnswer(e)
  BY <1>8 DEF NetAnswer, Timed
<1>9. CASE UNCHANGED vars
  BY <1>9 DEF vars, Timed
<1> QED BY <1>1, <1>2, <1>3, <1>4, <1>5, <1>6, <1>7, <1>8, <1>9 DEF Next

-----------------------------------------------------------------------------
\* What _dwn_mgr_adjustInit_ gives a session that opens fits its counters.
LEMMA AdjustedFits ==
  ASSUME Counted, WindowLeft
  PROVE  /\ FirstDay \in Nat /\ Offset \in Nat
         /\ Blocks \in Nat /\ Blocks < 65536
         /\ DaysLeft \in Nat /\ DaysLeft < 256
<1>1. /\ time \in Nat /\ camp.start \in Nat /\ camp.repeat \in Nat /\ camp.repeat < 256
      /\ camp.delta \in Nat \ {0} /\ camp.blocks \in Nat \ {0} /\ camp.blocks < 65536
      /\ Day \in Nat \ {0} /\ InitDelayMin \in Nat \ {0}
  BY DwnConstants DEF Counted, DwnConstants
<1>2. Passed \in Nat /\ Passed < 256 /\ (~Late => Passed = 0)
  <2>1. (time - camp.start) \div Day \in Int
    BY <1>1
  <2> QED BY <2>1 DEF Passed
<1>3. Today \in Nat
  <2>1. Passed * Day \in Nat
    BY <1>1, <1>2
  <2> QED BY <1>1, <2>1 DEF Today
<1>4. Gone \in Nat /\ Gone < 65536 /\ (~Late => Gone = 0)
  <2>1. Ceil(time - Today, camp.delta) \in Int
    BY <1>1, <1>3 DEF Ceil
  <2> QED BY <2>1 DEF Gone
<1>5. FirstDay \in Nat
  BY <1>1, <1>3 DEF FirstDay
<1>6. FirstIn \in Nat
  <2>1. time > FirstDay => (time - FirstDay) % camp.delta \in 0..(camp.delta - 1)
    BY <1>1, <1>5
  <2> QED BY <1>1, <2>1 DEF FirstIn
<1>7. Offset \in Nat
  BY <1>1, <1>6 DEF Offset
<1>8. Blocks \in Nat /\ Blocks < 65536
  BY <1>1, <1>4 DEF Blocks, Over
<1>9. DaysLeft \in Nat /\ DaysLeft < 256
  BY <1>1, <1>2, <1>4 DEF DaysLeft, Over, WindowLeft
<1> QED BY <1>5, <1>7, <1>8, <1>9

LEMMA StepCounted == Counted /\ [Next]_vars => Counted'
<1> SUFFICES ASSUME Counted, [Next]_vars PROVE Counted'
  OBVIOUS
<1> USE DEF Counted, Running
<1>0. camp.delta \in Nat /\ camp.blocks \in Nat /\ camp.blocks < 65536 /\ Day \in Nat
  BY DwnConstants DEF DwnConstants
<1>1. CASE Announced
  BY <1>1 DEF Announced
<1>2. CASE Open
  <2>1. CASE OpenNot /\ UNCHANGED windows
    BY <1>2, <2>1 DEF Open, OpenNot, Off
  <2>2. CASE WindowLeft
    BY <1>2, <2>1, <2>2, AdjustedFits DEF Open, Absolute
  <2> QED BY <1>2, <2>1, <2>2 DEF Open
<1>3. CASE Close
  BY <1>3 DEF Close, Off
<1>4. CASE Ready
  BY <1>4 DEF Ready
<1>5. CASE DelayExpired
  <2>1. CASE Window
    BY <1>0, <1>5, <2>1 DEF DelayExpired, Window, BlocksToday, BlocksLeft, Pace, Periodic, Paced
  <2>2. CASE NextDay
    BY <1>0, <1>5, <2>2 DEF DelayExpired, NextDay, DayAfter, BlocksAnew, Absolute, Off
  <2>3. CASE Done
    BY <1>5, <2>3 DEF DelayExpired, Done, Off
  <2>4. CASE flags' = {} /\ UNCHANGED <<state, timer, dayNext, blocks, days, net, windows>>
    BY <1>5, <2>4 DEF DelayExpired
  <2> QED BY <1>5, <2>1, <2>2, <2>3, <2>4 DEF DelayExpired
<1>6. CASE NetEvent
  BY <1>6 DEF NetEvent, NetEvts, Heard
<1>7. CASE Tick
  <2>1. timer' \in [cfg : {"off", "ABSOLUTE", "PERIODIC"}, at : Nat]
    BY <1>0, <1>7 DEF Tick, Off
  <2>2. time' \in 0..MaxTime
    BY <1>7, DwnConstants DEF Tick, DwnConstants
  <2> QED BY <1>7, <2>1, <2>2 DEF Tick
<1>8. CASE \E e \in NetEvts : NetAnswer(e)
  BY <1>8 DEF NetAnswer
<1>9. CASE UNCHANGED vars
  BY <1>9 DEF vars
<1> QED BY <1>1, <1>2, <1>3, <1>4, <1>5, <1>6, <1>7, <1>8, <1>9 DEF Next

LEMMA StepMarks == Marks /\ [Next]_vars => Marks'
<1> SUFFICES ASSUME Marks, [Next]_vars PROVE Marks'
  OBVIOUS
<1> USE DEF Marks
<1>1. CASE Announced
  BY <1>1 DEF Announced
<1>2. CASE Open
  BY <1>2 DEF Open
<1>3. CASE Close
  BY <1>3 DEF Close
<1>4. CASE Ready
  BY <1>4 DEF Ready
<1>5. CASE DelayExpired
  <2>1. net' \in BOOLEAN
    BY <1>5 DEF DelayExpired, Window, NextDay, Done
  <2> QED BY <1>5, <2>1 DEF DelayExpired
<1>6. CASE NetEvent
  <2>1. pending' \in BOOLEAN /\ erred' \in BOOLEAN
    BY <1>6 DEF NetEvent
  <2> QED BY <1>6, <2>1 DEF NetEvent
<1>7. CASE Tick
  BY <1>7 DEF Tick
<1>8. CASE \E e \in NetEvts : NetAnswer(e)
  BY <1>8 DEF NetAnswer
<1>9. CASE UNCHANGED vars
  BY <1>9 DEF vars
<1> QED BY <1>1, <1>2, <1>3, <1>4, <1>5, <1>6, <1>7, <1>8, <1>9 DEF Next

\* A session that waits, for a day or for a window, or that is in a window has a
\* timer that runs, or its expiry before it, and its counters keep to their width
\* (dwn_mgr.c).
THEOREM DwnInvAlways == Spec => []DwnInv
<1>1. Init => Timed /\ Counted /\ Marks
  <2>1. Init => Timed
    BY DEF Init, Timed, Running
  <2>2. Init => Counted
    BY DwnConstants DEF DwnConstants, Init, Counted, Running, Off
  <2>3. Init => Marks
    BY DEF Init, Marks
  <2> QED BY <2>1, <2>2, <2>3
<1>2. Timed /\ Counted /\ Marks => DwnInv
  BY DEF Timed, DwnInv, TypeOK, NeverStuck, Running
<1> QED BY <1>1, <1>2, StepTimed, StepCounted, StepMarks, PTL DEF Spec

-----------------------------------------------------------------------------
(* The windows.                                                            *)

\* Events come one at a time, and the network manager only listens in a window.
OneEvent ==
  /\ net => state = "LISTENING" /\ evts = {}
  /\ evts = {} \/ \E e \in {Expired} \cup NetEvts : evts = {e}

\* When the timer expires, or has expired; the states in which an expiry may open
\* a window (an error leaves the session in LISTENING for good).
Due   == IF Expired \in evts THEN time ELSE timer.at
Paces == \/ state \in {"WAITING", "WAITING_RX_DELAY"}
         \/ state = "LISTENING" /\ (net \/ evts \cap NetEvts # {})

\* The day a session is in, and how many windows are left of it.
InDays ==
  state \in Running =>
    /\ windows + blocks <= camp.blocks
    /\ days <= camp.repeat /\ dayNext = camp.start + (camp.repeat - days) * Day

\* The next window is no later than the blocks that are left of the day allow.
OnTime ==
  Paces =>
    /\ Due - dayNext \in 0..((camp.blocks - blocks + 1) * camp.delta)
    /\ state # "WAITING" /\ Expired \in evts => timer.at = time + camp.delta

CampInv == Timed /\ Counted /\ Marks /\ OneEvent /\ InDays /\ OnTime

LEMMA OneMore == \A n, d \in Int : (n + 1) * d = n * d + d
OBVIOUS

LEMMA NoMore == \A n, m, d \in Nat : n <= m => n * d <= m * d
<1> SUFFICES ASSUME NEW n \in Nat, NEW m \in Nat, NEW d \in Nat, n <= m
             PROVE  n * d <= m * d
  OBVIOUS
<1>1. m * d = n * d + (m - n) * d
  OBVIOUS
<1>2. (m - n) * d \in Nat
  OBVIOUS
<1>3. n * d \in Nat /\ m * d \in Nat
  OBVIOUS
<1> QED BY <1>1, <1>2, <1>3

\* The constants of a campaign.
LEMMA CampFacts ==
  ASSUME Counted
  PROVE  /\ camp.start \in Nat /\ camp.repeat \in Nat /\ camp.repeat < 256
         /\ camp.delta \in Nat \ {0} /\ camp.blocks \in Nat \ {0}
         /\ Day \in Nat \ {0} /\ time \in Nat /\ timer.at \in Nat
         /\ dayNext \in Nat /\ windows \in Nat /\ blocks \in Nat /\ days \in Nat
BY DwnConstants DEF Counted, DwnConstants

LEMMA StepOneEvent == Timed /\ OneEvent /\ Marks /\ [Next]_vars => OneEvent'
<1> SUFFICES ASSUME Timed, OneEvent, Marks, [Next]_vars PROVE OneEvent'
  OBVIOUS
<1> USE DEF OneEvent
<1>1. CASE Announced
  BY <1>1 DEF Announced
<1>2. CASE Open
  BY <1>2 DEF Open, OpenNot, Timed
<1>3. CASE Close
  BY <1>3 DEF Close
<1>4. CASE Ready
  BY <1>4 DEF Ready
<1>5. CASE DelayExpired
  <2>1. ~net
    BY <1>5 DEF DelayExpired
  <2>2. CASE Window
    BY <1>5, <2>1, <2>2 DEF DelayExpired, Window
  <2>3. CASE UNCHANGED net
    BY <1>5, <2>1, <2>3 DEF DelayExpired
  <2> QED BY <1>5, <2>2, <2>3 DEF DelayExpired, NextDay, Done
<1>6. CASE NetEvent
  <2>1. ~net
    BY <1>6 DEF NetEvent
  <2>2. evts' = {}
    BY <1>6 DEF NetEvent, NetEvts, Expired
  <2> QED BY <1>6, <2>1, <2>2 DEF NetEvent
<1>7. CASE Tick
  BY <1>7 DEF Tick
<1>8. CASE \E e \in NetEvts : NetAnswer(e)
  BY <1>8 DEF NetAnswer
<1>9. CASE UNCHANGED vars
  BY <1>9 DEF vars
<1> QED BY <1>1, <1>2, <1>3, <1>4, <1>5, <1>6, <1>7, <1>8, <1>9 DEF Next

\* A session opens on a day of its campaign; a delay to its first window that is
\* longer than it might be has cost it a block.
LEMMA AdjustedInCampaign ==
  ASSUME Counted, WindowLeft
  PROVE  /\ Blocks <= camp.blocks
         /\ DaysLeft <= camp.repeat /\ FirstDay = camp.start + (camp.repeat - DaysLeft) * Day
         /\ Offset \in 0..((camp.blocks - Blocks + 1) * camp.delta)
<1>0. /\ camp.start \in Nat /\ camp.repeat \in Nat /\ camp.delta \in Nat \ {0}
      /\ camp.blocks \in Nat \ {0} /\ camp.blocks < 65536
      /\ Day \in Nat \ {0} /\ time \in Nat /\ InitDelayMin \in Nat \ {0}
  BY CampFacts, DwnConstants DEF DwnConstants, Counted
<1>1. Passed \in Nat /\ (~Late => Passed = 0)
  <2>1. (time - camp.start) \div Day \in Int
    BY <1>0
  <2> QED BY <2>1 DEF Passed
<1>2. Gone \in Nat /\ (~Late => Gone = 0)
  <2>1. Passed * Day \in Nat
    BY <1>0, <1>1
  <2>2. Ceil(time - Today, camp.delta) \in Int
    BY <1>0, <2>1 DEF Ceil, Today
  <2> QED BY <2>2 DEF Gone
<1>3. /\ DaysLeft <= camp.repeat
      /\ FirstDay = camp.start + (camp.repeat - DaysLeft) * Day
  <2>1. CASE Over
    <3>1. camp.repeat - DaysLeft = Passed + 1
      BY <1>0, <1>1, <2>1 DEF DaysLeft
    <3>2. FirstDay = camp.start + Passed * Day + Day
      BY <2>1 DEF FirstDay, Today
    <3>3. (Passed + 1) * Day = Passed * Day + Day
      BY <1>0, <1>1
    <3>4. Passed * Day \in Nat
      BY <1>0, <1>1
    <3>5. DaysLeft <= camp.repeat
      BY <1>0, <1>1, <2>1 DEF DaysLeft
    <3> QED BY <1>0, <3>1, <3>2, <3>3, <3>4, <3>5
  <2>2. CASE ~Over
    <3>1. camp.repeat - DaysLeft = Passed
      BY <1>0, <1>1, <2>2 DEF DaysLeft
    <3>2. FirstDay = camp.start + Passed * Day
      BY <2>2 DEF FirstDay, Today
    <3>3. DaysLeft <= camp.repeat
      BY <1>0, <1>1, <2>2 DEF DaysLeft
    <3> QED BY <3>1, <3>2, <3>3
  <2> QED BY <2>1, <2>2
<1>4. FirstIn \in 0..camp.delta
  <2>1. FirstDay \in Nat
    BY AdjustedFits
  <2>2. time > FirstDay => (time - FirstDay) % camp.delta \in 0..(camp.delta - 1)
    BY <1>0, <2>1
  <2> QED BY <1>0, <2>2 DEF FirstIn
<1>5. CASE Skip
  <2>1. Blocks \in Nat /\ Blocks <= camp.blocks - 1
    BY <1>0, <1>2, <1>5 DEF Blocks, Over
  <2>2. Offset \in Nat /\ Offset <= 2 * camp.delta
    BY <1>0, <1>4, <1>5 DEF Offset
  <2>3. 2 * camp.delta <= (camp.blocks - Blocks + 1) * camp.delta
    <3>1. camp.blocks - Blocks + 1 \in Nat /\ 2 <= camp.blocks - Blocks + 1
      BY <1>0, <2>1
    <3> QED BY <1>0, <3>1, NoMore
  <2>4. (camp.blocks - Blocks + 1) * camp.delta \in Nat
    BY <1>0, <2>1
  <2>5. Offset \in 0..((camp.blocks - Blocks + 1) * camp.delta)
    BY <1>0, <2>2, <2>3, <2>4
  <2> QED BY <1>0, <1>3, <2>1, <2>5
<1>6. CASE ~Skip
  <2>1. Blocks \in Nat /\ Blocks <= camp.blocks
    BY <1>0, <1>2, <1>6 DEF Blocks, Over
  <2>2. Offset \in 0..camp.delta
    BY <1>4, <1>6 DEF Offset
  <2>3. 1 * camp.delta <= (camp.blocks - Blocks + 1) * camp.delta
    <3>1. camp.blocks - Blocks + 1 \in Nat /\ 1 <= camp.blocks - Blocks + 1
      BY <1>0, <2>1
    <3> QED BY <1>0, <3>1, NoMore
  <2>4. (camp.blocks - Blocks + 1) * camp.delta \in Nat
    BY <1>0, <2>1
  <2>5. Offset \in 0..((camp.blocks - Blocks + 1) * camp.delta)
    BY <1>0, <2>2, <2>3, <2>4
  <2> QED BY <1>3, <2>1, <2>5
<1> QED BY <1>5, <1>6

LEMMA StepInDays == Timed /\ Counted /\ InDays /\ [Next]_vars => InDays'
<1> SUFFICES ASSUME Timed, Counted, InDays, [Next]_vars PROVE InDays'
  OBVIOUS
<1>0. /\ camp.start \in Nat /\ camp.repeat \in Nat /\ camp.blocks \in Nat /\ Day \in Nat
      /\ windows \in Nat /\ blocks \in Nat /\ days \in Nat /\ dayNext \in Nat
  BY CampFacts
<1>1. CASE Announced
  BY <1>1 DEF Announced, InDays, Running
<1>2. CASE Open
  <2>1. CASE OpenNot /\ UNCHANGED windows
    BY <1>2, <2>1 DEF Open, OpenNot, InDays, Running
  <2>2. CASE WindowLeft /\ dayNext' = FirstDay /\ blocks' = Blocks /\ days' = DaysLeft
             /\ windows' = 0
    <3>1. Blocks \in Nat
      BY <2>2, AdjustedFits
    <3>2. camp' = camp
      BY <1>2 DEF Open
    <3> QED BY <1>0, <2>2, <3>1, <3>2, AdjustedInCampaign DEF InDays
  <2> QED BY <1>2, <2>1, <2>2 DEF Open
<1>3. CASE Close
  BY <1>3 DEF Close, InDays, Running
<1>4. CASE Ready
  BY <1>4 DEF Ready, InDays
<1>5. CASE DelayExpired
  <2>0. camp' = camp
    BY <1>5 DEF DelayExpired
  <2>1. CASE state \in Running /\ Window
    BY <1>0, <2>0, <2>1 DEF Window, BlocksLeft, BlocksToday, InDays
  <2>2. CASE state \in Running /\ NextDay
    <3>1. /\ days' = days - 1 /\ dayNext' = dayNext + Day /\ blocks' = camp.blocks
          /\ windows' = 0 /\ days > 0
      BY <2>2 DEF NextDay, DayAfter, BlocksAnew
    <3>2. (camp.repeat - (days - 1)) * Day = (camp.repeat - days) * Day + Day
      <4>1. camp.repeat - days \in Int /\ camp.repeat - (days - 1) = (camp.repeat - days) + 1
        BY <1>0
      <4> QED BY <1>0, <4>1, OneMore
    <3>3. days <= camp.repeat /\ dayNext = camp.start + (camp.repeat - days) * Day
      BY <2>2 DEF InDays
    <3>4. (camp.repeat - days) * Day \in Int
      BY <1>0
    <3>5. dayNext' = camp.start + (camp.repeat - days') * Day
      BY <1>0, <3>1, <3>2, <3>3, <3>4
    <3> QED BY <1>0, <2>0, <3>1, <3>3, <3>5 DEF InDays
  <2>3. CASE Done
    BY <2>3 DEF Done, InDays, Running
  <2>4. CASE UNCHANGED <<state, timer, dayNext, blocks, days, net, windows>>
    BY <2>0, <2>4 DEF InDays
  <2> QED BY <1>5, <2>1, <2>2, <2>3, <2>4 DEF DelayExpired, Running
<1>6. CASE NetEvent
  <2>1. state' \in Running => state \in Running
    BY <1>6 DEF NetEvent, Running, Heard
  <2> QED BY <1>6, <2>1 DEF NetEvent, InDays
<1>7. CASE Tick
  BY <1>7 DEF Tick, InDays
<1>8. CASE \E e \in NetEvts : NetAnswer(e)
  BY <1>8 DEF NetAnswer, InDays
<1>9. CASE UNCHANGED vars
  BY <1>9 DEF vars, InDays
<1> QED BY <1>1, <1>2, <1>3, <1>4, <1>5, <1>6, <1>7, <1>8, <1>9 DEF Next

\* A window that opens now leaves the next one in its time.
LEMMA WindowOnTime ==
  ASSUME CampInv, DelayExpired, Window, state \in {"WAITING", "WAITING_RX_DELAY"}
  PROVE  OnTime'
<1>0. /\ camp.delta \in Nat \ {0} /\ camp.blocks \in Nat /\ time \in Nat
      /\ dayNext \in Nat /\ blocks \in Nat
  BY CampFacts DEF CampInv
<1>1. time - dayNext \in 0..((camp.blocks - blocks + 1) * camp.delta)
  BY DEF CampInv, OnTime, Paces, Due, DelayExpired
<1>2. timer'.at = time + camp.delta
  <2>1. CASE state = "WAITING"
    BY <2>1 DEF Window, Pace, Periodic
  <2>2. CASE state = "WAITING_RX_DELAY"
    BY <2>2 DEF CampInv, OnTime, Paces, DelayExpired, Window, Pace
  <2> QED BY <2>1, <2>2
<1>3. blocks' = blocks - 1 /\ evts' = {} /\ UNCHANGED <<time, camp, dayNext>>
  BY DEF Window, BlocksLeft, DelayExpired
<1>4. camp' = camp /\ dayNext' = dayNext /\ time' = time
  BY <1>3
<1>5. (camp.blocks - (blocks - 1) + 1) * camp.delta
        = (camp.blocks - blocks + 1) * camp.delta + camp.delta
  <2>1. camp.blocks - blocks + 1 \in Int
        /\ camp.blocks - (blocks - 1) + 1 = (camp.blocks - blocks + 1) + 1
    BY <1>0
  <2> QED BY <1>0, <2>1, OneMore
<1>6. (camp.blocks - blocks + 1) * camp.delta \in Int
  BY <1>0
<1>7. time + camp.delta - dayNext \in 0..((camp.blocks - (blocks - 1) + 1) * camp.delta)
  BY <1>0, <1>1, <1>5, <1>6
<1>8. Due' = time + camp.delta /\ Expired \notin evts'
  BY <1>2, <1>3 DEF Due
<1>9. Due' - dayNext' \in 0..((camp'.blocks - blocks' + 1) * camp'.delta)
  <2>1. (camp'.blocks - blocks' + 1) * camp'.delta
          = (camp.blocks - (blocks - 1) + 1) * camp.delta
    BY <1>3, <1>4
  <2>2. Due' - dayNext' = time + camp.delta - dayNext
    BY <1>0, <1>8, <1>4
  <2> QED BY <1>7, <2>1, <2>2, Zenon
<1> QED BY <1>8, <1>9 DEF OnTime

LEMMA StepOnTime == CampInv /\ [Next]_vars => OnTime'
<1> SUFFICES ASSUME CampInv, [Next]_vars PROVE OnTime'
  OBVIOUS
<1>0. /\ camp.start \in Nat /\ camp.repeat \in Nat /\ camp.delta \in Nat \ {0}
      /\ camp.blocks \in Nat \ {0} /\ Day \in Nat \ {0} /\ time \in Nat
      /\ timer.at \in Nat /\ dayNext \in Nat
  BY CampFacts DEF CampInv
<1>1. CASE Announced
  BY <1>1 DEF Announced, OnTime, Paces
<1>2. CASE Open
  <2>1. CASE OpenNot /\ UNCHANGED windows
    BY <1>2, <2>1 DEF Open, OpenNot, OnTime, Paces
  <2>2. CASE /\ WindowLeft /\ dayNext' = FirstDay /\ blocks' = Blocks
             /\ timer' = Absolute(FirstDay + Offset)
             /\ state' = "WAITING"
    <3>1. FirstDay \in Nat /\ Offset \in Nat
      BY <2>2, AdjustedFits DEF CampInv
    <3>2. timer'.at - dayNext' = Offset
      BY <2>2, <3>1 DEF Absolute
    <3>3. evts' = {} /\ camp' = camp
      BY <1>2 DEF Open
    <3>4. Offset \in 0..((camp.blocks - Blocks + 1) * camp.delta)
      BY <2>2, AdjustedInCampaign DEF CampInv
    <3> QED BY <2>2, <3>2, <3>3, <3>4 DEF OnTime, Due
  <2> QED BY <1>2, <2>1, <2>2 DEF Open
<1>3. CASE Close
  BY <1>3 DEF Close, OnTime, Paces
<1>4. CASE Ready
  BY <1>4 DEF Ready, CampInv, OnTime, Paces, Due
<1>5. CASE DelayExpired
  <2>1. CASE state \in {"WAITING", "WAITING_RX_DELAY"} /\ Window
    BY <1>5, <2>1, WindowOnTime
  <2>2. CASE NextDay
    <3>1. dayNext' = dayNext + Day /\ blocks' = camp.blocks /\ evts' = {} /\ camp' = camp
      BY <1>5, <2>2 DEF NextDay, DayAfter, BlocksAnew, DelayExpired
    <3>2. (camp.blocks - camp.blocks + 1) * camp.delta = camp.delta
      BY <1>0
    <3>3. CASE state' = "WAITING" /\ timer' = Absolute(dayNext + Day)
      <4>1. timer'.at = dayNext + Day
        BY <3>3 DEF Absolute
      <4>2. timer'.at - dayNext' \in 0..camp.delta
        BY <1>0, <3>1, <4>1
      <4> QED BY <3>1, <3>2, <3>3, <4>2 DEF OnTime, Due
    <3>4. CASE state' = "IDLE"
      BY <3>4 DEF OnTime, Paces
    <3> QED BY <2>2, <3>3, <3>4 DEF NextDay, DayAfter
  <2>3. CASE Done
    BY <2>3 DEF Done, OnTime, Paces
  <2>4. CASE state \notin {"WAITING", "WAITING_RX_DELAY"} /\ UNCHANGED <<state, net>>
    <3>1. evts = {Expired} /\ evts' = {}
      BY <1>5 DEF DelayExpired
    <3>2. ~net
      BY <3>1 DEF CampInv, OneEvent
    <3> QED BY <2>4, <3>1, <3>2 DEF OnTime, Paces
  <2> QED BY <1>5, <2>1, <2>2, <2>3, <2>4 DEF DelayExpired
<1>6. CASE NetEvent
  <2>1. Expired \notin evts /\ evts' = {} /\ net = FALSE
    BY <1>6 DEF NetEvent, CampInv, OneEvent, Marks, NetEvts, Expired
  <2>2. UNCHANGED <<time, timer, camp, dayNext, blocks, net>>
    BY <1>6 DEF NetEvent
  <2>3. Paces' => Paces
    BY <1>6, <2>1, <2>2 DEF NetEvent, Paces, Heard
  <2> QED BY <2>1, <2>2, <2>3 DEF CampInv, OnTime, Due
<1>7. CASE Tick
  <2>1. evts = {} /\ net = FALSE /\ UNCHANGED <<state, camp, dayNext, blocks, net>>
        /\ time' = time + 1
    BY <1>7 DEF Tick, CampInv, Marks
  <2>2. CASE timer.cfg # "off" /\ timer.at = time + 1
    <3>1. evts' = {Expired}
      BY <1>7, <2>2 DEF Tick
    <3>2. Due' = Due
      BY <2>1, <2>2, <3>1 DEF Due
    <3>3. Paces' => Paces
      BY <2>1, <3>1 DEF Paces, NetEvts, Expired
    <3>4. timer.cfg = "PERIODIC" => timer'.at = time' + camp'.delta
      <4>1. timer.cfg = "PERIODIC" => timer' = [timer EXCEPT !.at = @ + camp.delta]
        BY <1>7, <2>2 DEF Tick
      <4>2. timer \in [cfg : {"off", "ABSOLUTE", "PERIODIC"}, at : Nat]
        BY DEF CampInv, Counted
      <4> QED BY <1>0, <2>1, <2>2, <4>1, <4>2
    <3>5. Paces' /\ state' # "WAITING" => timer.cfg = "PERIODIC"
      BY <2>1, <3>3 DEF Paces, CampInv, Timed
    <3> QED BY <2>1, <3>2, <3>3, <3>4, <3>5 DEF CampInv, OnTime
  <2>3. CASE ~(timer.cfg # "off" /\ timer.at = time + 1)
    <3>1. evts' = {} /\ timer' = timer
      BY <1>7, <2>3 DEF Tick
    <3> QED BY <2>1, <3>1 DEF CampInv, OnTime, Paces, Due
  <2> QED BY <2>2, <2>3
<1>8. CASE \E e \in NetEvts : NetAnswer(e)
  <2>1. PICK e \in NetEvts : NetAnswer(e)
    BY <1>8
  <2>2. net /\ evts = {} /\ state = "LISTENING" /\ evts' = {e} /\ e # Expired
    BY <2>1 DEF NetAnswer, CampInv, OneEvent, NetEvts, Expired
  <2>3. UNCHANGED <<time, state, timer, camp, dayNext, blocks>>
    BY <2>1 DEF NetAnswer
  <2> QED BY <2>2, <2>3 DEF CampInv, OnTime, Paces, Due
<1>9. CASE UNCHANGED vars
  BY <1>9 DEF vars, CampInv, OnTime, Paces, Due
<1> QED BY <1>1, <1>2, <1>3, <1>4, <1>5, <1>6, <1>7, <1>8, <1>9 DEF Next

\* Only the expiry of a delay counts a window.
LEMMA WindowByExpiry ==
  ASSUME CampInv, Next, Window
  PROVE  DelayExpired /\ state \in {"WAITING", "WAITING_RX_DELAY"}
<1>0. windows \in Nat /\ windows' = windows + 1
  BY CampFacts DEF CampInv, Window
<1>1. windows' # windows /\ windows' # 0
  BY <1>0
<1>2. DelayExpired
  <2> SUFFICES ASSUME ~DelayExpired PROVE FALSE
    OBVIOUS
  <2> QED BY <1>1 DEF Next, Announced, Open, Close, Ready, NetEvent, Tick, NetAnswer
<1> QED BY <1>1, <1>2 DEF DelayExpired

\* A window opens on a day of the campaign, within the time of its blocks, and no
\* day has more windows than blocks, however late the session is opened and
\* whatever windows are refused or lost (_dwn_mgr_adjustInit_, dwn_mgr.c:286, :345).
THEOREM WindowsInCampaignAlways == Spec => WindowsInCampaign
<1>1. Init => CampInv
  <2>1. Init => Timed /\ OneEvent /\ InDays /\ OnTime
    BY DEF Init, Timed, OneEvent, InDays, OnTime, Paces, Running
  <2>2. Init => Counted
    BY DwnConstants DEF DwnConstants, Init, Counted, Running, Off
  <2>3. Init => Marks
    BY DEF Init, Marks
  <2> QED BY <2>1, <2>2, <2>3 DEF CampInv
<1>2. CampInv /\ [Next]_vars => CampInv'
  BY StepTimed, StepCounted, StepMarks, StepOneEvent, StepInDays, StepOnTime DEF CampInv
<1>3. CampInv /\ [Next]_vars =>
        [Window => /\ windows < camp.blocks
                   /\ time - dayNext \in 0..(camp.blocks * camp.delta)
                   /\ \E d \in 0..camp.repeat : dayNext = camp.start + d * Day]_vars
  <2> SUFFICES ASSUME CampInv, Next, Window
               PROVE  /\ windows < camp.blocks
                      /\ time - dayNext \in 0..(camp.blocks * camp.delta)
                      /\ \E d \in 0..camp.repeat : dayNext = camp.start + d * Day
    OBVIOUS
  <2>0. /\ camp.delta \in Nat /\ camp.blocks \in Nat /\ camp.repeat \in Nat /\ time \in Nat
        /\ windows \in Nat /\ blocks \in Nat /\ days \in Nat /\ dayNext \in Nat /\ blocks > 0
    BY CampFacts DEF CampInv, Window, BlocksToday
  <2>1. DelayExpired /\ state \in {"WAITING", "WAITING_RX_DELAY"}
    BY WindowByExpiry
  <2>2. state \in Running
    BY <2>1 DEF Running
  <2>3. windows < camp.blocks
    BY <2>0, <2>2 DEF CampInv, InDays
  <2>4. time - dayNext \in 0..((camp.blocks - blocks + 1) * camp.delta)
    BY <2>1 DEF CampInv, OnTime, Paces, Due, DelayExpired
  <2>5. (camp.blocks - blocks + 1) * camp.delta <= camp.blocks * camp.delta
    <3>1. camp.blocks - blocks + 1 \in Nat /\ camp.blocks - blocks + 1 <= camp.blocks
      BY <2>0, <2>2 DEF CampInv, InDays
    <3> QED BY <2>0, <3>1, NoMore
  <2>6. time - dayNext \in 0..(camp.blocks * camp.delta)
    <3>1. (camp.blocks - blocks + 1) * camp.delta \in Int /\ camp.blocks * camp.delta \in Int
      BY <2>0
    <3> QED BY <2>0, <2>4, <2>5, <3>1
  <2>7. \E d \in 0..camp.repeat : dayNext = camp.start + d * Day
    <3>1. camp.repeat - days \in 0..camp.repeat
      BY <2>0, <2>2 DEF CampInv, InDays
    <3> QED BY <2>2, <3>1 DEF CampInv, InDays
  <2> QED BY <2>3, <2>6, <2>7
<1> QED BY <1>1, <1>2, <1>3, PTL DEF Spec, WindowsInCampaign
==============================================================================
