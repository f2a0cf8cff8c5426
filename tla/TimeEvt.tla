------------------------------ MODULE TimeEvt ------------------------------
(***************************************************************************)
(* The time events (Samples/TimeEvt/src/time_evt.c): software timers in a  *)
(* list sorted by what is left of them, above one alarm of the RTC, with   *)
(* the port to the RTC (demo app/sys/port.c, bsp_rtc.c).                   *)
(*                                                                         *)
(* A tick stands for a stretch of seconds, Day ticks are a day.  The alarm *)
(* compares the time of the day only, and a timer of a day or more is not  *)
(* programmed at all: it waits for an update at midnight (TimeMgr).        *)
(*                                                                         *)
(* list is the chain of pNext from pCurrent.  A timer that is inserted     *)
(* while it is in the chain appears in it twice, which in the code is a    *)
(* chain that loops.                                                       *)
(*                                                                         *)
(* A definition named Bug... is the next definition with a mistake in it,  *)
(* used to see that a property can fail.  Nothing else refers to it.       *)
(***************************************************************************)
EXTENDS Integers, Sequences, SequencesExt

CONSTANTS
  Timers,       \* the time_evt_t variables of the tasks
  Day,          \* ticks of a day
  Values,       \* the values timers are started with
  MaxNow,       \* bound: the last time of the clock
  Disciplined,  \* a task starts or initialises its timer only when not armed
  Preempt       \* the alarm may interrupt a task in TimeEvt_TimerStop

ASSUME TimeConstants ==
  /\ Day \in Nat \ {0} /\ MaxNow \in Nat /\ Values \subseteq Nat \ {0}
  /\ {Disciplined, Preempt} \subseteq BOOLEAN

VARIABLES
  now,      \* the clock of the RTC
  list,     \* the timers from pCurrent on
  cfg,      \* eCfg of each timer
  initVal,  \* u64InitVal
  value,    \* u64Value
  lastUpd,  \* u64LastUpdate
  alarm,    \* time of the day the alarm is set to, or Off
  stopping, \* the timer of a TimerStop that has seen it at the head, or none
  armed,    \* (history) timers started and neither stopped nor expired
  left      \* (history) what is left of them, by the ticks since the start

timeVars == <<now, list, cfg, initVal, value, lastUpd, alarm, stopping, armed, left>>

Cfgs == {"ONESHOT", "PERIODIC", "ABSOLUTE"}
Off  == -1
None == "none"

InList(t) == t \in Range(list)
IsLast(l, t) == l # <<>> /\ l[Len(l)] = t

-----------------------------------------------------------------------------
(* The functions on the list.                                              *)

\* The values after _update: the time since the last update is taken off.  A
\* clock that is behind u64LastUpdate gives a difference beyond any value.
Elapsed == IF now >= lastUpd THEN now - lastUpd ELSE MaxNow + Day

\* The time is taken off again each time since the timer was started.
BugUpdated(l, v) ==
  [t \in Timers |-> IF t \in Range(l) /\ v[t] > 0 THEN v[t] - 1 ELSE v[t]]

Updated(l, v) ==
  [t \in Timers |-> IF t \notin Range(l) THEN v[t]
                    ELSE IF v[t] >= Elapsed THEN v[t] - Elapsed ELSE 0]

\* The order of the list is turned round.
BugInsert(l, v, t) ==
  LET later == {i \in 1..Len(l) : v[t] > v[l[i]]}
  IN  IF later = {} THEN Append(l, t)
      ELSE InsertAt(l, CHOOSE i \in later : \A j \in later : i <= j, t)

\* _insert: before the first timer with a greater value, else at the end.  A
\* timer that is the last one finds itself there and is left where it is.
Insert(l, v, t) ==
  LET later == {i \in 1..Len(l) : v[t] < v[l[i]]}
  IN  IF later # {} THEN InsertAt(l, CHOOSE i \in later : \A j \in later : i <= j, t)
      ELSE IF IsLast(l, t) THEN l
      ELSE Append(l, t)

Removed(l, t) == RemoveFirst(l, t)      \* _remove

\* BSP_Rtc_Alarm_StartMs: the time of the day, v from n.
AlarmIn(v, n) == (n + v) % Day

\* _timer_start on the head, _timer_stop without one.
AlarmFor(l, v, n) ==
  IF l = <<>> \/ v[Head(l)] >= Day THEN Off ELSE AlarmIn(v[Head(l)], n)

-----------------------------------------------------------------------------
TimeInit ==
  /\ now = 0 /\ list = <<>> /\ lastUpd = 0 /\ alarm = Off /\ stopping = None
  /\ cfg = [t \in Timers |-> "ONESHOT"]
  /\ initVal = [t \in Timers |-> 0] /\ value = [t \in Timers |-> 0]
  /\ armed = {} /\ left = [t \in Timers |-> 0]

\* No task is inside: hLock is free.
Free == stopping = None

\* TimeEvt_TimerInit.  A timer with a successor is taken out; the last one of
\* the list stays in it, with nothing left.
TimerInit(t, c) ==
  /\ Free /\ (Disciplined => t \notin armed)
  /\ list' = IF IsLast(list, t) THEN list ELSE Removed(list, t)
  /\ cfg' = [cfg EXCEPT ![t] = c]
  /\ initVal' = [initVal EXCEPT ![t] = 0] /\ value' = [value EXCEPT ![t] = 0]
  /\ armed' = armed \ {t} /\ left' = [left EXCEPT ![t] = 0]
  /\ UNCHANGED <<now, lastUpd, alarm, stopping>>

\* TimeEvt_TimerStart with what is passed to it (a date for an absolute timer).
\* Returns 1 and inserts nothing when the date is in the past.
TimerStart(t, val) ==
  /\ Free /\ (Disciplined => t \notin armed)
  /\ ~InList(t) \/ IsLast(list, t)           \* pNext == NULL, else nothing
  /\ LET v0   == Updated(list, [value EXCEPT ![t] = val])
         abs  == cfg[t] = "ABSOLUTE"
         past == abs /\ v0[t] <= now
         v    == IF abs /\ ~past THEN [v0 EXCEPT ![t] = v0[t] - now] ELSE v0
         l    == IF past THEN list ELSE Insert(list, v, t)
     IN  /\ list' = l /\ value' = v
         /\ alarm' = AlarmFor(l, v, now)
         /\ armed' = IF past THEN armed ELSE armed \cup {t}
         /\ left' = [left EXCEPT ![t] = IF past THEN @ ELSE v[t]]
  /\ initVal' = [initVal EXCEPT ![t] = val]
  /\ lastUpd' = now
  /\ UNCHANGED <<now, cfg, stopping>>

\* The head is left where it is.
BugStopHead(t) ==
  /\ alarm' = AlarmFor(list, value, now) /\ armed' = armed \ {t}
  /\ UNCHANGED <<now, list, cfg, initVal, value, lastUpd, left>>

\* What TimeEvt_TimerStop does with the head: the alarm is stopped, the head
\* moves to its successor, whichever timer it is by now.
StopHead(t) ==
  LET l == Removed(Tail(list), t)
      v == Updated(l, value)
  IN  /\ list' = l /\ value' = v
      /\ alarm' = AlarmFor(l, v, now)
      /\ lastUpd' = now
      /\ armed' = armed \ {t} /\ left' = [left EXCEPT ![t] = 0]
      /\ UNCHANGED <<now, cfg, initVal>>

\* Taken out of the middle, the alarm is not touched.
StopInner(t) ==
  /\ list' = Removed(list, t)
  /\ armed' = armed \ {t} /\ left' = [left EXCEPT ![t] = 0]
  /\ UNCHANGED <<now, cfg, initVal, value, lastUpd, alarm>>

TimerStop(t) ==
  /\ Free
  /\ IF list # <<>> /\ Head(list) = t
     THEN IF Preempt
          THEN stopping' = t
               /\ UNCHANGED <<now, list, cfg, initVal, value, lastUpd, alarm, armed, left>>
          ELSE StopHead(t) /\ UNCHANGED stopping
     ELSE StopInner(t) /\ UNCHANGED stopping

\* After the test of the head the interrupt may have emptied the list, which
\* ends in the use of a null pointer: the task goes no further.
TimerStopGo ==
  /\ stopping # None /\ list # <<>>
  /\ StopHead(stopping) /\ stopping' = None

\* The values of absolute timers for a new time t.
Corrected(v, t) ==
  [u \in Timers |-> IF InList(u) /\ cfg[u] = "ABSOLUTE"
                    THEN IF initVal[u] > t THEN initVal[u] - t ELSE 0
                    ELSE v[u]]

\* TimeEvt_UpdateTime: set the clock to t, or, with 0, only bring the timers up
\* to date.  The list is not sorted again.
UpdateTime(t) ==
  LET v    == Updated(list, value)
      then == IF t = 0 THEN now ELSE t
      v1   == IF t = 0 THEN v ELSE Corrected(v, t)
  IN  /\ Free
      /\ now' = then
      /\ IF list = <<>> THEN UNCHANGED <<value, lastUpd, alarm>>
         ELSE /\ value' = v1 /\ lastUpd' = then
              /\ alarm' = AlarmFor(list, v1, then)
      /\ UNCHANGED <<list, cfg, initVal, stopping, armed, left>>

AlarmDue == alarm = now % Day

\* The loop of TimeEvt_EventHandler for the timer t: if nothing is left of it, it is
\* notified and taken out, and a periodic one is inserted again.
Expired(c, t) ==
  IF c.value[t] # 0 THEN c
  ELSE IF cfg[t] # "PERIODIC" THEN [c EXCEPT !.list = Removed(@, t)]
  ELSE LET v == [c.value EXCEPT ![t] = initVal[t]]
       IN  [list |-> Insert(Removed(c.list, t), v, t), value |-> v]

\* The loop begins again at the head after an insertion, but what it meets there has
\* something left: the timers take their turns in the order they had.
Scanned(l, v) ==
  LET after[i \in 0..Len(l)] ==
        IF i = 0 THEN [list |-> l, value |-> v] ELSE Expired(after[i - 1], l[i])
  IN  after[Len(l)]

EventHandler ==
  /\ AlarmDue
  /\ LET v    == Updated(list, value)
         c    == Scanned(list, v)
         over == {t \in Range(list) : v[t] = 0}
         back == {t \in over : cfg[t] = "PERIODIC"}
     IN  /\ list' = c.list /\ value' = c.value
         /\ alarm' = AlarmFor(c.list, c.value, now)
         /\ armed' = (armed \ over) \cup back
         /\ left' = [t \in Timers |-> IF t \in back THEN initVal[t]
                                      ELSE IF t \in over THEN 0 ELSE left[t]]
         /\ lastUpd' = IF list = <<>> THEN lastUpd ELSE now
  /\ UNCHANGED <<now, cfg, initVal, stopping>>

\* Time passes when no alarm is waiting.
Tick ==
  /\ now < MaxNow /\ ~AlarmDue
  /\ now' = now + 1
  /\ left' = [t \in Timers |-> IF t \in armed THEN left[t] - 1 ELSE left[t]]
  /\ UNCHANGED <<list, cfg, initVal, value, lastUpd, alarm, stopping, armed>>

\* The calls of the tasks.
TimerCall == \E t \in Timers :
  \/ \E c \in Cfgs : TimerInit(t, c)
  \/ \E v \in Values : TimerStart(t, IF cfg[t] = "ABSOLUTE" THEN now + v ELSE v)
  \/ TimerStop(t)

-----------------------------------------------------------------------------
TimeTypeOK ==
  /\ now \in 0..MaxNow /\ lastUpd \in 0..MaxNow
  /\ list \in Seq(Timers)
  /\ cfg \in [Timers -> Cfgs]
  /\ initVal \in [Timers -> Nat] /\ value \in [Timers -> Nat]
  /\ alarm \in 0..(Day - 1) \cup {Off}
  /\ stopping \in Timers \cup {None}
  /\ armed \subseteq Timers /\ left \in [Timers -> Int]

(* The list holds the armed timers, each of them once: a stop, an expiry  *)
(* and a start leave no timer behind and lose none (_insert, _remove).     *)
ListIsArmed ==
  Free => Range(list) = armed /\ Len(list) = Cardinality(armed)

(* No timer is later than it was when it was started, nor, for an absolute *)
(* one, than its date: the alarm is always set for the first of them, or   *)
(* there is an update to come before it, which what is a day away relies   *)
(* on (_timer_start leaves it out).                                        *)
NeverLate == \A t \in armed : left[t] >= 0 \/ (cfg[t] = "ABSOLUTE" /\ now <= initVal[t])

(* A timer expires only when its time has passed, or, for an absolute one, *)
(* when the clock shows its date (_update, TimeEvt_UpdateTime).            *)
NeverEarly ==
  [][EventHandler => \A t \in armed :
       (t \notin armed' \/ left'[t] # left[t]) =>
          left[t] <= 0 \/ (cfg[t] = "ABSOLUTE" /\ now >= initVal[t])]_timeVars

\* The types, and that the list is the set of the timers that run.
TimeInv == TimeTypeOK /\ ListIsArmed
=============================================================================
