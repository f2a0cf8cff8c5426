------------------------------ MODULE TimeMgr ------------------------------
(***************************************************************************)
(* The time manager task (app/src/time_mgr.c) above the time events        *)
(* (TimeEvt).  It is woken by the RTC's wake-up timer at midnight, and     *)
(* then corrects the clock if a correction is pending; in between it looks *)
(* every second whether one of the three parameters of the clock has been  *)
(* written.  The parameters are written by the session dispatcher, for the *)
(* head-end.                                                               *)
(*                                                                         *)
(* Numbers keep their order in memory here: the conversions of the byte    *)
(* order are the same on both sides.                                       *)
(*                                                                         *)
(* A definition named Bug... is the next definition with a mistake in it,  *)
(* used to see that a property can fail.  Nothing else refers to it.       *)
(***************************************************************************)
EXTENDS TimeEvt

CONSTANTS
  Epochs,       \* the dates the head-end writes to CLOCK_CURRENT_EPOC
  Ahead, Back,  \* amounts of corrections that advance and put back the clock
  Periods,      \* periods of the drift correction, in days
  Lead,         \* the dates are at least that far ahead of the clock
  TickSec       \* the seconds of a tick

WakeupPeriod == 86400  \* _wakeup_period_, the seconds of a day

ASSUME TimeMgrConstants ==
  /\ Epochs \subseteq Nat \ {0} /\ Ahead \cup Back \subseteq Nat \ {0}
  /\ Periods \subseteq 0..255 /\ Lead \in Nat
  /\ TickSec \in Nat /\ TickSec > 2 /\ Day * TickSec = WakeupPeriod

VARIABLES
  curEpoch,    \* CLOCK_CURRENT_EPOC
  curOffset,   \* CLOCK_OFFSET_CORRECTION
  curDrift,    \* CLOCK_DRIFT_CORRECTION
  epoch,       \* the last epoch the task has written, 0 for none
  pend,        \* epoch_pend, offset_pend with value: the pending correction
  drift,       \* drift_: value and period
  daysCnt,     \* days_cnt, a byte
  clockInit,   \* clock_init
  wakeIn,      \* ticks until the wake-up timer fires
  notified,    \* the task's notification
  storing,     \* the task has compared CLOCK_CURRENT_EPOC and not stored it yet
  nights,      \* (history) midnights since the drift was last set or applied
  fresh        \* (history) the last step of the clock has not put it back

mgrVars == <<curEpoch, curOffset, curDrift, epoch, pend, drift, daysCnt, clockInit,
             wakeIn, notified, storing, nights, fresh>>
allVars == <<timeVars, mgrVars>>

Steps   == Ahead \cup {-b : b \in Back}
NoDrift == [value |-> 0, period |-> 0]
Drifts  == {NoDrift} \cup [value : Steps, period : Periods]
Nothing == [kind |-> "none", value |-> 0]

\* The range of 17 bits whatever the time.
BugReload(sec) == [wutr |-> (WakeupPeriod - (sec % WakeupPeriod) - 65535) % 65536, bits |-> 17]

\* BSP_Rtc_WakeUptimer_Reload: the range and the reload value for the next midnight,
\* sec seconds after the last one.
Reload(sec) ==
  LET delta == WakeupPeriod - (sec % WakeupPeriod) IN
  IF delta > 65535 THEN [wutr |-> (delta - 65535) % 65536, bits |-> 17]
                   ELSE [wutr |-> delta % 65536, bits |-> 16]

\* The seconds until the wake-up timer fires: the reload value and one more, and 2^16
\* in the range of 17 bits.
FiresIn(r) == r.wutr + 1 + (IF r.bits = 17 THEN 65536 ELSE 0)

\* The same in ticks.  It fires in the tick that begins at midnight.
ToMidnight(t) == FiresIn(Reload((t % Day) * TickSec)) \div TickSec

-----------------------------------------------------------------------------
MgrInit ==
  /\ TimeInit
  /\ curEpoch = 0 /\ curOffset = 0 /\ curDrift = NoDrift /\ epoch = 0
  /\ pend = Nothing /\ drift = NoDrift /\ daysCnt = 0 /\ clockInit = FALSE
  /\ wakeIn = ToMidnight(0) /\ notified = FALSE /\ storing = FALSE
  /\ nights = 0 /\ fresh = FALSE

\* Param_RemoteAccess on the three parameters of the clock.
Write ==
  /\ \/ curEpoch' \in {e \in Epochs : e >= now + Lead} /\ UNCHANGED <<curOffset, curDrift>>
     \/ curOffset' \in Steps /\ UNCHANGED <<curEpoch, curDrift>>
     \/ curDrift' \in Drifts /\ UNCHANGED <<curEpoch, curOffset>>
  /\ UNCHANGED <<timeVars, epoch, pend, drift, daysCnt, clockInit, wakeIn, notified,
                 storing, nights, fresh>>

\* A new drift starts its period anew.
DriftSeen == IF curDrift # drift THEN curDrift.period ELSE daysCnt

\* ulTaskNotifyTake has timed out: what has been written is noted, an epoch after
\* an offset.
Poll ==
  /\ ~notified /\ ~storing /\ Free
  /\ drift' = curDrift /\ daysCnt' = DriftSeen
  /\ nights' = IF curDrift # drift THEN 0 ELSE nights
  /\ curOffset' = 0
  /\ LET changed == epoch # 0 /\ curEpoch # epoch IN
     /\ pend' = IF changed THEN [kind |-> "epoch", value |-> curEpoch]
                ELSE IF curOffset # 0 THEN [kind |-> "offset", value |-> curOffset]
                ELSE pend
     /\ clockInit' = (clockInit \/ changed)
     /\ wakeIn' = IF changed /\ ~clockInit THEN 1 ELSE wakeIn  \* _time_wakeup_force
  /\ storing' = TRUE
  /\ UNCHANGED <<timeVars, curEpoch, curDrift, epoch, notified, fresh>>

\* Whatever is in CLOCK_CURRENT_EPOC now, the clock is written over it.
Store ==
  /\ storing /\ storing' = FALSE
  /\ epoch' = now /\ curEpoch' = now
  /\ UNCHANGED <<timeVars, curOffset, curDrift, pend, drift, daysCnt, clockInit,
                 wakeIn, notified, nights, fresh>>

\* A correction that goes before the beginning of time stops there.
Moved(by) == IF now + by < 0 THEN 0 ELSE now + by

\* days_cnt with the day taken off: a byte.
OneDayLess == (daysCnt + 255) % 256

\* Every wake-up counts as a day.
BugDaysLeft == IF OneDayLess = 0 THEN drift.period ELSE OneDayLess

\* A wake-up with a pending correction does not count as a day.
DaysLeft ==
  IF pend.kind # "none" THEN daysCnt
  ELSE IF OneDayLess = 0 THEN drift.period ELSE OneDayLess

DriftApplies == pend.kind = "none" /\ OneDayLess = 0 /\ drift.value # 0

\* _time_mgr_check_upd_time_: the time to set, 0 for none.
Correction ==
  IF pend.kind = "epoch" THEN pend.value
  ELSE IF pend.kind = "offset" THEN Moved(pend.value)
  ELSE IF DriftApplies THEN Moved(drift.value)
  ELSE 0

\* The task runs after the wake-up.
Wake ==
  /\ notified /\ ~storing
  /\ Correction <= MaxNow
  /\ UpdateTime(Correction)
  /\ daysCnt' = DaysLeft
  /\ pend' = Nothing
  /\ nights' = IF DriftApplies THEN 0 ELSE nights
  /\ epoch' = 0
  /\ wakeIn' = ToMidnight(now')
  /\ notified' = FALSE
  /\ fresh' = (now' > now)
  /\ UNCHANGED <<curEpoch, curOffset, curDrift, drift, clockInit, storing>>

\* The interrupt of the wake-up timer notifies the task (_time_mgr_evtCb_).
WakeUp == wakeIn = 1

\* A tick of the clock, and of the wake-up timer that runs beside it.  The tasks
\* are never a tick late.
MgrTick ==
  /\ ~notified /\ ~storing /\ Free
  /\ Tick
  /\ wakeIn' = IF wakeIn = 1 THEN Day ELSE wakeIn - 1
  /\ notified' = WakeUp
  /\ fresh' = (now' % Day # 0)
  /\ nights' = IF now' % Day = 0 /\ (fresh \/ Day = 1) THEN nights + 1 ELSE nights
  /\ UNCHANGED <<curEpoch, curOffset, curDrift, epoch, pend, drift, daysCnt, clockInit, storing>>

TimeEvents == (TimerCall \/ TimerStopGo \/ EventHandler) /\ UNCHANGED mgrVars

MgrNext == Write \/ Poll \/ Store \/ Wake \/ MgrTick \/ TimeEvents

MgrSpec == MgrInit /\ [][MgrNext]_allVars

-----------------------------------------------------------------------------
MgrTypeOK ==
  /\ TimeTypeOK
  /\ curEpoch \in 0..MaxNow \cup Epochs /\ epoch \in 0..MaxNow
  /\ curOffset \in Steps \cup {0} /\ {curDrift, drift} \subseteq Drifts
  /\ pend \in [kind : {"none", "epoch", "offset"}, value : Int]
  /\ daysCnt \in 0..255 /\ wakeIn \in 1..Day
  /\ {clockInit, notified, storing, fresh} \subseteq BOOLEAN
  /\ nights \in Nat

(* The task is woken at every midnight of the clock, also when it has been *)
(* set or a wake-up has been forced in between (_time_wakeup_reload).      *)
MidnightSeen == ~notified => wakeIn <= Day - (now % Day)

(* The drift is corrected once in its period: a day that was spent on      *)
(* another correction does not bring it nearer (_time_mgr_check_upd_time_).*)
DriftPaced == [][Wake /\ DriftApplies => nights >= drift.period]_allVars

\* The types, and that no midnight is missed.
TimeMgrInv == MgrTypeOK /\ MidnightSeen
=============================================================================
