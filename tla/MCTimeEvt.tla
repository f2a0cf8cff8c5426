----------------------------- MODULE MCTimeEvt -----------------------------
(***************************************************************************)
(* TimeEvt for TLC, with what it needs of the time manager: an update at   *)
(* every midnight, which may set the clock (TimeMgr has the task itself).  *)
(***************************************************************************)
EXTENDS TimeEvt

CONSTANTS AheadBy, BackBy   \* amounts by which the clock is advanced, put back

ASSUME DayConstants == AheadBy \cup BackBy \subseteq Nat

VARIABLE midnight           \* the update of this midnight is still to come

mcVars == <<timeVars, midnight>>

DayInit == TimeInit /\ midnight = FALSE

\* The task that updates has the priority of the others and is never a tick late.
Elapse == ~midnight /\ Free /\ Tick /\ midnight' = (now' % Day = 0)

Settings == {0} \cup {now + a : a \in AheadBy} \cup {now - b : b \in BackBy}

Update == /\ midnight /\ midnight' = FALSE
          /\ \E t \in Settings : t \in 0..MaxNow /\ UpdateTime(t)

Alarm == EventHandler /\ UNCHANGED midnight

Calls == (TimerCall \/ TimerStopGo) /\ UNCHANGED midnight

DayNext == Elapse \/ Update \/ Alarm \/ Calls

DaySpec == DayInit /\ [][DayNext]_mcVars

\* The timers are alike; no property is about fairness.
TimerSymmetry == Permutations(Timers)
=============================================================================
