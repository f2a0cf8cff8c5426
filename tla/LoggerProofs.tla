---------------------------- MODULE LoggerProofs ----------------------------
(***************************************************************************)
(* Proofs about the logger, for every number of buffers, every finite set  *)
(* of tasks and all the lines they log.                                    *)
(*                                                                         *)
(* PoolServes is not inductive.  What makes it true is that the count of   *)
(* the semaphore, the tasks that have a unit of it and no buffer yet, the  *)
(* buffers that are locked and the unit the printer has still to give add  *)
(* up to NB (Counted); and that needs every locked buffer to have one      *)
(* owner only: a task, a place in the queue or the printer (Owned).        *)
(***************************************************************************)
EXTENDS Logger, FiniteSetTheorems, SequenceTheorems, TLAPS

\* The tasks that have a unit of the semaphore and no buffer yet.
Waiting == {t \in Tasks : pc[t] \in {"mutex", "scan", "leave"}}
Locked  == {i \in Ids : lock[i] = 1}
Owing   == IF lpc = "count" THEN 1 ELSE 0

Counted == sem + Cardinality(Waiting) + Cardinality(Locked) + Owing = NB

\* The mutex is with the task that looks for a buffer, or that releases one.
Exclusive ==
  /\ \A t \in Tasks : pc[t] \in {"scan", "leave"} => mutex = t
  /\ lpc = "release" => mutex = Printer

\* What a task has seen of the locks is still so.
Seen ==
  \A t \in Tasks :
    /\ pc[t] = "scan" => \A i \in Ids : i < id[t] => lock[i] = 1
    /\ pc[t] = "leave" => id[t] \in Ids /\ lock[id[t]] = 0

Holds(t)  == pc[t] \in {"write", "send"}
Printing  == lpc \in {"print", "mutex", "release"}

Owned ==
  /\ \A t \in Tasks : Holds(t) =>
       /\ id[t] \in Ids /\ lock[id[t]] = 1
       /\ \A u \in Tasks : Holds(u) /\ u # t => id[u] # id[t]
       /\ \A k \in 1..Len(queue) : queue[k] # id[t]
       /\ Printing => lid # id[t]
  /\ \A k \in 1..Len(queue) :
       /\ lock[queue[k]] = 1
       /\ \A m \in 1..Len(queue) : m # k => queue[m] # queue[k]
       /\ Printing => lid # queue[k]
  /\ Printing => lock[lid] = 1

IInv == TypeOK /\ Counted /\ Exclusive /\ Seen /\ Owned

-----------------------------------------------------------------------------
(* Counting.                                                               *)

\* The two sets that are counted are finite.
LEMMA FiniteSets ==
  /\ IsFiniteSet(Waiting) /\ Cardinality(Waiting) \in Nat
  /\ IsFiniteSet(Locked) /\ Cardinality(Locked) \in Nat
  /\ IsFiniteSet(Ids) /\ Cardinality(Ids) = NB
<1>1. IsFiniteSet(Waiting)
  BY LoggerConstants, FS_Subset DEF Waiting
<1>2. IsFiniteSet(Ids) /\ Cardinality(Ids) = NB
  BY LoggerConstants, FS_Interval DEF Ids
<1>3. IsFiniteSet(Locked)
  BY <1>2, FS_Subset DEF Locked
<1> QED
  BY <1>1, <1>2, <1>3, FS_CardinalityType

\* While a task waits for a buffer, some buffer is free.
LEMMA SomeFree ==
  ASSUME IInv, NEW t \in Tasks, t \in Waiting
  PROVE  \E i \in Ids : lock[i] = 0
<1>1. Cardinality(Waiting) >= 1
  <2>1. Waiting # {}
    OBVIOUS
  <2> QED
    BY <2>1, FiniteSets, FS_EmptySet
<1>2. Cardinality(Locked) < NB
  BY <1>1, FiniteSets DEF IInv, TypeOK, Counted, Owing
<1>3. Locked # Ids
  BY <1>2, FiniteSets, LoggerConstants
<1> QED
  BY <1>3 DEF Locked, IInv, TypeOK

\* One task more, or less, waits.
LEMMA WaitingGrows ==
  ASSUME IInv, NEW t \in Tasks, pc[t] = "count", pc' = [pc EXCEPT ![t] = "mutex"]
  PROVE  Cardinality(Waiting') = Cardinality(Waiting) + 1
<1>1. Waiting' = Waiting \cup {t} /\ t \notin Waiting
  BY DEF Waiting, IInv, TypeOK
<1> QED
  BY <1>1, FiniteSets, FS_AddElement

LEMMA WaitingShrinks ==
  ASSUME IInv, NEW t \in Tasks, pc[t] = "leave", pc' = [pc EXCEPT ![t] = "write"]
  PROVE  Cardinality(Waiting') = Cardinality(Waiting) - 1
<1>1. Waiting' = Waiting \ {t} /\ t \in Waiting
  BY DEF Waiting, IInv, TypeOK
<1> QED
  BY <1>1, FiniteSets, FS_RemoveElement

\* One buffer more, or less, is locked.
LEMMA LockedGrows ==
  ASSUME IInv, NEW i \in Ids, lock[i] = 0, lock' = [lock EXCEPT ![i] = 1]
  PROVE  Cardinality(Locked') = Cardinality(Locked) + 1
<1>1. Locked' = Locked \cup {i} /\ i \notin Locked
  BY DEF Locked, IInv, TypeOK
<1> QED
  BY <1>1, FiniteSets, FS_AddElement

LEMMA LockedShrinks ==
  ASSUME IInv, NEW i \in Ids, lock[i] = 1, lock' = [lock EXCEPT ![i] = 0]
  PROVE  Cardinality(Locked') = Cardinality(Locked) - 1
<1>1. Locked' = Locked \ {i} /\ i \in Locked
  BY DEF Locked, IInv, TypeOK
<1> QED
  BY <1>1, FiniteSets, FS_RemoveElement

-----------------------------------------------------------------------------
(* IInv is inductive: one lemma for each action.                           *)

LEMMA InitInv == Init => IInv
<1> SUFFICES ASSUME Init PROVE IInv
  OBVIOUS
<1>1. TypeOK
  BY LoggerConstants DEF Init, TypeOK, Count, Ids, Nobody, Printer
<1>2. Counted
  <2>1. Waiting = {} /\ Locked = {}
    BY DEF Init, Waiting, Locked
  <2> QED
    BY <2>1, FS_EmptySet, LoggerConstants DEF Init, Counted, Owing, Count
<1> QED
  BY <1>1, <1>2 DEF IInv, Init, Exclusive, Seen, Owned, Holds, Printing

\* Actions that move nothing that is counted or owned.
LEMMA StillInv ==
  ASSUME IInv, NEW t \in Tasks, Silent(t) \/ Call(t) \/ Write(t)
  PROVE  IInv'
<1>1. Waiting' = Waiting /\ Locked' = Locked
  BY DEF IInv, TypeOK, Silent, Call, Write, At, Goto, Waiting, Locked
<1>2. TypeOK'
  BY DEF IInv, TypeOK, Silent, Call, Write, At, Goto
<1>3. Counted'
  BY <1>1 DEF IInv, Counted, Owing, Silent, Call, Write
<1>4. Exclusive' /\ Seen'
  BY DEF IInv, TypeOK, Exclusive, Seen, Silent, Call, Write, At, Goto
<1>5. Owned'
  BY DEF IInv, TypeOK, Owned, Holds, Printing, Silent, Call, Write, At, Goto
<1> QED
  BY <1>2, <1>3, <1>4, <1>5 DEF IInv

LEMMA TakeCountInv ==
  ASSUME IInv, NEW t \in Tasks, TakeCount(t)
  PROVE  IInv'
<1>1. Cardinality(Waiting') = Cardinality(Waiting) + 1
  BY WaitingGrows DEF TakeCount, At, Goto
<1>2. Locked' = Locked /\ Owing' = Owing
  BY DEF TakeCount, Locked, Owing
<1>3. TypeOK'
  BY LoggerConstants DEF IInv, TypeOK, TakeCount, At, Goto
<1>4. Counted'
  BY <1>1, <1>2, FiniteSets DEF IInv, TypeOK, Counted, Owing, TakeCount
<1>5. Exclusive' /\ Seen'
  BY DEF IInv, TypeOK, Exclusive, Seen, TakeCount, At, Goto
<1>6. Owned'
  BY DEF IInv, TypeOK, Owned, Holds, Printing, TakeCount, At, Goto
<1> QED
  BY <1>3, <1>4, <1>5, <1>6 DEF IInv

LEMMA TakeMutexInv ==
  ASSUME IInv, NEW t \in Tasks, TakeMutex(t)
  PROVE  IInv'
<1>1. Waiting' = Waiting /\ Locked' = Locked
  BY DEF IInv, TypeOK, TakeMutex, At, Goto, Waiting, Locked
<1>2. TypeOK'
  BY LoggerConstants DEF IInv, TypeOK, TakeMutex, At, Goto
<1>3. Counted'
  BY <1>1 DEF IInv, Counted, Owing, TakeMutex
<1>4. Exclusive' /\ Seen'
  BY LoggerConstants DEF IInv, TypeOK, Exclusive, Seen, TakeMutex, MutexFree, Nobody,
                         Printer, At, Goto, Ids
<1>5. Owned'
  BY DEF IInv, TypeOK, Owned, Holds, Printing, TakeMutex, At, Goto
<1> QED
  BY <1>2, <1>3, <1>4, <1>5 DEF IInv

LEMMA ScanInv ==
  ASSUME IInv, NEW t \in Tasks, Scan(t)
  PROVE  IInv'
<1>1. Waiting' = Waiting /\ Locked' = Locked
  BY DEF Scan, Waiting, Locked
<1>2. TypeOK'
  BY LoggerConstants DEF IInv, TypeOK, Scan, Ids
<1>3. Counted'
  BY <1>1 DEF IInv, Counted, Owing, Scan
<1>4. Exclusive' /\ Seen'
  BY LoggerConstants DEF IInv, TypeOK, Exclusive, Seen, Scan, At, Ids
<1>5. Owned'
  BY DEF IInv, TypeOK, Owned, Holds, Printing, Scan, At
<1> QED
  BY <1>2, <1>3, <1>4, <1>5 DEF IInv

\* A task that has looked at every buffer has found one: some buffer is free,
\* and it is not among those the task has seen locked.
LEMMA FoundInv ==
  ASSUME IInv, NEW t \in Tasks, Found(t)
  PROVE  IInv'
<1>1. Waiting' = Waiting /\ Locked' = Locked
  BY DEF IInv, TypeOK, Found, At, Goto, Waiting, Locked
<1>2. TypeOK'
  BY DEF IInv, TypeOK, Found, At, Goto
<1>3. Counted'
  BY <1>1 DEF IInv, Counted, Owing, Found
<1>4. id[t] \in Ids /\ lock[id[t]] = 0
  <2>1. PICK i \in Ids : lock[i] = 0
    BY SomeFree DEF Found, At, Waiting
  <2>2. ~(i < id[t])
    BY <2>1 DEF IInv, Seen, Found, At
  <2>3. id[t] \in Ids
    <3>1. id[t] \in 1..(NB + 1) /\ i \in 1..NB /\ NB \in Nat
      BY LoggerConstants DEF IInv, TypeOK, Ids
    <3> QED
      BY <2>2, <3>1 DEF Ids
  <2> QED
    BY <2>3 DEF Found
<1>5. Exclusive' /\ Seen'
  BY <1>4 DEF IInv, TypeOK, Exclusive, Seen, Found, At, Goto
<1>6. Owned'
  BY DEF IInv, TypeOK, Owned, Holds, Printing, Found, At, Goto
<1> QED
  BY <1>2, <1>3, <1>5, <1>6 DEF IInv

LEMMA LeaveMutexInv ==
  ASSUME IInv, NEW t \in Tasks, LeaveMutex(t)
  PROVE  IInv'
<1>1. /\ id[t] \in Ids /\ lock[id[t]] = 0
      /\ lock' = [lock EXCEPT ![id[t]] = 1]
      /\ pc' = [pc EXCEPT ![t] = "write"]
      /\ mutex = t /\ mutex' = Nobody
  BY DEF IInv, Seen, Exclusive, LeaveMutex, At, Goto
<1>2. Cardinality(Waiting') = Cardinality(Waiting) - 1
  BY <1>1, WaitingShrinks DEF LeaveMutex, At
<1>3. Cardinality(Locked') = Cardinality(Locked) + 1
  BY <1>1, LockedGrows
<1>4. TypeOK'
  BY <1>1 DEF IInv, TypeOK, LeaveMutex
<1>5. Counted'
  BY <1>2, <1>3, FiniteSets DEF IInv, TypeOK, Counted, Owing, LeaveMutex
<1>6. Exclusive' /\ Seen'
  BY <1>1, LoggerConstants DEF IInv, TypeOK, Exclusive, Seen, LeaveMutex, Nobody, Printer
<1>7. Owned'
  BY <1>1 DEF IInv, TypeOK, Owned, Holds, Printing, LeaveMutex
<1> QED
  BY <1>4, <1>5, <1>6, <1>7 DEF IInv

LEMMA SendInv ==
  ASSUME IInv, NEW t \in Tasks, Send(t)
  PROVE  IInv'
<1>1. Waiting' = Waiting /\ Locked' = Locked
  BY DEF IInv, TypeOK, Send, At, Goto, Waiting, Locked
<1>2. id[t] \in Ids
  BY DEF IInv, Owned, Holds, Send, At
<1>3. TypeOK'
  BY <1>2 DEF IInv, TypeOK, Send, At, Goto
<1>4. Counted'
  BY <1>1 DEF IInv, Counted, Owing, Send
<1>5. Exclusive' /\ Seen'
  BY DEF IInv, TypeOK, Exclusive, Seen, Send, At, Goto
<1>6. /\ Len(queue') = Len(queue) + 1
      /\ \A k \in 1..Len(queue) : queue'[k] = queue[k]
      /\ queue'[Len(queue) + 1] = id[t]
      /\ Len(queue) \in Nat
  BY <1>2 DEF IInv, TypeOK, Send
<1>7. \A u \in Tasks : Holds(u)' => Holds(u) /\ u # t
  BY DEF IInv, TypeOK, Holds, Send, At, Goto
<1>8. Holds(t) /\ lock' = lock /\ id' = id /\ lid' = lid /\ Printing' = Printing
  BY DEF Holds, Printing, Send, At
<1>9. Owned'
  BY <1>6, <1>7, <1>8 DEF IInv, Owned
<1> QED
  BY <1>3, <1>4, <1>5, <1>9 DEF IInv

LEMMA ReceiveInv ==
  ASSUME IInv, Receive
  PROVE  IInv'
<1>1. Waiting' = Waiting /\ Locked' = Locked
  BY DEF Receive, Waiting, Locked
<1>2. /\ Len(queue) \in Nat \ {0} /\ Len(queue') = Len(queue) - 1
      /\ \A k \in 1..Len(queue') : queue'[k] = queue[k + 1]
      /\ lid' = queue[1] /\ lid' \in Ids /\ queue' \in Seq(Ids)
  BY DEF IInv, TypeOK, Receive
<1>3. TypeOK'
  BY <1>2 DEF IInv, TypeOK, Receive
<1>4. Counted'
  BY <1>1 DEF IInv, Counted, Owing, Receive
<1>5. Exclusive' /\ Seen'
  BY DEF IInv, TypeOK, Exclusive, Seen, Receive
<1>6. lock' = lock /\ id' = id /\ \A t \in Tasks : Holds(t)' <=> Holds(t)
  BY DEF Holds, Receive
<1>7. Owned'
  BY <1>2, <1>6 DEF IInv, Owned
<1> QED
  BY <1>3, <1>4, <1>5, <1>7 DEF IInv

LEMMA OutputInv ==
  ASSUME IInv, Output \/ TakeToRelease
  PROVE  IInv'
<1>1. Waiting' = Waiting /\ Locked' = Locked
  BY DEF Output, TakeToRelease, Waiting, Locked
<1>2. TypeOK'
  BY DEF IInv, TypeOK, Output, TakeToRelease
<1>3. Counted'
  BY <1>1 DEF IInv, Counted, Owing, Output, TakeToRelease
<1>4. Exclusive' /\ Seen'
  BY LoggerConstants DEF IInv, TypeOK, Exclusive, Seen, Output, TakeToRelease, MutexFree,
                         Nobody, Printer
<1>5. Owned'
  BY DEF IInv, TypeOK, Owned, Holds, Printing, Output, TakeToRelease
<1> QED
  BY <1>2, <1>3, <1>4, <1>5 DEF IInv

LEMMA ReleaseInv ==
  ASSUME IInv, Release
  PROVE  IInv'
<1>1. lid \in Ids /\ lock[lid] = 1 /\ mutex = Printer
  BY DEF IInv, TypeOK, Owned, Printing, Exclusive, Release
<1>2. Waiting' = Waiting /\ Cardinality(Locked') = Cardinality(Locked) - 1
  BY <1>1, LockedShrinks DEF Release, Waiting
<1>3. TypeOK'
  BY DEF IInv, TypeOK, Release
<1>4. Counted'
  BY <1>2, FiniteSets DEF IInv, TypeOK, Counted, Owing, Release
<1>5. Exclusive' /\ Seen'
  BY <1>1, LoggerConstants DEF IInv, TypeOK, Exclusive, Seen, Release, Printer
<1>6. Owned'
  BY <1>1 DEF IInv, TypeOK, Owned, Holds, Printing, Release
<1> QED
  BY <1>3, <1>4, <1>5, <1>6 DEF IInv

LEMMA GiveCountInv ==
  ASSUME IInv, GiveCount
  PROVE  IInv'
<1>1. Waiting' = Waiting /\ Locked' = Locked /\ Owing = 1 /\ Owing' = 0
  BY DEF GiveCount, Waiting, Locked, Owing
<1>2. sem < NB /\ sem' = sem + 1
  BY <1>1, FiniteSets, LoggerConstants
     DEF IInv, TypeOK, Counted, GiveCount, More, Least, Count
<1>3. TypeOK'
  BY <1>2, LoggerConstants DEF IInv, TypeOK, GiveCount
<1>4. Counted'
  BY <1>1, <1>2, FiniteSets DEF IInv, TypeOK, Counted
<1>5. Exclusive' /\ Seen' /\ Owned'
  BY DEF IInv, TypeOK, Exclusive, Seen, Owned, Holds, Printing, GiveCount
<1> QED
  BY <1>3, <1>4, <1>5 DEF IInv

\* The invariant is kept by every step.
LEMMA StepInv == IInv /\ [Next]_vars => IInv'
<1> SUFFICES ASSUME IInv, [Next]_vars PROVE IInv'
  OBVIOUS
<1>1. ASSUME NEW t \in Tasks, Step(t) PROVE IInv'
  BY <1>1, StillInv, TakeCountInv, TakeMutexInv, ScanInv, FoundInv, LeaveMutexInv, SendInv
     DEF Step
<1>2. CASE PrintStep
  BY <1>2, ReceiveInv, OutputInv, ReleaseInv, GiveCountInv DEF PrintStep
<1>3. CASE UNCHANGED vars
  BY <1>3 DEF vars, IInv, TypeOK, Counted, Waiting, Locked, Owing, Exclusive, Seen,
              Owned, Holds, Printing
<1> QED
  BY <1>1, <1>2, <1>3 DEF Next

\* The variables keep their types: above all, the semaphore stays between 0
\* and NB.
THEOREM TypeCorrect == Spec => []TypeOK
<1>1. IInv => TypeOK
  BY DEF IInv
<1> QED
  BY <1>1, InitInv, StepInv, PTL DEF Spec

\* A task that has been through the semaphore finds a buffer, whatever the
\* number of buffers and of tasks: no line is dropped, and no unit of the
\* semaphore is lost (logger.c:375).
THEOREM PoolServesAlways == Spec => []PoolServes
<1>1. IInv => PoolServes
  BY DEF IInv, Seen, PoolServes, At
<1> QED
  BY <1>1, InitInv, StepInv, PTL DEF Spec

-----------------------------------------------------------------------------
(* The text of a line.                                                     *)

AnyLine == [by : Tasks, fun : {"put", "post", "frame"}, level : STRING, len : Nat]

LEMMA StampLenNat == StampLen \in Nat /\ StampLen + 8 <= Size /\ Size \in Nat
  BY StampFits, LoggerConstants DEF StampLen

\* A third, rounded down.
LEMMA Third == \A n \in Nat : n \div 3 \in Nat /\ 3 * (n \div 3) <= n
  BY Z3

\* Whatever its length, a line ends in its buffer.
LEMMA EndFits ==
  ASSUME NEW l \in AnyLine
  PROVE  End(l) <= Size
<1> DEFINE len == l.len
           s   == StampLen
           q   == (Room - 1) \div 3
<1>1. len \in Nat /\ l.fun \in {"put", "post", "frame"}
  BY DEF AnyLine
<1>2. s \in Nat /\ Size \in Nat /\ s + 8 <= Size
  BY StampLenNat
<1>3. PutEnd(len) <= Size
  BY <1>1, <1>2 DEF PutEnd, Least
<1>4. PostEnd(len) <= Size
  BY <1>1, <1>2 DEF PostEnd, Least
<1>5. FrameEnd(len) <= Size
  <2>1. Room = Size - s - 7 /\ Room \in Nat /\ Room >= 1
    BY <1>2 DEF Room
  <2>2. q \in Nat /\ 3 * q <= Room - 1
    <3>1. Room - 1 \in Nat
      BY <2>1
    <3> QED
      BY <3>1, Third
  <2>3. Shown(len) \in Nat /\ Shown(len) <= q
    BY <1>1, <2>2 DEF Shown, Least
  <2>4. FrameEnd(len) <= s + 8 + 3 * Shown(len)
    BY <1>2, <2>3 DEF FrameEnd
  <2>5. 3 * Shown(len) <= Room - 1
    BY <2>1, <2>2, <2>3
  <2>6. FrameEnd(len) \in Nat
    BY <1>2, <2>3 DEF FrameEnd
  <2> QED
    BY <1>2, <2>1, <2>3, <2>4, <2>5, <2>6
<1> QED
  BY <1>1, <1>3, <1>4, <1>5 DEF End

\* A task that is in a call has a line to log, and the buffers hold ends that
\* fit.
TextInv ==
  /\ todo \in [Tasks -> Seq(AnyLine)]
  /\ \A t \in Tasks : pc[t] # "idle" => todo[t] # <<>>
  /\ buf = [i \in Ids |-> buf[i]]
  /\ LineFits

LEMMA InitText == Init => TextInv
<1> SUFFICES ASSUME Init PROVE TextInv
  OBVIOUS
<1>1. LineFits
  BY StampLenNat DEF Init, LineFits, Nothing
<1> QED
  BY <1>1, LoggerConstants DEF Init, TextInv, AnyLine

\* A call that ends takes its line from the front.
LEMMA LineDone ==
  ASSUME TypeOK, TextInv, NEW t \in Tasks, todo[t] # <<>>,
         todo' = [todo EXCEPT ![t] = Tail(@)], pc' = [pc EXCEPT ![t] = "idle"],
         UNCHANGED buf
  PROVE  TextInv'
<1>1. todo'[t] \in Seq(AnyLine)
  BY DEF TextInv
<1> QED
  BY <1>1 DEF TypeOK, TextInv, LineFits

\* A task writes in the buffer it has taken, and leaves the others alone.
LEMMA StepText == TypeOK /\ TextInv /\ [Next]_vars => TextInv'
<1> SUFFICES ASSUME TypeOK, TextInv, [Next]_vars PROVE TextInv'
  OBVIOUS
<1>1. ASSUME NEW t \in Tasks, Silent(t) PROVE TextInv'
  <2>1. pc' = [pc EXCEPT ![t] = "idle"]
    BY <1>1 DEF TypeOK, Silent, At
  <2> QED
    BY <1>1, <2>1, LineDone DEF Silent
<1>2. ASSUME NEW t \in Tasks, Send(t) PROVE TextInv'
  BY <1>2, LineDone DEF TextInv, Send, At, Goto
<1>3. ASSUME NEW t \in Tasks, LeaveMutex(t) PROVE TextInv'
  <2>1. CASE id[t] \in Ids
    BY <1>3, <2>1 DEF TypeOK, TextInv, LineFits, LeaveMutex, At, Goto
  <2>2. CASE id[t] \notin Ids
    BY <1>3, <2>2, LineDone DEF TextInv, LeaveMutex, At, Goto
  <2> QED
    BY <2>1, <2>2
<1>4. ASSUME NEW t \in Tasks, Write(t) PROVE TextInv'
  <2>1. Line(t) \in AnyLine
    BY <1>4 DEF TextInv, Line, Write, At
  <2>2. End(Line(t)) <= Size
    BY <2>1, EndFits
  <2>3. /\ \A i \in Ids : i # id[t] => buf'[i] = buf[i]
        /\ \A i \in Ids : i = id[t] => buf'[i].last = End(Line(t))
        /\ buf' = [i \in Ids |-> buf'[i]]
    BY <1>4 DEF TextInv, Write
  <2>4. LineFits'
    BY <2>2, <2>3 DEF TextInv, LineFits
  <2> QED
    BY <1>4, <2>3, <2>4 DEF TypeOK, TextInv, Write, At, Goto
<1>5. ASSUME NEW t \in Tasks,
             Call(t) \/ TakeCount(t) \/ TakeMutex(t) \/ Scan(t) \/ Found(t)
      PROVE  TextInv'
  BY <1>5 DEF TypeOK, TextInv, LineFits, Call, TakeCount, TakeMutex, Scan, Found, At, Goto
<1>6. CASE PrintStep
  BY <1>6 DEF TextInv, LineFits, PrintStep, Receive, Output, TakeToRelease, Release, GiveCount
<1>7. CASE UNCHANGED vars
  BY <1>7 DEF vars, TextInv, LineFits
<1> QED
  BY <1>1, <1>2, <1>3, <1>4, <1>5, <1>6, <1>7 DEF Next, Step

\* A line stays in its buffer, whatever the size of the buffers, the time
\* stamp and the length of the line (logger.c:160, :213, :282).
THEOREM LineFitsAlways == Spec => []LineFits
<1>1. TextInv => LineFits
  BY DEF TextInv
<1> QED
  BY <1>1, InitText, StepText, TypeCorrect, PTL DEF Spec
-----------------------------------------------------------------------------
(* The logger keeps what LogService promises.                              *)

Lines == UNION {{Calls[t][k] : k \in DOMAIN Calls[t]} : t \in Tasks}

\* The lines of a queue of buffers.
Lined(b, q) == [k \in 1..Len(q) |-> b[q[k]].line]

LEMMA LinedSeq ==
  ASSUME NEW b, NEW q \in Seq(Ids)
  PROVE  Lined(b, q) \in Seq({b[i].line : i \in Ids}) /\ Len(Lined(b, q)) = Len(q)
BY DEF Lined

LEMMA LinedAppend ==
  ASSUME NEW b, NEW q \in Seq(Ids), NEW i \in Ids
  PROVE  Lined(b, Append(q, i)) = Append(Lined(b, q), b[i].line)
<1> DEFINE S == {b[j].line : j \in Ids}
<1>1. Lined(b, q) \in Seq(S) /\ b[i].line \in S
  BY LinedSeq
<1>2. /\ Append(q, i) \in Seq(Ids) /\ Len(Append(q, i)) = Len(q) + 1
      /\ \A k \in 1..Len(q) : Append(q, i)[k] = q[k]
      /\ Append(q, i)[Len(q) + 1] = i
  BY AppendProperties
<1>3. /\ Append(Lined(b, q), b[i].line) \in Seq(S)
      /\ Len(Append(Lined(b, q), b[i].line)) = Len(q) + 1
      /\ \A k \in 1..Len(q) : Append(Lined(b, q), b[i].line)[k] = Lined(b, q)[k]
      /\ Append(Lined(b, q), b[i].line)[Len(q) + 1] = b[i].line
  BY <1>1, AppendProperties, LinedSeq
<1>4. Lined(b, Append(q, i)) \in Seq(S) /\ Len(Lined(b, Append(q, i))) = Len(q) + 1
  BY <1>2, LinedSeq
<1>5. \A k \in 1..(Len(q) + 1) : Lined(b, Append(q, i))[k] = Append(Lined(b, q), b[i].line)[k]
  BY <1>2, <1>3 DEF Lined
<1> DEFINE one == Lined(b, Append(q, i))
           two == Append(Lined(b, q), b[i].line)
<1>6. /\ one \in Seq(S) /\ two \in Seq(S) /\ Len(one) = Len(two)
      /\ \A k \in 1..Len(one) : one[k] = two[k]
  BY <1>3, <1>4, <1>5
<1> HIDE DEF S, one, two
<1>7. one = two
  BY <1>6, SeqEqual
<1> QED
  BY <1>7 DEF one, two

LEMMA LinedTail ==
  ASSUME NEW b, NEW q \in Seq(Ids), q # <<>>
  PROVE  Lined(b, q) = <<b[Head(q)].line>> \o Lined(b, Tail(q))
<1> DEFINE S == {b[j].line : j \in Ids}
           h == <<b[Head(q)].line>>
<1>1. /\ Head(q) \in Ids /\ Tail(q) \in Seq(Ids) /\ Len(Tail(q)) = Len(q) - 1
      /\ Len(q) \in Nat \ {0} /\ Head(q) = q[1]
      /\ \A k \in 1..Len(Tail(q)) : Tail(q)[k] = q[k + 1]
  OBVIOUS
<1>2. Lined(b, q) \in Seq(S) /\ Len(Lined(b, q)) = Len(q)
  BY LinedSeq
<1>3. Lined(b, Tail(q)) \in Seq(S) /\ Len(Lined(b, Tail(q))) = Len(q) - 1
  BY <1>1, LinedSeq
<1>4. h \in Seq(S) /\ Len(h) = 1 /\ h[1] = b[q[1]].line
  BY <1>1
<1>5. /\ h \o Lined(b, Tail(q)) \in Seq(S)
      /\ Len(h \o Lined(b, Tail(q))) = Len(q)
      /\ \A k \in 1..Len(q) : (h \o Lined(b, Tail(q)))[k] =
           IF k <= 1 THEN h[k] ELSE Lined(b, Tail(q))[k - 1]
  <2> HIDE DEF S, h
  <2> QED
    <3>1. /\ Len(h \o Lined(b, Tail(q))) = Len(h) + Len(Lined(b, Tail(q)))
          /\ h \o Lined(b, Tail(q)) \in Seq(S)
          /\ \A k \in 1..(Len(h) + Len(Lined(b, Tail(q)))) :
               (h \o Lined(b, Tail(q)))[k] =
                 IF k <= Len(h) THEN h[k] ELSE Lined(b, Tail(q))[k - Len(h)]
      BY <1>3, <1>4, ConcatProperties
    <3>2. Len(h) + Len(Lined(b, Tail(q))) = Len(q)
      <4> DEFINE m == Len(q)
                 n == Len(Lined(b, Tail(q)))
      <4>1. m \in Nat \ {0}
        BY LenProperties, EmptySeq
      <4>2. n = m - 1
        BY <1>3
      <4>3. Len(h) = 1
        BY <1>4
      <4> HIDE DEF m, n
      <4>4. 1 + n = m
        BY <4>1, <4>2
      <4> QED
        BY <4>3, <4>4 DEF m, n
    <3> QED
      BY <1>4, <3>1, <3>2
<1>6. \A k \in 1..Len(q) : Lined(b, q)[k] = (h \o Lined(b, Tail(q)))[k]
  <2> SUFFICES ASSUME NEW k \in 1..Len(q)
               PROVE  Lined(b, q)[k] = (h \o Lined(b, Tail(q)))[k]
    OBVIOUS
  <2>1. CASE k = 1
    BY <1>1, <1>4, <1>5, <2>1 DEF Lined
  <2>2. CASE k # 1
    <3>1. k - 1 \in 1..Len(Tail(q)) /\ q[k] = Tail(q)[k - 1]
      BY <1>1, <2>2
    <3>2. Lined(b, Tail(q))[k - 1] = b[q[k]].line
      BY <3>1 DEF Lined
    <3> QED
      BY <1>1, <1>5, <2>2, <3>2 DEF Lined
  <2> QED
    BY <2>1, <2>2
<1> DEFINE one == Lined(b, q)
           two == h \o Lined(b, Tail(q))
<1>7. /\ one \in Seq(S) /\ two \in Seq(S) /\ Len(one) = Len(two)
      /\ \A k \in 1..Len(one) : one[k] = two[k]
  BY <1>2, <1>5, <1>6
<1> HIDE DEF S, one, two
<1>8. one = two
  BY <1>7, SeqEqual
<1> QED
  BY <1>8 DEF one, two

\* One buffer only for each place in the queue, for the printer and for a task
\* that has one: there are never more than NB.
LEMMA RoomLeft ==
  ASSUME IInv, NEW t \in Tasks, Holds(t)
  PROVE  Len(queue) + (IF Printing THEN 1 ELSE 0) < NB
<1> DEFINE n == Len(queue)
           m == n + 1 + (IF Printing THEN 1 ELSE 0)
           f == [k \in 1..m |-> IF k <= n THEN queue[k] ELSE IF k = n + 1 THEN id[t] ELSE lid]
<1>1. n \in Nat /\ m \in Nat /\ \A k \in 1..n : queue[k] \in Ids
  BY DEF IInv, TypeOK
<1>2. id[t] \in Ids /\ lid \in Ids
  BY DEF IInv, TypeOK, Owned
<1>3. f \in [1..m -> Ids]
  BY <1>1, <1>2
<1>4. \A k, l \in 1..m : k # l => f[k] # f[l]
  <2>1. \A k, l \in 1..n : k # l => queue[k] # queue[l]
    BY DEF IInv, Owned
  <2>2. \A k \in 1..n : queue[k] # id[t] /\ (Printing => queue[k] # lid)
    BY DEF IInv, Owned
  <2>3. Printing => lid # id[t]
    BY DEF IInv, Owned
  <2> QED
    BY <1>1, <2>1, <2>2, <2>3
<1>5. f \in Injection(1..m, Ids)
  <2> HIDE DEF f, m
  <2> QED
    BY <1>3, <1>4 DEF Injection, IsInjective
<1>6. Cardinality(1..m) <= Cardinality(Ids)
  <2> HIDE DEF f, m
  <2> QED
    BY <1>5, FiniteSets, FS_Injection
<1>7. Cardinality(1..m) = m
  <2> HIDE DEF m
  <2> QED
    BY <1>1, FS_Interval
<1> QED
  BY <1>1, <1>6, <1>7, FiniteSets, LoggerConstants

\* What a task has still to log are lines, and what it puts in the queue is
\* the one it logs.
TextKept ==
  \A t \in Tasks :
    /\ todo[t] \in Seq(Lines)
    /\ pc[t] = "send" => buf[id[t]].line = Line(t)

LEMMA InitKept == Init => TextKept
<1> SUFFICES ASSUME Init, NEW t \in Tasks PROVE todo[t] \in Seq(Lines)
  BY DEF Init, TextKept
<1>1. Calls[t] \in Seq({Calls[t][k] : k \in DOMAIN Calls[t]})
  BY LoggerConstants
<1>2. {Calls[t][k] : k \in DOMAIN Calls[t]} \subseteq Lines
  BY DEF Lines
<1> QED
  BY <1>1, <1>2, SeqMonotonic DEF Init

\* A step of a task that leaves the buffers alone and does not bring it to the
\* queue.
LEMMA KeptBy ==
  ASSUME TypeOK, TextInv, TextKept, NEW t \in Tasks, NEW step, step # "send",
         pc' = [pc EXCEPT ![t] = step], UNCHANGED buf,
         \A u \in Tasks : u # t => id'[u] = id[u],
         \/ UNCHANGED todo
         \/ todo[t] # <<>> /\ todo' = [todo EXCEPT ![t] = Tail(@)]
  PROVE  TextKept'
<1> SUFFICES ASSUME NEW u \in Tasks
             PROVE  /\ todo'[u] \in Seq(Lines)
                    /\ pc'[u] = "send" => buf'[id'[u]].line = Head(todo'[u])
  BY DEF TextKept, Line
<1>1. todo[u] \in Seq(Lines) /\ (pc[u] = "send" => buf[id[u]].line = Head(todo[u]))
  BY DEF TextKept, Line
<1>2. todo = [v \in Tasks |-> todo[v]] /\ pc = [v \in Tasks |-> pc[v]]
  BY DEF TextInv, TypeOK
<1>3. CASE u = t
  <2>1. pc'[u] # "send"
    BY <1>2, <1>3
  <2>2. todo'[u] = todo[u] \/ (todo[u] # <<>> /\ todo'[u] = Tail(todo[u]))
    BY <1>2, <1>3
  <2>3. todo'[u] \in Seq(Lines)
    BY <1>1, <2>2, HeadTailProperties
  <2> QED
    BY <2>1, <2>3
<1>4. CASE u # t
  <2>1. pc'[u] = pc[u] /\ todo'[u] = todo[u] /\ id'[u] = id[u]
    BY <1>2, <1>4
  <2> QED
    BY <1>1, <2>1
<1> QED
  BY <1>3, <1>4

LEMMA StepKept == IInv /\ TextInv /\ TextKept /\ [Next]_vars => TextKept'
<1> SUFFICES ASSUME IInv, TypeOK, TextInv, TextKept, [Next]_vars PROVE TextKept'
  BY DEF IInv
<1>1. ASSUME NEW t \in Tasks, Silent(t) PROVE TextKept'
  <2>1. pc' = [pc EXCEPT ![t] = "idle"]
    BY <1>1 DEF TypeOK, Silent, At
  <2> QED
    BY <1>1, <2>1, KeptBy DEF Silent
<1>2. ASSUME NEW t \in Tasks, Send(t) PROVE TextKept'
  BY <1>2, KeptBy DEF TextInv, Send, At, Goto
<1>3. ASSUME NEW t \in Tasks, LeaveMutex(t) PROVE TextKept'
  <2>1. pc[t] # "idle" /\ todo[t] # <<>>
    BY <1>3 DEF TextInv, LeaveMutex, At
  <2> QED
    BY <1>3, <2>1, KeptBy DEF LeaveMutex, Goto
<1>4. ASSUME NEW t \in Tasks, Write(t) PROVE TextKept'
  <2>1. \A v \in Tasks : pc[v] = "send" => v # t /\ id[v] # id[t]
    BY <1>4 DEF IInv, Owned, Holds, Write, At
  <2>2. id[t] \in Ids
    BY <1>4 DEF IInv, Owned, Holds, Write, At
  <2>3. buf'[id[t]].line = Line(t) /\ \A i : i # id[t] => buf'[i] = buf[i]
    BY <1>4, <2>2 DEF TextInv, Write
  <2>4. \A v \in Tasks : v # t => pc'[v] = pc[v]
    BY <1>4 DEF TypeOK, Write, Goto
  <2>5. id' = id /\ todo' = todo /\ \A v \in Tasks : Line(v)' = Line(v)
    BY <1>4 DEF Write, Line
  <2> QED
    BY <2>1, <2>3, <2>4, <2>5 DEF TextKept
<1>5. ASSUME NEW t \in Tasks,
             Call(t) \/ TakeCount(t) \/ TakeMutex(t) \/ Scan(t) \/ Found(t)
      PROVE  TextKept'
  <2>1. Scan(t) => pc' = [pc EXCEPT ![t] = "scan"]
    BY DEF TypeOK, Scan, At
  <2>2. \A u \in Tasks : u # t => id'[u] = id[u]
    BY <1>5 DEF TypeOK, Call, TakeCount, TakeMutex, Scan, Found
  <2> QED
    BY <1>5, <2>1, <2>2, KeptBy DEF Call, TakeCount, TakeMutex, Scan, Found, Goto
<1>6. CASE PrintStep
  BY <1>6 DEF TextKept, Line, PrintStep, Receive, Output, TakeToRelease, Release, GiveCount
<1>7. CASE UNCHANGED vars
  BY <1>7 DEF vars, TextKept, Line
<1> QED
  BY <1>1, <1>2, <1>3, <1>4, <1>5, <1>6, <1>7 DEF Next, Step

Same == UNCHANGED <<Pending, out>>

\* A task hands a line over when it sends the number of its buffer.
LEMMA SendHands ==
  ASSUME IInv, TextInv, TextKept, NEW t \in Tasks, Send(t)
  PROVE  Service!Hand(Line(t)) /\ Line(t) \in Lines
<1>1. Holds(t) /\ id[t] \in Ids /\ queue \in Seq(Ids)
  BY DEF Send, At, Holds, IInv, Owned, TypeOK
<1>2. Line(t) \in Lines /\ buf[id[t]].line = Line(t)
  BY DEF TextKept, TextInv, Send, At, Line
<1> DEFINE P == IF lpc = "print" THEN <<buf[lid].line>> ELSE <<>>
           S == {buf[i].line : i \in Ids}
           q == Lined(buf, queue)
<1>3. P \in Seq(S) /\ Len(P) = IF lpc = "print" THEN 1 ELSE 0
  <2>1. buf[lid].line \in S
    BY DEF IInv, TypeOK
  <2> HIDE DEF S
  <2> QED
    BY <2>1
<1>4. q \in Seq(S) /\ Len(q) = Len(queue) /\ Line(t) \in S
  BY <1>1, <1>2, LinedSeq
<1>5. Pending = P \o q
  BY DEF Pending, Lined
<1>6. Pending' = P \o Append(q, Line(t))
  <2>1. Pending' = P \o Lined(buf, Append(queue, id[t]))
    BY DEF Pending, Lined, Send
  <2> QED
    BY <1>1, <1>2, <2>1, LinedAppend
<1>7. Pending' = Append(Pending, Line(t))
  <2> HIDE DEF P, S, q
  <2> QED
    BY <1>3, <1>4, <1>5, <1>6
<1>8. Len(Pending) < NB
  <2>1. Len(Pending) = Len(queue) + Len(P)
    <3> HIDE DEF P, S, q
    <3> QED
      <4>1. Len(P \o q) = Len(P) + Len(q)
        BY <1>3, <1>4, ConcatProperties
      <4>2. Len(P) \in Nat /\ Len(q) \in Nat
        BY <1>3, <1>4, LenProperties
      <4> QED
        BY <1>4, <1>5, <4>1, <4>2
  <2> QED
    BY <1>1, <1>3, <2>1, RoomLeft, LoggerConstants DEF Printing, IInv, TypeOK
<1> QED
  BY <1>2, <1>7, <1>8 DEF Service!Hand, Send

\* The printer's output is the line that was handed over first.
LEMMA OutputEmits ==
  ASSUME IInv, Output
  PROVE  Service!Emit
<1> DEFINE S == {buf[i].line : i \in Ids}
           q == Lined(buf, queue)
           x == buf[lid].line
<1>1. q \in Seq(S) /\ x \in S
  BY LinedSeq DEF IInv, TypeOK
<1>2. Pending = <<x>> \o q
  BY DEF Pending, Lined, Output
<1>3. Pending' = <<>> \o q
  BY DEF Pending, Lined, Output
<1>4. Pending # <<>> /\ Head(Pending) = x /\ Pending' = Tail(Pending)
  <2> HIDE DEF S, q, x
  <2> QED
    BY <1>1, <1>2, <1>3
<1> QED
  BY <1>4 DEF Service!Emit, Output

\* Nothing else shows: no task writes in a buffer that is queued or printed.
LEMMA WriteHides ==
  ASSUME IInv, NEW t \in Tasks, Write(t)
  PROVE  Same
<1>1. /\ Holds(t) /\ id[t] \in Ids
      /\ \A k \in 1..Len(queue) : queue[k] # id[t] /\ queue[k] \in Ids
      /\ lpc = "print" => lid # id[t] /\ lid \in Ids
  BY DEF IInv, TypeOK, Owned, Holds, Printing, Write, At
<1>2. \A i : i # id[t] => buf'[i] = buf[i]
  BY DEF Write
<1>3. Lined(buf, queue)' = Lined(buf, queue)
  BY <1>1, <1>2 DEF Lined, Write
<1> QED
  BY <1>1, <1>2, <1>3 DEF Same, Pending, Lined, Write

LEMMA ReceiveHides ==
  ASSUME IInv, Receive
  PROVE  Same
<1>1. queue \in Seq(Ids) /\ queue # <<>>
  BY DEF IInv, TypeOK, Receive
<1> DEFINE S == {buf[i].line : i \in Ids}
<1>2. Lined(buf, queue) \in Seq(S)
  BY <1>1, LinedSeq
<1>3. Pending = <<>> \o Lined(buf, queue)
  BY DEF Pending, Lined, Receive
<1>4. Pending' = <<buf[Head(queue)].line>> \o Lined(buf, Tail(queue))
  BY DEF Pending, Lined, Receive
<1> QED
  BY <1>1, <1>2, <1>3, <1>4, LinedTail, ConcatEmptySeq DEF Same, Receive

LEMMA StepService ==
  IInv /\ TextInv /\ TextKept /\ [Next]_vars => [Service!Next]_<<Pending, out>>
<1> SUFFICES ASSUME IInv, TextInv, TextKept, [Next]_vars
             PROVE  (\E l \in Lines : Service!Hand(l)) \/ Service!Emit \/ Same
  BY DEF Service!Next, Same, Lines
<1>1. ASSUME NEW t \in Tasks, Step(t), ~Send(t), ~Write(t) PROVE Same
  BY <1>1 DEF Step, Silent, Call, TakeCount, TakeMutex, Scan, Found, LeaveMutex,
              Same, Pending
<1>2. ASSUME TakeToRelease \/ Release \/ GiveCount PROVE Same
  BY <1>2 DEF TakeToRelease, Release, GiveCount, Same, Pending
<1>3. CASE UNCHANGED vars
  BY <1>3 DEF vars, Same, Pending
<1> QED
  BY <1>1, <1>2, <1>3, SendHands, WriteHides, ReceiveHides, OutputEmits DEF Next, PrintStep

\* The lines come out whole, once each and in the order they were handed over,
\* never more than NB - 1 before them (logger.c:435): the safety part of what
\* LogService promises, for every pool, every set of tasks and all they log.
THEOREM KeepsService == Spec => Service!Safety
<1>1. Init => Service!Init
  BY DEF Init, Service!Init, Pending
<1> DEFINE Inv == IInv /\ TextInv /\ TextKept
<1>2. Init => Inv
  BY InitInv, InitText, InitKept
<1>3. Inv /\ [Next]_vars => Inv'
  BY StepInv, StepText, StepKept DEF IInv
<1>4. Inv /\ [Next]_vars => [Service!Next]_<<Pending, out>>
  BY StepService
<1> QED
  BY <1>1, <1>2, <1>3, <1>4, PTL DEF Spec, Service!Safety
=============================================================================
