------------------------------- MODULE Logger -------------------------------
(***************************************************************************)
(* The logger (Samples/Logger/src/logger.c): tasks write lines in a pool   *)
(* of NB buffers, a task of its own prints them.  A counting semaphore     *)
(* counts the free buffers, a mutex guards the array of their locks, and   *)
(* the numbers of the buffers that are full go through a queue.            *)
(*                                                                         *)
(* A line is a record: the task that logs it, the function it calls, its   *)
(* level and how long its text is.  What a buffer holds is the line and    *)
(* the last index written, its terminating zero included.                  *)
(*                                                                         *)
(* A definition named Bug... is the next definition with a mistake in it,  *)
(* used to see that a property can fail.  Nothing else refers to it.       *)
(***************************************************************************)
EXTENDS Integers, Sequences, FiniteSets

CONSTANTS
  NB,      \* LOGGER_QUEUE_MESSAGE_ITEM_NB
  Size,    \* LOGGER_POOL_BUFFER_SIZE, a buffer has one byte more
  Tasks,   \* the tasks that log
  Calls,   \* the lines each task logs, one after another
  Level,   \* gLoggerLevel, as the set of the levels that are on
  Stamp    \* u8Tstmp, as a subset of {"norm", "hires", "trunc"}

ASSUME LoggerConstants ==
  /\ NB \in Nat \ {0} /\ Size \in Nat
  /\ IsFiniteSet(Tasks) /\ {"nobody", "printer"} \cap Tasks = {}
  /\ Calls \in [Tasks -> Seq([by : Tasks, fun : {"put", "post", "frame"},
                              level : STRING, len : Nat])]

VARIABLES
  sem,     \* hCntSem
  mutex,   \* the task that has hMutex, or Nobody
  lock,    \* aPoolLock
  buf,     \* aPoolBuffer
  queue,   \* hQueue
  todo,    \* the lines each task has still to log
  pc,      \* where each task is in Logger_Put, Logger_Post or Logger_Frame
  id,      \* its i, then id
  lpc,     \* where the logger's task is in _logger_main_
  lid,     \* its id
  out      \* (history) what has been printed

vars == <<sem, mutex, lock, buf, queue, todo, pc, id, lpc, lid, out>>

Ids     == 1..NB
Nobody  == "nobody"
Printer == "printer"
Nothing == [line |-> [by |-> Nobody, fun |-> "none", level |-> "none", len |-> 0],
            last |-> 0]
Line(t) == Head(todo[t])

\* The count hCntSem is created with, which is also its highest.
BugCount == NB + 1
Count == NB

-----------------------------------------------------------------------------
(* The text of a line.  The functions below give the index after the last  *)
(* character, where the zero goes.                                         *)

\* _logger_add_timestamp_: "[%lu", or "[%05lu", ".%03lu", "]".
StampLen == IF Stamp = {} THEN 0
            ELSE 2 + (IF "trunc" \in Stamp THEN 5 ELSE 10)
                   + (IF "hires" \in Stamp THEN 4 ELSE 0)

Least(a, b) == IF a < b THEN a ELSE b

\* A time stamp, "-->: ", the brackets and the newline fit in a buffer.
ASSUME StampFits == StampLen + 8 <= Size

\* Logger_Put copies at most Size characters.
PutEnd(len) == Least(len, Size)

\* Logger_Post: vsnprintf writes at most max characters, its zero included.
PostEnd(len) == IF StampLen >= Size THEN StampLen
                ELSE StampLen + Least(len, Size - StampLen - 1)

\* The room for the bytes in Logger_Frame: 5 characters of "-->: " and '['
\* are gone from max.
BugRoom == Size - StampLen - 5 - 1
Room == Size - StampLen - 1 - 5 - 1

\* The bytes of "%02x " that leave max above zero.  One more is tried, and p
\* stays where it was.
Shown(len) == Least(len, (Room - 1) \div 3)

\* The ']' is there when there was room for every byte, and then a newline.
FrameEnd(len) ==
  LET p == StampLen + 5 + 1 + 3 * Shown(len)
  IN  (IF len = Shown(len) THEN p + 1 ELSE p) + 1

End(l) == CASE l.fun = "put"   -> PutEnd(l.len)
            [] l.fun = "post"  -> PostEnd(l.len)
            [] l.fun = "frame" -> FrameEnd(l.len)

-----------------------------------------------------------------------------
(* A task that logs a line.                                                *)

At(t, step) == pc[t] = step
Goto(t, step) == pc' = [pc EXCEPT ![t] = step]

\* The macros LOG_ERR, LOG_FRM_OUT and so on test the level before the call.
\* The functions begin with the semaphore.
Silent(t) ==
  /\ At(t, "idle") /\ todo[t] # <<>> /\ Line(t).level \notin Level
  /\ todo' = [todo EXCEPT ![t] = Tail(@)]
  /\ UNCHANGED <<sem, mutex, lock, buf, queue, pc, id, lpc, lid, out>>

Call(t) ==
  /\ At(t, "idle") /\ todo[t] # <<>> /\ Line(t).level \in Level
  /\ Goto(t, "count")
  /\ UNCHANGED <<sem, mutex, lock, buf, queue, todo, id, lpc, lid, out>>

TakeCount(t) ==
  /\ At(t, "count") /\ sem > 0
  /\ sem' = sem - 1
  /\ Goto(t, "mutex")
  /\ UNCHANGED <<mutex, lock, buf, queue, todo, id, lpc, lid, out>>

BugMutexFree == TRUE
MutexFree == mutex = Nobody

\* _logger_acquire_id_: under the mutex, the first buffer that is not locked.
TakeMutex(t) ==
  /\ At(t, "mutex") /\ MutexFree
  /\ mutex' = t
  /\ id' = [id EXCEPT ![t] = 1]
  /\ Goto(t, "scan")
  /\ UNCHANGED <<sem, lock, buf, queue, todo, lpc, lid, out>>

Scan(t) ==
  /\ At(t, "scan") /\ id[t] \in Ids /\ lock[id[t]] = 1
  /\ id' = [id EXCEPT ![t] = @ + 1]
  /\ UNCHANGED <<sem, mutex, lock, buf, queue, todo, pc, lpc, lid, out>>

Found(t) ==
  /\ At(t, "scan") /\ (id[t] \in Ids => lock[id[t]] = 0)
  /\ Goto(t, "leave")
  /\ UNCHANGED <<sem, mutex, lock, buf, queue, todo, id, lpc, lid, out>>

\* When every buffer is locked (id is -1) nothing is logged, and the count is
\* not given back.
LeaveMutex(t) ==
  /\ At(t, "leave")
  /\ mutex' = Nobody
  /\ IF id[t] \in Ids
       THEN /\ lock' = [lock EXCEPT ![id[t]] = 1]
            /\ Goto(t, "write") /\ UNCHANGED todo
       ELSE /\ todo' = [todo EXCEPT ![t] = Tail(@)]
            /\ Goto(t, "idle") /\ UNCHANGED lock
  /\ UNCHANGED <<sem, buf, queue, id, lpc, lid, out>>

Write(t) ==
  /\ At(t, "write")
  /\ buf' = [buf EXCEPT ![id[t]] = [line |-> Line(t), last |-> End(Line(t))]]
  /\ Goto(t, "send")
  /\ UNCHANGED <<sem, mutex, lock, queue, todo, id, lpc, lid, out>>

Send(t) ==
  /\ At(t, "send") /\ Len(queue) < NB
  /\ queue' = Append(queue, id[t])
  /\ todo' = [todo EXCEPT ![t] = Tail(@)]
  /\ Goto(t, "idle")
  /\ UNCHANGED <<sem, mutex, lock, buf, id, lpc, lid, out>>

-----------------------------------------------------------------------------
(* The logger's task, _logger_main_.                                       *)

Receive ==
  /\ lpc = "receive" /\ queue # <<>>
  /\ lid' = Head(queue) /\ queue' = Tail(queue)
  /\ lpc' = "print"
  /\ UNCHANGED <<sem, mutex, lock, buf, todo, pc, id, out>>

\* pfOut
Output ==
  /\ lpc = "print"
  /\ out' = Append(out, buf[lid].line)
  /\ lpc' = "mutex"
  /\ UNCHANGED <<sem, mutex, lock, buf, queue, todo, pc, id, lid>>

\* _logger_release_id_: under the mutex.
TakeToRelease ==
  /\ lpc = "mutex" /\ MutexFree
  /\ mutex' = Printer
  /\ lpc' = "release"
  /\ UNCHANGED <<sem, lock, buf, queue, todo, pc, id, lid, out>>

Release ==
  /\ lpc = "release"
  /\ lock' = [lock EXCEPT ![lid] = 0]
  /\ mutex' = Nobody
  /\ lpc' = "count"
  /\ UNCHANGED <<sem, buf, queue, todo, pc, id, lid, out>>

BugMore(n) == n
More(n) == Least(n + 1, Count)

GiveCount ==
  /\ lpc = "count"
  /\ sem' = More(sem)
  /\ lpc' = "receive"
  /\ UNCHANGED <<mutex, lock, buf, queue, todo, pc, id, lid, out>>

-----------------------------------------------------------------------------
\* Logger_Setup and Logger_SetLevel, called before the tasks run.
Init ==
  /\ sem = Count /\ mutex = Nobody /\ queue = <<>>
  /\ lock = [i \in Ids |-> 0] /\ buf = [i \in Ids |-> Nothing]
  /\ todo = Calls
  /\ pc = [t \in Tasks |-> "idle"] /\ id = [t \in Tasks |-> 1]
  /\ lpc = "receive" /\ lid = 1 /\ out = <<>>

Step(t) == \/ Silent(t) \/ Call(t) \/ TakeCount(t) \/ TakeMutex(t) \/ Scan(t)
           \/ Found(t) \/ LeaveMutex(t) \/ Write(t) \/ Send(t)

PrintStep == Receive \/ Output \/ TakeToRelease \/ Release \/ GiveCount

Next == (\E t \in Tasks : Step(t)) \/ PrintStep

Spec == Init /\ [][Next]_vars

\* The scheduler runs every task that is ready.  A task that waits for the
\* semaphore or the mutex gets it in the end, because the lines are finite.
FairSpec == Spec /\ WF_vars(PrintStep) /\ \A t \in Tasks : WF_vars(Step(t))

-----------------------------------------------------------------------------
(* What should hold.                                                       *)

\* The types of the variables.
TypeOK ==
  /\ sem \in 0..NB /\ mutex \in Tasks \cup {Nobody, Printer}
  /\ lock \in [Ids -> {0, 1}] /\ queue \in Seq(Ids)
  /\ pc \in [Tasks -> {"idle", "count", "mutex", "scan", "leave", "write", "send"}]
  /\ id \in [Tasks -> 1..(NB + 1)] /\ lid \in Ids
  /\ lpc \in {"receive", "print", "mutex", "release", "count"}

\* A task that has been through the semaphore finds a buffer: the count never
\* runs ahead of the locks (logger.c:375).  A task that found none would drop
\* its line, and the pool would be one line shorter for good.
PoolServes == \A t \in Tasks : At(t, "leave") => id[t] \in Ids

\* What is written in a buffer stays in its Size + 1 bytes, the zero included,
\* however long the line is (logger.c:160, :213, :282).
LineFits == \A i \in Ids : buf[i].last <= Size

\* The lines that have been queued and not been printed yet.
Pending == (IF lpc = "print" THEN <<buf[lid].line>> ELSE <<>>)
             \o [k \in 1..Len(queue) |-> buf[queue[k]].line]

Service == INSTANCE LogService WITH
  Lines <- UNION {{Calls[t][k] : k \in DOMAIN Calls[t]} : t \in Tasks},
  pending <- Pending

\* The lines come out whole, once each and in the order they were queued, and
\* the printer gets through all of them: no task writes in a buffer that is
\* queued or being printed (logger.c:435).
ServiceSpec == Service!Spec

\* A task that logs comes back: it is never left waiting for a buffer.
CallReturns == \A t \in Tasks : pc[t] # "idle" ~> pc[t] = "idle"
=============================================================================
