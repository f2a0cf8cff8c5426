------------------------------ MODULE MCLogger ------------------------------
(***************************************************************************)
(* The logger for TLC: three tasks and a pool of two buffers, so that      *)
(* tasks wait for the semaphore and for the mutex, with the sizes and the  *)
(* time stamp of the demonstration (sys_init.c:99).                        *)
(***************************************************************************)
EXTENDS Logger, TLC

CONSTANTS t1, t2, t3

L(t, fun, level, len) == [by |-> t, fun |-> fun, level |-> level, len |-> len]

\* 24 is the first number of bytes that a frame has no room for.
MCCalls == (t1 :> <<L(t1, "post", "err", 40), L(t1, "put", "err", 91)>>)
        @@ (t2 :> <<L(t2, "frame", "out", 23), L(t2, "frame", "out", 24)>>)
        @@ (t3 :> <<L(t3, "frame", "in", 24), L(t3, "post", "err", 200)>>)
=============================================================================
