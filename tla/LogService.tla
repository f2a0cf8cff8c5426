----------------------------- MODULE LogService -----------------------------
(***************************************************************************)
(* What the logger promises to the tasks that log: a line handed over is   *)
(* kept with at most NB - 1 others, and comes out whole, once, after the   *)
(* lines handed over before it.                                            *)
(***************************************************************************)
EXTENDS Sequences, Naturals

CONSTANTS Lines, NB

VARIABLES pending, out

Init == pending = <<>> /\ out = <<>>

Hand(l) == /\ Len(pending) < NB
           /\ pending' = Append(pending, l)
           /\ UNCHANGED out

Emit == /\ pending # <<>>
        /\ out' = Append(out, Head(pending))
        /\ pending' = Tail(pending)

Next == (\E l \in Lines : Hand(l)) \/ Emit

Safety == Init /\ [][Next]_<<pending, out>>

Spec == Safety /\ WF_<<pending, out>>(Emit)
=============================================================================
