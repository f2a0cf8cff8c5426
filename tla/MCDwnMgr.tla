------------------------------- MODULE MCDwnMgr -------------------------------
(* A small instance of DwnMgr: days of ten seconds with two or three      *)
(* blocks three seconds apart, on one, two or three days, the last one    *)
(* of which ends before the bound on the time.                            *)
EXTENDS DwnMgr

MCCampaigns ==
  {[start |-> 2, repeat |-> r, delta |-> 3, blocks |-> b] : r \in 0..2, b \in {2, 3}}
=============================================================================
