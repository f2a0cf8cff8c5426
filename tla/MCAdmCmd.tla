------------------------------ MODULE MCAdmCmd ------------------------------
(***************************************************************************)
(* The parameters of the demonstration, one identifier without a parameter *)
(* (RESERVED) and one beyond the table (UNKNOWN), and one command of each  *)
(* outcome.  EXECINSTPING alone is asked for again after a ping.           *)
(***************************************************************************)
EXTENDS AdmCmd, ParamTable

Table     == a_ParamAccess @@ [RESERVED |-> Reserved]
MCParams  == DOMAIN Table
MCSize    == [p \in MCParams |-> Table[p].size]
MCRem     == [p \in MCParams |-> Table[p].rem]
MCLoc     == [p \in MCParams |-> Table[p].loc]
MCRestr   == [p \in MCParams |-> RestrOf(Table[p])]
MCDefault == Stored @@ [RESERVED |-> 0]

\* The values beside the initial ones that the commands and the application write.
Given == [RF_UPLINK_CHANNEL |-> {105, 110}, CLOCK_OFFSET_CORRECTION |-> {2},
          L7TRANSMIT_LENGTH_MAX |-> {40}]
MCValues == [p \in MCParams |-> {MCDefault[p]} \cup (IF p \in DOMAIN Given THEN Given[p] ELSE {})]

Replies(n) == SubSeq(<<"PING_REPLY1", "PING_REPLY2", "PING_REPLY3", "PING_REPLY4",
                       "PING_REPLY5", "PING_REPLY6", "PING_REPLY7", "PING_REPLY8">>, 1, n)
Reads ==
  << <<"RF_UPLINK_CHANNEL", "L7TRANSMIT_LENGTH_MAX">>, Replies(4), Replies(8),
     <<"VERS_HW_TRX", "CLOCK_OFFSET_CORRECTION">>, <<"RESERVED">>, <<"UNKNOWN">> >>

W(p, v) == [id |-> p, val |-> v]
Chan(v) == W("RF_UPLINK_CHANNEL", v)
Writings ==
  << <<Chan(110), W("CLOCK_OFFSET_CORRECTION", 2)>>, <<Chan(100), Chan(110)>>,
     <<W("CLOCK_OFFSET_CORRECTION", 0), Chan(105)>>, <<W("RF_UPLINK_MOD", 3)>>,
     <<W("L7TRANSMIT_LENGTH_MAX", 20)>>, <<W("L7TRANSMIT_LENGTH_MAX", 40)>>,
     <<Chan(110), W("PING_NBFOUND", 0)>>, <<Chan(110), W("LOGGER_LEVEL", 0)>>,
     <<Chan(100), W("UNKNOWN", 0)>> >>

Good == [key |-> "KEY_CHG", chan |-> 110, mod |-> "WM2400", repeat |-> 1, delta |-> 2,
         hw |-> 1, ini |-> 2, target |-> 3, days |-> 50, blocks |-> 3]
Announces ==
  <<Good, [Good EXCEPT !.key = "KEY_MOB"], [Good EXCEPT !.mod = "other"],
   [Good EXCEPT !.chan = 95], [Good EXCEPT !.chan = 90], [Good EXCEPT !.chan = 160],
   [Good EXCEPT !.repeat = 16], [Good EXCEPT !.repeat = 17], [Good EXCEPT !.delta = 1],
   [Good EXCEPT !.hw = 2], [Good EXCEPT !.ini = 1], [Good EXCEPT !.target = 2],
   [Good EXCEPT !.target = 1], [Good EXCEPT !.days = 39], [Good EXCEPT !.days = 111],
   [Good EXCEPT !.blocks = 0], [Good EXCEPT !.blocks = 5],
   [Good EXCEPT !.mod = "WM4800", !.blocks = 6], [Good EXCEPT !.mod = "WM4800", !.blocks = 7]>>

\* The commands of one kind, numbered from n on.
Kind(n, name, args) == {[id |-> n + i, op |-> name, arg |-> args[i]] : i \in 1 .. Len(args)}

MCCmds == Kind(0, "READ_PARAM", Reads) \cup Kind(10, "WRITE_PARAM", Writings)
          \cup Kind(20, "WRITE_KEY", <<[id |-> 2], [id |-> 3]>>)
          \cup Kind(30, "ANNDOWNLOAD", Announces)
          \cup Kind(60, "EXECINSTPING", <<0>>) \cup Kind(70, "other", <<0>>)

SenderSymmetry == Permutations(Senders)
=============================================================================
