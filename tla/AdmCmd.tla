------------------------------- MODULE AdmCmd -------------------------------
(***************************************************************************)
(* The administration commands of the head-end (adm_internal.c), executed  *)
(* against the table of parameters (parameters.c) by the session           *)
(* dispatcher (ses_dispatcher.c).  A command is examined and answered when *)
(* it is received; it is executed only once its answer has been sent.  The *)
(* same number again is the same command, answered again and not executed. *)
(* Between two commands the application writes parameters and pings.       *)
(***************************************************************************)
EXTENDS PingReply, Sequences, SequencesExt

CONSTANTS
  Params, Size, Rem, Loc,  \* the access table: sizes in bytes, access rights
  Values, Restr,           \* the values a parameter may hold, its restriction
  Default,                 \* a_ParamDefault with what Storage_Init sets
  TransLen,                \* L7TRANSMIT_LENGTH_MAX, one of Params
  Cmds,                    \* the commands the head-end sends
  Fw, Hw,                  \* VERS_FW_TRX, VERS_HW_TRX
  Now, ProgMin, ProgMax,   \* the clock and the window of the first day
  Day, DeltaMin,           \* 86400, DWN_DELTA_SEC_MIN
  Local,                   \* the parameters the application writes
  MaxPings,                \* bound on the pings
  PingAfter, AskAfter      \* bounds: the commands after which the application
                           \* pings, and those the head-end sends after a ping

VARIABLES value,       \* a_ParamValue
          cmd, rsp,    \* sCmdMsg, sRspMsg of the ADM session
          pend,        \* bPendAction
          keys,        \* the keys a command has set
          campaign,    \* what an announcement has set in sDwnMgrCtx
          phase, pings

admVars == <<value, cmd, rsp, pend, keys, campaign>>
vars    == <<admVars, phase, pings, pingVars>>

RspSize == 5    \* sizeof(admin_rsp_t)
ErrSize == 6    \* sizeof(admin_rsp_err_t)
PingRsp == 33   \* sizeof(admin_rsp_execinstping_t)
NoCmd      == [id |-> 0, op |-> "none"]
NoCampaign == [chan |-> 0, blocks |-> 0, mod |-> "none", repeat |-> 0, delta |-> 0, days |-> 0]

CanRead(a)  == a \in {"RO", "RW"}
CanWrite(a) == a \in {"WO", "RW"}
Accepted    == [code |-> "NONE", size |-> RspSize, body |-> <<>>]
Refused(e)  == [code |-> e, size |-> ErrSize, body |-> <<>>]

\* The checks of a value against an enumeration, a range or a divisor.
Meets(v, r) ==
  /\ r.kind = "ENUM"   => v \in Range(r.table)
  /\ r.kind = "RANGE"  => v \in r.table[1] .. r.table[2]
  /\ r.kind = "MODULO" => v % r.table[1] = 0

\* Param_CheckConformity
Conform(p, v) == Meets(v, Restr[p])

\* What the frame of a command can hold: bytes, words and lists of parameters.
ReadArg(ps) == ps \in Seq(STRING) /\ Len(ps) > 0
WriteArg(ws) == ws \in Seq([id : STRING, val : Nat])
AnnArg(a)   == /\ {a.chan, a.delta, a.repeat} \subseteq 0 .. 255
               /\ a.blocks \in Nat

WellFormed(c) ==
  /\ c.op = "READ_PARAM" => ReadArg(c.arg)
  /\ c.op = "WRITE_PARAM" => WriteArg(c.arg)
  /\ c.op = "ANNDOWNLOAD" => AnnArg(c.arg)

ASSUME AdmConstants ==
  /\ TransLen \in Params /\ Local \subseteq Params
  /\ Day \in Nat /\ DeltaMin \in Nat \ {0} /\ MaxPings \in Nat
  /\ \A c \in Cmds : WellFormed(c)

-----------------------------------------------------------------------------
\* The length of a response that carries parameters, each after its identifier.
Length(ps) ==
  LET upTo[i \in 0 .. Len(ps)] == IF i = 0 THEN RspSize ELSE upTo[i - 1] + 1 + Size[ps[i]]
  IN  upTo[Len(ps)]

ReadError(ps, i) ==
  IF ps[i] \notin Params THEN "READ_UNK_PARAM"
  ELSE IF Length(SubSeq(ps, 1, i)) > value[TransLen] THEN "READ_LENGTH_EXCEED"
  ELSE IF Rem[ps[i]] = "NA" THEN "READ_UNK_PARAM" ELSE "READ_ACCES_DENIED"

\* The parameter being added is not counted.
BugReadable(ps, i) ==
  ps[i] \in Params /\ Length(SubSeq(ps, 1, i - 1)) <= value[TransLen] /\ CanRead(Rem[ps[i]])

Readable(ps, i) ==
  ps[i] \in Params /\ Length(SubSeq(ps, 1, i)) <= value[TransLen] /\ CanRead(Rem[ps[i]])

ReadParam(ps) ==
  LET bad == {i \in 1 .. Len(ps) : ~Readable(ps, i)}
  IN  IF bad = {} THEN [code |-> "NONE", size |-> Length(ps), body |-> ps]
      ELSE Refused(ReadError(ps, Min(bad)))

WriteError(w) ==
  IF w.id \notin Params THEN "WRITE_UNK_PARAM"
  ELSE IF ~Conform(w.id, w.val) THEN "WRITE_ILLEGAL_VALUE"
  ELSE IF Rem[w.id] = "NA" THEN "WRITE_UNK_PARAM" ELSE "WRITE_ACCES_DENIED"

Writable(w) == w.id \in Params /\ Conform(w.id, w.val) /\ CanWrite(Rem[w.id])

\* What a parameter holds at first, and what a command may write into it, is one of
\* its values; the longest message has its length in a byte.
ASSUME ValuesAgree ==
  /\ Default \in [Params -> UNION {Values[p] : p \in Params}]
  /\ \A p \in Params : Size[p] \in Nat /\ Default[p] \in Values[p]
  /\ Values[TransLen] \subseteq 0 .. 255
  /\ \A c \in Cmds : c.op = "WRITE_PARAM" =>
       \A i \in 1 .. Len(c.arg) : Writable(c.arg[i]) => c.arg[i].val \in Values[c.arg[i].id]

\* The last parameter of the command is not examined.
BugWriteParam(ws) ==
  LET bad == {i \in 1 .. Len(ws) - 1 : ~Writable(ws[i])}
  IN  IF bad = {} THEN Accepted ELSE Refused(WriteError(ws[Min(bad)]))

\* Every parameter of the command is examined, and none is written.
WriteParam(ws) ==
  LET bad == {i \in 1 .. Len(ws) : ~Writable(ws[i])}
  IN  IF bad = {} THEN Accepted ELSE Refused(WriteError(ws[Min(bad)]))

WriteKey(k) == IF k.id \in {1, 2} THEN Accepted ELSE Refused("KEY_ILLEGAL_VALUE")

\* The channel of an announcement, (L7ChannelId - 100)/10 kept in a byte; the
\* division of C truncates.
Channel(c) == IF c < 100 THEN (-((100 - c) \div 10)) % 256 ELSE (c - 100) \div 10

BlockMs(a) == IF a.mod = "WM2400" THEN 1000 ELSE 500

\* The diffusion window.  The code computes it without sign on 32 bits, so
\* that a negative one is greater than a day.
Window(a)  == ((BlockMs(a) + a.delta * 1000) \div 1000) * a.blocks - a.delta

\* A negative window is not greater than a day.
BugFitsDay(a) == Window(a) <= Day

FitsDay(a) == Window(a) \in 0 .. Day

\* The tests of an announcement, in their order, each with its error.
AnnTests(a) ==
  << <<a.key = "KEY_CHG",                           "ANN_KCHG_NOT_USED">>,
     <<Channel(a.chan) <= 5,                        "ANN_ILLEGAL_VALUE">>,
     <<a.mod \in {"WM2400", "WM4800"},              "ANN_ILLEGAL_VALUE">>,
     <<a.repeat % 16 # 0,                           "ANN_ILLEGAL_VALUE">>,
     <<a.delta >= DeltaMin,                         "ANN_ILLEGAL_VALUE">>,
     <<a.hw = Hw,                                   "ANN_INCORRECT_HW_VER">>,
     <<a.ini = Fw,                                  "ANN_INCORRECT_INI_SW_VER">>,
     <<a.target # Fw,                               "ANN_TGT_VER_DWL">>,
     <<a.target > Fw,                               "ANN_TGT_SW_VER">>,
     <<a.days \in Now - ProgMin .. Now + ProgMax,   "ANN_INCORRECT_BCAST_START_DAY">>,
     <<FitsDay(a),                                  "ANN_DIFF_TIME_OUT_OF_WINDOWS">> >>

AnnDownload(a) ==
  LET failed == {i \in DOMAIN AnnTests(a) : ~AnnTests(a)[i][1]}
  IN  IF failed = {} THEN Accepted ELSE Refused(AnnTests(a)[Min(failed)][2])

\* The table of answers.  That to an unknown command leaves the size of the
\* response as it was: the code sets the size of the request instead.
Answer(c) ==
  IF c.op = "READ_PARAM" THEN ReadParam(c.arg)
  ELSE IF c.op = "WRITE_PARAM" THEN WriteParam(c.arg)
  ELSE IF c.op = "WRITE_KEY" THEN WriteKey(c.arg)
  ELSE IF c.op = "ANNDOWNLOAD" THEN AnnDownload(c.arg)
  ELSE [code |-> "UNK_CMD", size |-> rsp.size, body |-> <<>>]

As(i, r) == [id |-> i, code |-> r.code, size |-> r.size, body |-> r.body]
ExecPing(rs) == [code |-> "NONE", size |-> PingRsp, body |-> SubSeq(rs, 1, 3)]

-----------------------------------------------------------------------------
Init ==
  /\ value = Default
  /\ cmd = NoCmd /\ rsp = [id |-> 0, code |-> "NONE", size |-> 0, body |-> <<>>]
  /\ pend = {} /\ keys = {} /\ campaign = NoCampaign
  /\ phase = "idle" /\ pings = 0
  /\ PingInit

\* What AdmInt_PreCmd returns and makes of the response, with the replies rs.
PreCmd(c, rs) ==
  IF c.id # rsp.id
  THEN IF c.op = "EXECINSTPING" THEN <<0, As(c.id, rsp)>>
       ELSE <<1, As(c.id, Answer(c))>>
  ELSE <<2, IF c.op = "EXECINSTPING" THEN As(c.id, ExecPing(rs)) ELSE rsp>>

\* A command is received.  Without an answer the session ends, out of date.
Receive(c) ==
  /\ phase = "idle" /\ (pings = 0 \/ c.op \in AskAfter)
  /\ cmd' = c /\ rsp' = PreCmd(c, reply)[2]
  /\ \/ PreCmd(c, reply)[1] = 0 /\ pend' = pend \cup {"RSP"} /\ UNCHANGED phase
     \/ PreCmd(c, reply)[1] = 1 /\ pend' = pend \cup {"CMD"} /\ phase' = "answering"
     \/ PreCmd(c, reply)[1] = 2 /\ pend' = {} /\ phase' = "answering"
  /\ UNCHANGED <<value, keys, campaign, pings, pingVars>>

\* The last value the command gives the parameter, if it gives one and the head-end
\* may write the parameter.
Written(ws) ==
  [p \in Params |->
     LET at == {i \in 1 .. Len(ws) : ws[i].id = p /\ CanWrite(Rem[p])}
     IN  IF at = {} THEN value[p] ELSE ws[Max(at)].val]

PostCmd ==
  \/ rsp.code # "NONE" /\ UNCHANGED <<value, keys, campaign>>
  \/ rsp.code = "NONE" /\ cmd.op \notin {"WRITE_PARAM", "WRITE_KEY", "ANNDOWNLOAD"}
     /\ UNCHANGED <<value, keys, campaign>>
  \/ rsp.code = "NONE" /\ cmd.op = "WRITE_PARAM"
     /\ value' = Written(cmd.arg) /\ UNCHANGED <<keys, campaign>>
  \/ rsp.code = "NONE" /\ cmd.op = "WRITE_KEY"
     /\ keys' = keys \cup {IF cmd.arg.id = 1 THEN "KEY_MOB" ELSE "KEY_MAC"}
     /\ UNCHANGED <<value, campaign>>
  \/ rsp.code = "NONE" /\ cmd.op = "ANNDOWNLOAD"
     /\ keys' = keys \cup {"KEY_LOG"}
     /\ campaign' = [chan   |-> Channel(cmd.arg.chan), blocks |-> cmd.arg.blocks,
                     mod    |-> cmd.arg.mod,           repeat |-> cmd.arg.repeat,
                     delta  |-> cmd.arg.delta,         days   |-> cmd.arg.days]
     /\ UNCHANGED value

\* The response has been sent: the command that waits for it is executed.
RspSent ==
  /\ phase = "answering" /\ phase' = "idle"
  /\ IF "CMD" \in pend THEN PostCmd ELSE UNCHANGED <<value, keys, campaign>>
  /\ pend' = pend \ {"CMD"}
  /\ UNCHANGED <<cmd, rsp, pings, pingVars>>

\* The response could not be sent: the session ends, the action stays pending.
RspNotSent ==
  /\ phase = "answering" /\ phase' = "idle"
  /\ UNCHANGED <<admVars, pings, pingVars>>

\* Param_LocalAccess: the access is checked, the value is not.
LocalWrite(p, v) ==
  /\ phase # "pinging" /\ CanWrite(Loc[p])
  /\ value' = [value EXCEPT ![p] = v]
  /\ UNCHANGED <<cmd, rsp, pend, keys, campaign, phase, pings, pingVars>>

-----------------------------------------------------------------------------
PingOpen ==
  /\ phase = "idle" /\ pings < MaxPings /\ cmd.op \in PingAfter
  /\ phase' = "pinging" /\ pings' = pings + 1
  /\ InstInit /\ UNCHANGED admVars

Pong(s, r) ==
  /\ phase = "pinging" /\ InstAdd(s, r)
  /\ UNCHANGED <<admVars, phase, pings>>

\* The end of the session.  With a response pending the last command is examined
\* again, and the answer to EXECINSTPING is then built from the new replies.
PingDone ==
  /\ phase = "pinging" /\ phase' = "idle"
  /\ InstEnd
  /\ rsp' = IF "CMD" \in pend THEN PreCmd(cmd, reply')[2] ELSE rsp
  /\ pend' = pend \ {"CMD"}
  /\ UNCHANGED <<value, cmd, keys, campaign, pings>>

HeadEnd == \E c \in Cmds : Receive(c)
Device  == RspSent \/ RspNotSent \/ PingOpen \/ PingDone
Writes  == \E p \in Local : \E v \in Values[p] : LocalWrite(p, v)
Pongs   == \E s \in Senders, r \in Rssis : Pong(s, r)

Next == HeadEnd \/ Device \/ Writes \/ Pongs
Spec == Init /\ [][Next]_vars

-----------------------------------------------------------------------------
\* The variables have their types; the channel of a campaign is one of the six.
TypeOK ==
  /\ PingTypeOK
  /\ value \in [Params -> UNION {Values[p] : p \in Params}]
  /\ \A p \in Params : value[p] \in Values[p]
  /\ cmd \in Cmds \cup {NoCmd}
  /\ rsp.id = cmd.id /\ rsp.size \in 0 .. 255
  /\ pend \in SUBSET {"CMD", "RSP"} /\ keys \in SUBSET {"KEY_MOB", "KEY_MAC", "KEY_LOG"}
  /\ campaign # NoCampaign => campaign.chan \in 0 .. 5 /\ campaign.delta >= DeltaMin
  /\ phase \in {"idle", "answering", "pinging"} /\ pings \in 0 .. MaxPings

\* A command only changes parameters the head-end may write, and gives them
\* values that conform, whatever the application writes between its check and
\* its execution, and all the values of the command or none: the parameters are
\* checked with PreCmd and written with postCmd, which checks the access only.
RemoteChangesLegal ==
  [][phase = "answering" /\ value' # value /\ phase' = "idle" =>
       /\ cmd.op = "WRITE_PARAM" /\ rsp.code = "NONE"
       /\ \A p \in Params : value'[p] # value[p] => CanWrite(Rem[p]) /\ Conform(p, value'[p])
       /\ \A i \in 1 .. Len(cmd.arg) :
            /\ cmd.arg[i].id \in Params
            /\ \/ value'[cmd.arg[i].id] = cmd.arg[i].val
               \/ \E j \in i + 1 .. Len(cmd.arg) : cmd.arg[j].id = cmd.arg[i].id]_vars

\* The answer to READ_PARAM, whatever the order of the parameters and although the
\* longest message can be changed locally, fits the longest message and carries
\* no parameter the head-end may not read.
ReadIsAllowed ==
  [][rsp' # rsp /\ cmd'.op = "READ_PARAM" /\ rsp'.code = "NONE" =>
       /\ rsp'.size <= value[TransLen]
       /\ \A i \in 1 .. Len(rsp'.body) : CanRead(Rem[rsp'.body[i]])]_vars

\* An announcement that has been executed has a block to receive, and the start of
\* its last block is not later than a day after that of the first (the division
\* of the duration of a block loses the half second of WM4800, and the
\* difference is unsigned).
AnnouncedFits ==
  campaign # NoCampaign =>
    /\ campaign.blocks >= 1 /\ campaign.repeat >= 1
    /\ (campaign.blocks - 1) * campaign.delta <= Day

\* Of the replies that came from gateways it did not know, the strongest is among
\* those the end of the session writes into PING_REPLYn, although a container may
\* have left the ring.
StrongestReported ==
  phase = "idle" /\ pings > 0 /\ nbPong > 0 => \E i \in 1 .. N : reply[i].rssi = strongest

\* The types, the ring of the replies, and that the strongest reply is reported.
AdmInv == TypeOK /\ RingInv /\ StrongestReported
=============================================================================
