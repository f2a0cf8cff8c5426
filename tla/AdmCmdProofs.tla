----------------------------- MODULE AdmCmdProofs -----------------------------
(***************************************************************************)
(* What the head-end's commands can do to the parameters and to the        *)
(* download, for every table of parameters, every set of well-formed       *)
(* commands and every moment at which the application writes.              *)
(*                                                                         *)
(* The argument is the invariant Checked: the check of a command and its   *)
(* execution are two steps with others in between, and what ties them is   *)
(* that a pending execution belongs to the command in sCmdMsg and to the   *)
(* response in sRspMsg.                                                    *)
(*                                                                         *)
(* The replies to a ping are linked in a ring that gets shorter: RingInv   *)
(* says that what is left of it leads from the worst to the best, which is *)
(* all the search for a place and the report at the end rely on.  Both     *)
(* follow the links by a recursive function, whose existence Iteration     *)
(* gives and whose values UpTo.                                            *)
(***************************************************************************)
EXTENDS AdmCmd, SequenceTheorems, WellFoundedInduction, TLAPS

\* A set of naturals that is not empty has a least element, which Min returns.
LEMMA MinIsLeast ==
  ASSUME NEW S \in SUBSET Nat, S # {}
  PROVE  Min(S) \in S /\ \A y \in S : Min(S) <= y
<1> DEFINE R == OpToRel(<, Nat)
<1>1. IsWellFoundedOn(R, Nat)
  BY NatLessThanWellFounded
<1>2. R = {ss \in Nat \X Nat : ss[1] < ss[2]}
  BY DEF OpToRel
<1> HIDE DEF R
<1>3. PICK x \in S : \A y \in S : ~ (<<y, x>> \in R)
  BY <1>1, WFMin
<1>4. \A y \in S : x <= y
  <2> SUFFICES ASSUME NEW y \in S, y < x PROVE FALSE
    OBVIOUS
  <2>1. <<y, x>> \in Nat \X Nat /\ <<y, x>>[1] < <<y, x>>[2]
    OBVIOUS
  <2>2. <<y, x>> \in R
    BY <1>2, <2>1, Zenon
  <2> QED BY <1>3, <2>2
<1>5. \E m \in S : \A y \in S : m <= y
  BY <1>4
<1> QED BY <1>5, Zenon DEF Min

\* A set of indices that is not empty has a greatest one, which Max returns.
LEMMA MaxIsGreatest ==
  ASSUME NEW n \in Nat, NEW S \in SUBSET (1 .. n), S # {}
  PROVE  Max(S) \in S /\ \A y \in S : Max(S) >= y
<1> DEFINE T == {n - y : y \in S}
<1>1. T \in SUBSET Nat /\ T # {}
  <2>1. \A y \in S : n - y \in Nat
    OBVIOUS
  <2> QED BY <2>1
<1>2. PICK t \in T : \A u \in T : t <= u
  BY <1>1, MinIsLeast
<1>3. PICK x \in S : t = n - x
  BY <1>2
<1>4. \A y \in S : x >= y
  <2> SUFFICES ASSUME NEW y \in S PROVE x >= y
    OBVIOUS
  <2>1. n - y \in T
    OBVIOUS
  <2>2. n - x <= n - y
    BY <1>2, <1>3, <2>1
  <2> QED BY <2>2
<1> QED BY <1>4 DEF Max

-----------------------------------------------------------------------------
\* What an answer without an error says of its command.
AllWritable(ws) == \A i \in 1 .. Len(ws) : Writable(ws[i])

Announceable(a) ==
  Channel(a.chan) <= 5 /\ a.repeat % 16 # 0 /\ a.delta >= DeltaMin /\ FitsDay(a)

LEMMA WriteAnswer ==
  ASSUME NEW c \in Cmds, c.op = "WRITE_PARAM", WriteParam(c.arg).code = "NONE"
  PROVE  AllWritable(c.arg)
<1> DEFINE bad == {i \in 1 .. Len(c.arg) : ~Writable(c.arg[i])}
<1>1. \A w : WriteError(w) # "NONE"
  BY DEF WriteError
<1>2. bad = {}
  BY <1>1 DEF WriteParam, Refused
<1> QED BY <1>2 DEF AllWritable

LEMMA ReadAnswer ==
  ASSUME NEW c \in Cmds, c.op = "READ_PARAM", ReadParam(c.arg).code = "NONE"
  PROVE  /\ ReadParam(c.arg).size <= value[TransLen]
         /\ \A i \in 1 .. Len(ReadParam(c.arg).body) : CanRead(Rem[ReadParam(c.arg).body[i]])
<1> DEFINE ps == c.arg
           bad == {i \in 1 .. Len(ps) : ~Readable(ps, i)}
<1>1. \A i : ReadError(ps, i) # "NONE"
  BY DEF ReadError
<1>2. bad = {}
  BY <1>1 DEF ReadParam, Refused
<1>3. ReadParam(ps) = [code |-> "NONE", size |-> Length(ps), body |-> ps]
  BY <1>2 DEF ReadParam
<1>4. ps \in Seq(STRING) /\ Len(ps) > 0
  <2>1. WellFormed(c)
    BY AdmConstants DEF AdmConstants
  <2> QED BY <2>1 DEF WellFormed, ReadArg
<1>5. SubSeq(ps, 1, Len(ps)) = ps
  BY <1>4, SubSeqFull
<1>6. Readable(ps, Len(ps))
  BY <1>2, <1>4
<1>7. Length(ps) <= value[TransLen]
  BY <1>5, <1>6 DEF Readable
<1> QED BY <1>2, <1>3, <1>7 DEF Readable

LEMMA AnnAnswer ==
  ASSUME NEW a, AnnDownload(a).code = "NONE"
  PROVE  Announceable(a)
<1> DEFINE failed == {i \in DOMAIN AnnTests(a) : ~AnnTests(a)[i][1]}
<1>1. DOMAIN AnnTests(a) = 1 .. 11
  BY DEF AnnTests
<1>2. \A i \in 1 .. 11 : AnnTests(a)[i][2] # "NONE"
  BY DEF AnnTests
<1>3. failed = {}
  <2> SUFFICES ASSUME failed # {} PROVE FALSE
    OBVIOUS
  <2>1. Min(failed) \in 1 .. 11
    BY <1>1, MinIsLeast
  <2> QED BY <1>2, <2>1 DEF AnnDownload, Refused
<1>4. \A i \in 1 .. 11 : AnnTests(a)[i][1]
  BY <1>1, <1>3
<1>5. AnnTests(a)[2][1] /\ AnnTests(a)[4][1] /\ AnnTests(a)[5][1] /\ AnnTests(a)[11][1]
  BY <1>4
<1> QED BY <1>5 DEF AnnTests, Announceable

-----------------------------------------------------------------------------
\* A pending execution is that of the command that was checked, and the campaign
\* was announced by such a command.
Answered == rsp.id = cmd.id

Checked ==
  "CMD" \in pend /\ rsp.code = "NONE" =>
    /\ cmd.op = "WRITE_PARAM" => cmd \in Cmds /\ AllWritable(cmd.arg)
    /\ cmd.op = "ANNDOWNLOAD" => cmd \in Cmds /\ Announceable(cmd.arg)

IInv == Answered /\ Checked /\ AnnouncedFits

LEMMA ReceiveChecked ==
  ASSUME NEW c \in Cmds, Receive(c)
  PROVE  Answered' /\ Checked'
<1>1. CASE PreCmd(c, reply)[1] = 0
  <2>1. c.op = "EXECINSTPING" /\ rsp' = As(c.id, rsp) /\ cmd' = c
    BY <1>1 DEF Receive, PreCmd
  <2> QED BY <2>1 DEF As, Answered, Checked
<1>2. CASE PreCmd(c, reply)[1] = 1
  <2>1. rsp' = As(c.id, Answer(c)) /\ cmd' = c
    BY <1>2 DEF Receive, PreCmd
  <2>2. Answered'
    BY <2>1 DEF As, Answered
  <2>3. ASSUME rsp'.code = "NONE", c.op = "WRITE_PARAM" PROVE AllWritable(c.arg)
    <3>1. WriteParam(c.arg).code = "NONE"
      BY <2>1, <2>3 DEF As, Answer
    <3> QED BY <2>3, <3>1, WriteAnswer
  <2>4. ASSUME rsp'.code = "NONE", c.op = "ANNDOWNLOAD" PROVE Announceable(c.arg)
    <3>1. AnnDownload(c.arg).code = "NONE"
      BY <2>1, <2>4 DEF As, Answer
    <3> QED BY <3>1, AnnAnswer
  <2>5. Checked'
    <3>1. rsp'.code = "NONE" /\ cmd'.op = "WRITE_PARAM" => cmd' \in Cmds /\ AllWritable(cmd'.arg)
      BY <2>1, <2>3
    <3>2. rsp'.code = "NONE" /\ cmd'.op = "ANNDOWNLOAD" => cmd' \in Cmds /\ Announceable(cmd'.arg)
      BY <2>1, <2>4
    <3> QED BY <3>1, <3>2 DEF Checked, AllWritable, Writable, Conform, Meets,
         Announceable, Channel, FitsDay, Window, BlockMs
  <2> QED BY <2>2, <2>5
<1>3. CASE PreCmd(c, reply)[1] = 2 /\ pend' = {}
  <2>1. rsp'.id = c.id /\ cmd' = c
    BY <1>3 DEF Receive, PreCmd, As
  <2> QED BY <1>3, <2>1 DEF Answered, Checked
<1>4. PreCmd(c, reply)[1] \in {0, 1, 2} /\ (PreCmd(c, reply)[1] = 2 => pend' = {})
  BY DEF Receive, PreCmd
<1> QED BY <1>1, <1>2, <1>3, <1>4

\* The unsigned difference and the division that loses half a second still leave
\* the last block within a day of the first.
LEMMA FitsDayBounds ==
  ASSUME NEW a, AnnArg(a), Announceable(a)
  PROVE  /\ a.blocks >= 1 /\ a.repeat >= 1
         /\ (a.blocks - 1) * a.delta <= Day
<1> DEFINE d == a.delta
           b == a.blocks
           u == (BlockMs(a) + d * 1000) \div 1000
<1>1. /\ d \in Nat /\ b \in Nat /\ a.repeat \in Nat
      /\ Day \in Nat /\ DeltaMin \in Nat \ {0}
  <2>1. d \in Nat /\ b \in Nat /\ a.repeat \in Nat
    BY DEF AnnArg
  <2>2. Day \in Nat /\ DeltaMin \in Nat \ {0}
    BY AdmConstants, Zenon DEF AdmConstants
  <2> QED BY <2>1, <2>2
<1>0. d >= 1 /\ a.repeat >= 1
  BY <1>1 DEF Announceable
<1>2. u \in Nat /\ u >= d
  BY <1>1 DEF BlockMs
<1>3. u * b - d \in 0 .. Day
  BY DEF Announceable, FitsDay, Window
<1> HIDE DEF u
<1>4. (u - d) * b >= 0
  BY <1>1, <1>2
<1>5. d * b <= u * b
  BY <1>1, <1>2, <1>4
<1>6. (b - 1) * d = d * b - d
  BY <1>1
<1>7. (b - 1) * d <= Day
  <2>1. d * b \in Nat /\ u * b \in Nat
    BY <1>1, <1>2
  <2> QED BY <1>1, <1>3, <1>5, <1>6, <2>1
<1>8. b >= 1
  <2> SUFFICES ASSUME b = 0 PROVE FALSE
    BY <1>1
  <2>1. u * b = 0
    BY <1>2
  <2> QED BY <1>0, <1>1, <1>3, <2>1
<1> QED BY <1>0, <1>7, <1>8

LEMMA InitChecked ==
  ASSUME Init PROVE IInv
BY DEF Init, IInv, Answered, Checked, AnnouncedFits, NoCmd

\* The end of a ping examines the command of sCmdMsg again: it has been answered.
LEMMA PingDoneAnswered ==
  ASSUME Answered, PingDone
  PROVE  /\ Answered' /\ "CMD" \notin pend' /\ cmd' = cmd
         /\ cmd.op # "EXECINSTPING" => rsp' = rsp
<1>1. cmd' = cmd /\ "CMD" \notin pend'
  BY DEF PingDone
<1>2. CASE "CMD" \in pend
  <2>1. rsp' = IF cmd.op = "EXECINSTPING" THEN As(cmd.id, ExecPing(reply')) ELSE rsp
    BY <1>2 DEF PingDone, PreCmd, Answered
  <2> QED BY <1>1, <2>1 DEF Answered, As
<1>3. CASE "CMD" \notin pend
  <2>1. rsp' = rsp
    BY <1>3 DEF PingDone
  <2> QED BY <1>1, <2>1 DEF Answered
<1> QED BY <1>2, <1>3

\* A step that leaves the session's messages and the campaign alone, and adds no
\* pending execution.
LEMMA Untouched ==
  ASSUME IInv, cmd' = cmd, rsp' = rsp, pend' \subseteq pend, campaign' = campaign
  PROVE  IInv'
<1>1. Answered' /\ AnnouncedFits'
  BY DEF IInv, Answered, AnnouncedFits
<1>2. AllWritable(cmd.arg)' <=> AllWritable(cmd.arg)
  BY DEF AllWritable, Writable, Conform, Meets, CanWrite
<1>3. Announceable(cmd.arg)' <=> Announceable(cmd.arg)
  BY DEF Announceable, FitsDay, Window, BlockMs, Channel
<1>4. Checked'
  BY <1>2, <1>3 DEF IInv, Checked
<1> QED BY <1>1, <1>4 DEF IInv

LEMMA ExecutedFits ==
  ASSUME Checked, AnnouncedFits, "CMD" \in pend, PostCmd
  PROVE  AnnouncedFits'
<1>1. CASE campaign' = campaign
  BY <1>1 DEF AnnouncedFits
<1>2. CASE campaign' # campaign
  <2>1. cmd.op = "ANNDOWNLOAD" /\ rsp.code = "NONE"
    BY <1>2 DEF PostCmd
  <2>2. cmd \in Cmds /\ Announceable(cmd.arg)
    BY <2>1 DEF Checked
  <2>3. AnnArg(cmd.arg)
    <3>1. WellFormed(cmd)
      BY <2>2, AdmConstants DEF AdmConstants
    <3> QED BY <2>1, <3>1 DEF WellFormed
  <2>4. /\ campaign'.blocks = cmd.arg.blocks /\ campaign'.repeat = cmd.arg.repeat
        /\ campaign'.delta = cmd.arg.delta
    BY <1>2, <2>1 DEF PostCmd
  <2> QED BY <2>2, <2>3, <2>4, FitsDayBounds DEF AnnouncedFits
<1> QED BY <1>1, <1>2

LEMMA StepChecked ==
  ASSUME IInv, [Next]_vars PROVE IInv'
<1> USE DEF IInv
<1>1. CASE HeadEnd
  <2>1. PICK c \in Cmds : Receive(c)
    BY <1>1 DEF HeadEnd
  <2>2. campaign' = campaign
    BY <2>1 DEF Receive
  <2> QED BY <2>1, <2>2, ReceiveChecked DEF AnnouncedFits
<1>2. CASE RspSent
  <2>1. cmd' = cmd /\ rsp' = rsp /\ "CMD" \notin pend'
    BY <1>2 DEF RspSent
  <2>2. AnnouncedFits'
    BY <1>2, ExecutedFits DEF RspSent, AnnouncedFits
  <2> QED BY <2>1, <2>2 DEF Answered, Checked
<1>3. CASE RspNotSent
  BY <1>3, Untouched DEF RspNotSent, admVars
<1>4. CASE PingOpen
  BY <1>4, Untouched DEF PingOpen, admVars
<1>5. CASE PingDone
  <2>1. AnnouncedFits'
    BY <1>5 DEF PingDone, AnnouncedFits
  <2> QED BY <1>5, <2>1, PingDoneAnswered DEF Checked
<1>6. CASE Writes
  BY <1>6, Untouched DEF Writes, LocalWrite
<1>7. CASE Pongs
  BY <1>7, Untouched DEF Pongs, Pong, admVars
<1>8. CASE UNCHANGED vars
  BY <1>8, Untouched DEF vars, admVars
<1> QED BY <1>1, <1>2, <1>3, <1>4, <1>5, <1>6, <1>7, <1>8 DEF Next, Device

LEMMA AlwaysChecked == Spec => []IInv
<1>1. Init => IInv
  BY InitChecked
<1>2. IInv /\ [Next]_vars => IInv'
  BY StepChecked
<1> QED BY <1>1, <1>2, PTL DEF Spec

\* An announcement that has been executed has a block to receive, and the start of
\* its last block is not later than a day after that of the first.
THEOREM AnnouncedFitsAlways == Spec => []AnnouncedFits
<1>1. IInv => AnnouncedFits
  BY DEF IInv
<1> QED BY <1>1, AlwaysChecked, PTL

-----------------------------------------------------------------------------
\* What the execution of a checked WRITE_PARAM makes of the parameters.
LEMMA WrittenLegal ==
  ASSUME NEW ws, WriteArg(ws), AllWritable(ws), value' = Written(ws)
  PROVE  /\ \A p \in Params : value'[p] # value[p] => CanWrite(Rem[p]) /\ Conform(p, value'[p])
         /\ \A i \in 1 .. Len(ws) :
              /\ ws[i].id \in Params
              /\ \/ value'[ws[i].id] = ws[i].val
                 \/ \E j \in i + 1 .. Len(ws) : ws[j].id = ws[i].id
<1> DEFINE At(p) == {i \in 1 .. Len(ws) : ws[i].id = p /\ CanWrite(Rem[p])}
<1>1. Len(ws) \in Nat
  BY DEF WriteArg
<1>2. \A p \in Params : value'[p] = IF At(p) = {} THEN value[p] ELSE ws[Max(At(p))].val
  BY DEF Written
<1>3. \A p \in Params : At(p) # {} => Max(At(p)) \in At(p) /\ \A y \in At(p) : Max(At(p)) >= y
  BY <1>1, MaxIsGreatest
<1>4. \A i \in 1 .. Len(ws) :
        ws[i].id \in Params /\ CanWrite(Rem[ws[i].id]) /\ Conform(ws[i].id, ws[i].val)
  BY Zenon DEF AllWritable, Writable
<1>5. ASSUME NEW p \in Params, value'[p] # value[p]
      PROVE  CanWrite(Rem[p]) /\ Conform(p, value'[p])
  <2>1. At(p) # {}
    BY <1>2, <1>5
  <2>2. PICK m \in 1 .. Len(ws) : ws[m].id = p /\ value'[p] = ws[m].val
    BY <1>2, <1>3, <2>1
  <2> QED BY <1>4, <2>2
<1>6. ASSUME NEW i \in 1 .. Len(ws)
      PROVE  \/ value'[ws[i].id] = ws[i].val
             \/ \E j \in i + 1 .. Len(ws) : ws[j].id = ws[i].id
  <2> DEFINE p == ws[i].id
  <2>1. p \in Params /\ i \in At(p) /\ At(p) # {}
    BY <1>4
  <2>2. Max(At(p)) \in At(p) /\ Max(At(p)) >= i
    BY <1>3, <2>1
  <2>3. CASE Max(At(p)) = i
    BY <1>2, <2>1, <2>3
  <2>4. CASE Max(At(p)) # i
    <3> DEFINE j == Max(At(p))
    <3>1. ws[j].id = p /\ j \in 1 .. Len(ws) /\ j >= i
      BY <2>2
    <3> HIDE DEF j, p
    <3>2. j \in i + 1 .. Len(ws)
      BY <1>1, <2>4, <3>1 DEF j
    <3> QED BY <3>1, <3>2 DEF p
  <2> QED BY <2>3, <2>4
<1> QED BY <1>4, <1>5, <1>6

\* A command only changes parameters the head-end may write, and gives them
\* values that conform, all the values of the command or none.
THEOREM RemoteChangesLegalAlways == Spec => RemoteChangesLegal
<1> DEFINE Legal ==
      phase = "answering" /\ value' # value /\ phase' = "idle" =>
       /\ cmd.op = "WRITE_PARAM" /\ rsp.code = "NONE"
       /\ \A p \in Params : value'[p] # value[p] => CanWrite(Rem[p]) /\ Conform(p, value'[p])
       /\ \A i \in 1 .. Len(cmd.arg) :
            /\ cmd.arg[i].id \in Params
            /\ \/ value'[cmd.arg[i].id] = cmd.arg[i].val
               \/ \E j \in i + 1 .. Len(cmd.arg) : cmd.arg[j].id = cmd.arg[i].id
<1>1. IInv /\ [Next]_vars => [Legal]_vars
  <2> SUFFICES ASSUME IInv, Next, phase = "answering", phase' = "idle", value' # value
               PROVE  Legal
    OBVIOUS
  <2>1. RspSent /\ "CMD" \in pend /\ PostCmd
    BY DEF Next, HeadEnd, Device, Writes, Pongs, Receive, RspSent, RspNotSent, PingOpen,
       PingDone, LocalWrite, Pong, admVars
  <2>2. cmd.op = "WRITE_PARAM" /\ rsp.code = "NONE" /\ value' = Written(cmd.arg)
    BY <2>1 DEF PostCmd
  <2>3. cmd \in Cmds /\ AllWritable(cmd.arg)
    BY <2>1, <2>2 DEF IInv, Checked
  <2>4. WriteArg(cmd.arg)
    <3>1. WellFormed(cmd)
      BY <2>3, AdmConstants DEF AdmConstants
    <3> QED BY <2>2, <3>1 DEF WellFormed
  <2> QED BY <2>2, <2>3, <2>4, WrittenLegal
<1> QED BY <1>1, AlwaysChecked, PTL DEF Spec, RemoteChangesLegal

\* The answer to READ_PARAM fits the longest message of the moment it was made,
\* and carries no parameter the head-end may not read.
THEOREM ReadIsAllowedAlways == Spec => ReadIsAllowed
<1> DEFINE Allowed ==
      rsp' # rsp /\ cmd'.op = "READ_PARAM" /\ rsp'.code = "NONE" =>
       /\ rsp'.size <= value[TransLen]
       /\ \A i \in 1 .. Len(rsp'.body) : CanRead(Rem[rsp'.body[i]])
<1>1. IInv /\ [Next]_vars => [Allowed]_vars
  <2> SUFFICES ASSUME IInv, Next, rsp' # rsp, cmd'.op = "READ_PARAM", rsp'.code = "NONE"
               PROVE  Allowed
    OBVIOUS
  <2>1. CASE PingDone
    BY <2>1, PingDoneAnswered DEF IInv
  <2>2. CASE HeadEnd
    <3>1. PICK c \in Cmds : Receive(c)
      BY <2>2 DEF HeadEnd
    <3>2. c.op = "READ_PARAM" /\ rsp' = PreCmd(c, reply)[2]
      BY <3>1 DEF Receive
    <3>3. rsp' = As(c.id, Answer(c))
      BY <3>2 DEF PreCmd
    <3>4. rsp' = As(c.id, ReadParam(c.arg))
      BY <3>2, <3>3 DEF Answer
    <3>5. ReadParam(c.arg).code = "NONE"
      BY <3>4 DEF As
    <3> QED BY <3>2, <3>4, <3>5, ReadAnswer DEF As
  <2>3. CASE ~(PingDone \/ HeadEnd)
    BY <2>3 DEF Next, Device, Writes, Pongs, RspSent, RspNotSent, PingOpen, LocalWrite, Pong, admVars
  <2> QED BY <2>1, <2>2, <2>3
<1> QED BY <1>1, AlwaysChecked, PTL DEF Spec, ReadIsAllowed

-----------------------------------------------------------------------------
(* The ring of the replies to a ping, and the types.                       *)

\* What holds of 0, and of each number if of the one before it, holds of all up to n.
LEMMA UpTo ==
  ASSUME NEW n \in Nat, NEW P, 0 \in P, \A k \in 1 .. n : k - 1 \in P => k \in P
  PROVE  \A k \in 0 .. n : k \in P
<1> DEFINE missed == {k \in 0 .. n : k \notin P}
<1> SUFFICES ASSUME missed # {} PROVE FALSE
  OBVIOUS
<1>1. missed \in SUBSET Nat
  OBVIOUS
<1>2. PICK m \in missed : \A y \in missed : m <= y
  <2> HIDE DEF missed
  <2> QED BY <1>1, MinIsLeast
<1>3. m \in 1 .. n /\ m \notin P
  OBVIOUS
<1>4. m - 1 \in 0 .. n /\ ~(m <= m - 1)
  BY <1>3
<1>5. m - 1 \notin missed
  BY <1>2, <1>4
<1> QED BY <1>3, <1>4, <1>5

\* f on 0..m begins with x and goes on by the steps.
Iterates(f, m, x, step) == f[0] = x /\ \A k \in 1 .. m : f[k] = step[k][f[k - 1]]

\* Such a function exists, if every step stays in a set.
LEMMA Iteration ==
  ASSUME NEW n \in Nat, NEW S, NEW x \in S, NEW step \in [1 .. n -> [S -> S]]
  PROVE  \E f \in [0 .. n -> S] : Iterates(f, n, x, step)
<1> USE DEF Iterates
<1> DEFINE Steps(f, m) == Iterates(f, m, x, step)
           reached == {m \in 0 .. n : \E f \in [0 .. n -> S] : Steps(f, m)}
<1>1. 0 \in reached
  <2> DEFINE f == [k \in 0 .. n |-> x]
  <2>1. f \in [0 .. n -> S] /\ Steps(f, 0)
    OBVIOUS
  <2> HIDE DEF f
  <2>2. 0 \in 0 .. n
    OBVIOUS
  <2> QED BY <2>1, <2>2
<1>2. ASSUME NEW m \in 1 .. n, m - 1 \in reached PROVE m \in reached
  <2>1. m - 1 \in 0 .. n /\ m \in 0 .. n
    OBVIOUS
  <2>2. PICK f \in [0 .. n -> S] : Steps(f, m - 1)
    BY <1>2
  <2> DEFINE g == [f EXCEPT ![m] = step[m][f[m - 1]]]
  <2>3. step[m][f[m - 1]] \in S
    BY <2>1
  <2>4. g \in [0 .. n -> S] /\ g[0] = x
    BY <2>1, <2>2, <2>3
  <2>5. ASSUME NEW k \in 1 .. m PROVE g[k] = step[k][g[k - 1]]
    <3>1. k - 1 \in 0 .. n /\ k - 1 # m /\ k \in 0 .. n
      OBVIOUS
    <3>2. CASE k = m
      BY <2>1, <3>1, <3>2
    <3>3. CASE k # m
      <4>1. k \in 1 .. m - 1
        BY <3>3
      <4> QED BY <2>2, <3>1, <3>3, <4>1
    <3> QED BY <3>2, <3>3
  <2> QED BY <2>1, <2>4, <2>5
<1>3. n \in reached
  <2>1. n \in 0 .. n
    OBVIOUS
  <2> HIDE DEF reached
  <2>2. \A k \in 0 .. n : k \in reached
    BY <1>1, <1>2, UpTo
  <2> QED BY <2>1, <2>2
<1> QED BY <1>3

\* The containers from the worst one on, as InstInt_End meets them.
LEMMA NthOf ==
  ASSUME PingTypeOK
  PROVE  Nth \in [0 .. N -> Containers] /\ Nth[0] = worst /\ \A k \in 1 .. N : Nth[k] = next[Nth[k - 1]]
<1> DEFINE Body(f) == [k \in 0 .. N |-> IF k = 0 THEN worst ELSE next[f[k - 1]]]
<1>0. N \in Nat /\ worst \in Containers /\ next \in [Containers -> Containers]
  BY PingConstants DEF PingTypeOK
<1>1. PICK f \in [0 .. N -> Containers] : f[0] = worst /\ \A k \in 1 .. N : f[k] = next[f[k - 1]]
  <2> DEFINE step == [k \in 1 .. N |-> next]
  <2>1. step \in [1 .. N -> [Containers -> Containers]]
    BY <1>0
  <2>2. \A k \in 1 .. N : step[k] = next
    OBVIOUS
  <2> HIDE DEF step
  <2>3. \E f \in [0 .. N -> Containers] : Iterates(f, N, worst, step)
    BY <1>0, <2>1, Iteration
  <2> QED BY <2>2, <2>3 DEF Iterates
<1>2. f = Body(f)
  <2>1. \A k \in 0 .. N : f[k] = Body(f)[k]
    BY <1>1, <1>0
  <2> QED BY <1>1, <2>1
<1>3. Nth = Body(Nth)
  BY <1>2, Zenon DEF Nth
<1>4. \A k \in 0 .. N : Nth[k] = IF k = 0 THEN worst ELSE next[Nth[k - 1]]
  BY <1>3, Zenon
<1>5. \A k \in 0 .. N : Nth[k] \in Containers
  <2> DEFINE P == {k \in 0 .. N : Nth[k] \in Containers}
  <2>1. 0 \in P
    BY <1>0, <1>4
  <2>2. ASSUME NEW k \in 1 .. N, k - 1 \in P PROVE k \in P
    BY <1>0, <1>4, <2>2
  <2> HIDE DEF P
  <2>3. \A k \in 0 .. N : k \in P
    BY <1>0, <2>1, <2>2, UpTo
  <2> QED BY <2>3 DEF P
<1>6. Nth \in [0 .. N -> Containers]
  BY <1>3, <1>4, <1>5
<1>7. \A k \in 1 .. N : Nth[k] = next[Nth[k - 1]]
  BY <1>0, <1>4
<1> QED BY <1>0, <1>4, <1>6, <1>7

\* A step of the search for the place of a reply.
Further(r, c) == IF c # best /\ r >= rssi[next[c]] THEN next[c] ELSE c

\* The place of a reply is where the steps along the ring end.
LEMMA PlaceOf ==
  ASSUME PingTypeOK, NEW r
  PROVE  \E f \in [0 .. N -> Containers] :
           /\ f[0] = worst /\ \A k \in 1 .. N : f[k] = Further(r, f[k - 1])
           /\ Place(r) = f[N]
<1> DEFINE Body(f) == [k \in 0 .. N |->
             IF k = 0 THEN worst
             ELSE LET c == f[k - 1]
                  IN  IF c # best /\ r >= rssi[next[c]] THEN next[c] ELSE c]
           at == CHOOSE f : f = Body(f)
<1>0. N \in Nat /\ worst \in Containers /\ next \in [Containers -> Containers]
  BY PingConstants DEF PingTypeOK
<1>1. \A c \in Containers : Further(r, c) \in Containers
  BY <1>0 DEF Further
<1>2. PICK f \in [0 .. N -> Containers] : f[0] = worst /\ \A k \in 1 .. N : f[k] = Further(r, f[k - 1])
  <2> DEFINE step == [k \in 1 .. N |-> [c \in Containers |-> Further(r, c)]]
  <2>1. step \in [1 .. N -> [Containers -> Containers]]
    BY <1>1
  <2>2. \A k \in 1 .. N : \A c \in Containers : step[k][c] = Further(r, c)
    OBVIOUS
  <2> HIDE DEF step
  <2>3. PICK f \in [0 .. N -> Containers] : Iterates(f, N, worst, step)
    BY <1>0, <2>1, Iteration
  <2>4. \A k \in 1 .. N : f[k - 1] \in Containers
    BY <1>0
  <2> QED BY <2>2, <2>3, <2>4 DEF Iterates
<1>3. f = Body(f)
  <2>1. \A k \in 0 .. N : f[k] = Body(f)[k]
    BY <1>2, <1>0 DEF Further
  <2> QED BY <1>2, <2>1
<1>4. at = Body(at)
  BY <1>3, Zenon
<1>5. Place(r) = at[N]
  BY Zenon DEF Place
<1> HIDE DEF at
<1>6. \A k \in 0 .. N : at[k] = IF k = 0 THEN worst ELSE Further(r, at[k - 1])
  BY <1>4, Zenon DEF Further
<1>7. \A k \in 0 .. N : at[k] \in Containers
  <2> DEFINE P == {k \in 0 .. N : at[k] \in Containers}
  <2>1. 0 \in P
    BY <1>0, <1>6
  <2>2. ASSUME NEW k \in 1 .. N, k - 1 \in P PROVE k \in P
    BY <1>0, <1>1, <1>6, <2>2
  <2> HIDE DEF P
  <2>3. \A k \in 0 .. N : k \in P
    BY <1>0, <2>1, <2>2, UpTo
  <2> QED BY <2>3 DEF P
<1>8. at \in [0 .. N -> Containers]
  BY <1>4, <1>7
<1>9. at[0] = worst /\ \A k \in 1 .. N : at[k] = Further(r, at[k - 1])
  BY <1>0, <1>6
<1> QED BY <1>5, <1>8, <1>9

LEMMA RssiNat ==
  ASSUME PingTypeOK
  PROVE  rssi \in [Containers -> Nat] /\ strongest \in Nat
<1>1. Rssis \cup {0} \subseteq Nat
  BY PingConstants
<1> QED BY <1>1 DEF PingTypeOK

\* On the ring, the place is a container of it: the best one, if the reply is as good
\* as that, or one before a better one.
LEMMA PlaceOnRing ==
  ASSUME PingTypeOK, NEW n \in 1 .. N, NEW c \in [1 .. n -> Containers], Ring(n, c),
         NEW r \in Nat, r >= rssi[worst]
  PROVE  \E j \in 1 .. n : /\ Place(r) = c[j]
                           /\ j = n => r >= rssi[best]
                           /\ j # n => r < rssi[c[j + 1]]
<1>0. /\ N \in Nat /\ n \in Nat /\ \A x \in Containers : rssi[x] \in Nat
      /\ next \in [Containers -> Containers]
  BY RssiNat, PingConstants DEF PingTypeOK
<1>1. PICK f \in [0 .. N -> Containers] :
           /\ f[0] = worst /\ \A k \in 1 .. N : f[k] = Further(r, f[k - 1])
           /\ Place(r) = f[N]
  BY PlaceOf
<1> DEFINE At(k, j) == /\ f[k] = c[j]
                       /\ j = n => r >= rssi[best]
                       /\ j = n \/ j = k + 1 \/ r < rssi[c[j + 1]]
           P == {k \in 0 .. N : \E j \in 1 .. n : At(k, j)}
<1>2. 0 \in P
  <2>1. At(0, 1) /\ 1 \in 1 .. n
    BY <1>0, <1>1 DEF Ring
  <2> QED BY <1>0, <2>1
<1>3. ASSUME NEW k \in 1 .. N, k - 1 \in P PROVE k \in P
  <2>1. PICK j \in 1 .. n : At(k - 1, j)
    BY <1>3
  <2>2. f[k] = Further(r, c[j])
    BY <1>1, <2>1
  <2>3. CASE j = n
    <3>1. f[k] = c[j]
      BY <2>2, <2>3 DEF Further, Ring
    <3>2. At(k, j)
      BY <2>1, <2>3, <3>1
    <3> QED BY <3>2
  <2>4. CASE j # n
    <3>1. j + 1 \in 1 .. n /\ j \in 1 .. n - 1
      BY <1>0, <2>4
    <3>2. c[j] # best /\ next[c[j]] = c[j + 1]
      BY <1>0, <2>4, <3>1 DEF Ring
    <3>3. CASE r >= rssi[c[j + 1]]
      <4>1. f[k] = c[j + 1]
        BY <2>2, <3>2, <3>3 DEF Further
      <4>2. j + 1 = k + 1
        BY <1>0, <2>1, <2>4, <3>1, <3>3
      <4>3. j + 1 = n => r >= rssi[best]
        BY <3>3 DEF Ring
      <4>4. At(k, j + 1)
        BY <4>1, <4>2, <4>3
      <4> QED BY <3>1, <4>4
    <3>4. CASE ~(r >= rssi[c[j + 1]])
      <4>1. f[k] = c[j] /\ r < rssi[c[j + 1]]
        BY <1>0, <2>2, <3>1, <3>2, <3>4 DEF Further
      <4>2. At(k, j)
        BY <2>4, <4>1
      <4> QED BY <4>2
    <3> QED BY <3>3, <3>4
  <2> QED BY <2>3, <2>4
<1>4. N \in P
  <2> HIDE DEF P
  <2>1. \A k \in 0 .. N : k \in P
    BY <1>0, <1>2, <1>3, UpTo
  <2> QED BY <1>0, <2>1
<1>5. PICK j \in 1 .. n : At(N, j)
  BY <1>4
<1>6. j # N + 1
  BY <1>0
<1> QED BY <1>1, <1>5, <1>6

\* A reply that is not better than one of the ring is as good as dropped.
LEMMA DroppedKeepsRing ==
  ASSUME RingInv, PingTypeOK, NEW r \in Nat, r < rssi[worst], strongest' = Larger(strongest, r),
         UNCHANGED <<next, rssi, worst, best>>
  PROVE  RingInv'
<1>0. PICK n \in 1 .. N : \E c \in [1 .. n -> Containers] : Ring(n, c)
  BY DEF RingInv
<1>1. PICK c \in [1 .. n -> Containers] : Ring(n, c)
  BY <1>0
<1>2. r < strongest
  <2>1. 1 \in 1 .. n /\ n \in 1 .. n
    BY PingConstants
  <2>2. rssi[worst] <= rssi[best] /\ rssi[best] = strongest
    BY <1>1, <2>1 DEF Ring
  <2>3. worst \in Containers /\ strongest \in Nat /\ rssi \in [Containers -> Nat]
    BY RssiNat DEF PingTypeOK
  <2> QED BY <2>2, <2>3
<1>3. strongest' = strongest
  BY <1>2, RssiNat DEF Larger
<1>4. Ring(n, c)'
  BY <1>1, <1>3 DEF Ring
<1>5. N' = N /\ Containers' = Containers
  BY DEF Containers
<1> QED BY <1>4, <1>5 DEF RingInv

\* The container of the worst reply takes the new one and is linked after cur.
Linked(cur, r) ==
  LET cut == [next EXCEPT ![best] = next[worst]]
      put == [cut EXCEPT ![worst] = cut[cur]]
  IN  /\ worst' = cut[best]
      /\ next' = [put EXCEPT ![cur] = worst]
      /\ best' = IF cur = best THEN worst ELSE best
      /\ rssi' = [rssi EXCEPT ![worst] = r]

\* Linked after itself the container leaves the ring; after another one it goes
\* round to its place.
LEMMA LinkedKeepsRing ==
  ASSUME PingTypeOK, NEW n \in 1 .. N, NEW c \in [1 .. n -> Containers], Ring(n, c),
         NEW r \in Nat, NEW j \in 1 .. n, r >= rssi[worst],
         j = n => r >= rssi[best], j # n => r < rssi[c[j + 1]],
         Linked(c[j], r), strongest' = Larger(strongest, r)
  PROVE  \E m \in 1 .. N : \E d \in [1 .. m -> Containers] : Ring(m, d)'
<1>0. /\ N \in Nat /\ n \in Nat /\ worst \in Containers /\ best \in Containers
      /\ next \in [Containers -> Containers] /\ rssi \in [Containers -> Nat] /\ strongest \in Nat
  BY RssiNat, PingConstants DEF PingTypeOK
<1>r. /\ \A i, k \in 1 .. n : c[i] = c[k] => i = k
      /\ c[1] = worst /\ c[n] = best /\ next[best] = worst
      /\ \A i \in 1 .. n - 1 : next[c[i]] = c[i + 1]
      /\ \A i \in 1 .. n : rssi[c[i]] <= rssi[best]
      /\ rssi[best] = strongest
  BY DEF Ring
<1>l. /\ worst' = next[worst] /\ best' = IF c[j] = best THEN worst ELSE best
      /\ rssi' = [rssi EXCEPT ![worst] = r]
  BY <1>0 DEF Linked
<1>n. \A x \in Containers :
        next'[x] = IF x = c[j] THEN worst
                   ELSE IF x = worst THEN IF c[j] = best THEN next[worst] ELSE next[c[j]]
                   ELSE IF x = best THEN next[worst] ELSE next[x]
  BY <1>0 DEF Linked
<1>s. strongest' = IF j = n THEN r ELSE strongest
  <2>1. CASE j = n
    BY <1>0, <1>r, <2>1 DEF Larger
  <2>2. CASE j # n
    <3>1. rssi[c[j + 1]] <= strongest /\ c[j + 1] \in Containers
      BY <1>0, <1>r, <2>2
    <3> QED BY <1>0, <2>2, <3>1 DEF Larger
  <2> QED BY <2>1, <2>2
<1>1. CASE n = 1
  <2>1. c[1] = worst /\ best = worst /\ j = 1 /\ next[worst] = worst
    BY <1>r, <1>1
  <2>2. worst' = worst /\ best' = worst /\ rssi'[worst] = r /\ strongest' = r /\ next'[worst] = worst
    BY <1>0, <1>l, <1>n, <1>s, <1>1, <2>1
  <2>3. Ring(1, c)'
    BY <2>1, <2>2 DEF Ring
  <2> QED BY <1>0, <1>1, <2>3
<1>2. CASE n # 1 /\ j = 1
  <2> DEFINE m == n - 1
             d == [i \in 1 .. m |-> c[i + 1]]
  <2>1. m \in 1 .. N /\ d \in [1 .. m -> Containers]
    BY <1>0, <1>2
  <2>2. \A i \in 1 .. m : i + 1 \in 1 .. n /\ d[i] = c[i + 1] /\ d[i] # worst
    BY <1>0, <1>r
  <2>3. best # worst /\ c[j] = worst
    BY <1>0, <1>r, <1>2
  <2>4. worst' = c[2] /\ best' = best /\ strongest' = strongest
    BY <1>0, <1>l, <1>r, <1>s, <1>2, <2>3
  <2>5. \A i, k \in 1 .. m : d[i] = d[k] => i = k
    BY <1>0, <1>r, <2>2
  <2>6. d[1] = worst' /\ d[m] = best' /\ 1 \in 1 .. m /\ m \in 1 .. m
    BY <1>0, <1>r, <1>2, <2>4
  <2>7. next'[best'] = worst'
    BY <1>0, <1>l, <1>n, <2>3, <2>4
  <2>8. \A i \in 1 .. m - 1 : next'[d[i]] = d[i + 1]
    <3> SUFFICES ASSUME NEW i \in 1 .. m - 1 PROVE next'[d[i]] = d[i + 1]
      OBVIOUS
    <3>1. i + 1 \in 1 .. n - 1 /\ i \in 1 .. m /\ i + 1 \in 1 .. m /\ i + 1 # n
      BY <1>0
    <3>2. d[i] # worst /\ d[i] = c[i + 1] /\ d[i] # best /\ d[i] \in Containers
      BY <1>0, <1>r, <2>1, <2>2, <3>1
    <3>3. next'[d[i]] = next[c[i + 1]]
      BY <1>n, <2>3, <3>2
    <3> QED BY <1>r, <3>1, <3>3
  <2>9. \A i \in 1 .. m : rssi'[d[i]] <= rssi'[best'] /\ rssi'[best'] = rssi[best]
    BY <1>0, <1>l, <1>r, <2>1, <2>2, <2>3, <2>4
  <2>10. rssi'[best'] = strongest'
    BY <1>r, <2>4, <2>6, <2>9
  <2> HIDE DEF d, m
  <2>11. Ring(m, d)'
    BY <2>5, <2>6, <2>7, <2>8, <2>9, <2>10 DEF Ring
  <2> QED BY <2>1, <2>11
<1>3. CASE n # 1 /\ j # 1
  <2> DEFINE d == [i \in 1 .. n |-> IF i < j THEN c[i + 1] ELSE IF i = j THEN c[1] ELSE c[i]]
  <2>1. d \in [1 .. n -> Containers] /\ j - 1 \in 1 .. n /\ 1 \in 1 .. n /\ n \in 1 .. n
    BY <1>0, <1>3
  <2>2. best # worst /\ c[j] # worst
    BY <1>0, <1>r, <1>3
  <2>3. c[j] = best <=> j = n
    BY <1>0, <1>r, <2>1
  <2>4. worst' = c[2] /\ best' = IF j = n THEN worst ELSE best
    BY <1>0, <1>l, <1>r, <1>3, <2>3
  <2>5. \A i, k \in 1 .. n : d[i] = d[k] => i = k
    BY <1>0, <1>r, <1>3
  <2>6. d[1] = worst' /\ d[n] = best'
    BY <1>0, <1>r, <1>3, <2>1, <2>4
  <2>7. next'[best'] = worst'
    BY <1>0, <1>l, <1>n, <2>2, <2>3, <2>4
  <2>8. \A i \in 1 .. n - 1 : next'[d[i]] = d[i + 1]
    <3> SUFFICES ASSUME NEW i \in 1 .. n - 1 PROVE next'[d[i]] = d[i + 1]
      OBVIOUS
    <3>0. i \in 1 .. n /\ i + 1 \in 1 .. n /\ d[i] \in Containers /\ i # n
      BY <1>0, <2>1
    <3>1. CASE i + 1 < j
      <4>1. i + 2 \in 1 .. n /\ i + 1 \in 1 .. n - 1 /\ (i + 1) + 1 = i + 2 /\ i + 1 # 1 /\ i + 1 # n /\ i + 1 # j
        BY <1>0, <3>0, <3>1
      <4>2. d[i] = c[i + 1] /\ d[i + 1] = c[i + 2]
        BY <1>0, <3>0, <3>1, <4>1
      <4>3. c[i + 1] # c[j] /\ c[i + 1] # worst /\ c[i + 1] # best
        BY <1>r, <2>1, <3>0, <4>1
      <4>4. next'[c[i + 1]] = next[c[i + 1]]
        BY <1>n, <3>0, <4>2, <4>3
      <4> QED BY <1>r, <4>1, <4>2, <4>4
    <3>2. CASE i + 1 = j
      <4>1. d[i] = c[j] /\ d[i + 1] = worst
        BY <1>0, <1>r, <3>0, <3>2
      <4> QED BY <1>n, <3>0, <4>1
    <3>3. CASE i = j
      <4>1. d[i] = worst /\ d[i + 1] = c[i + 1] /\ c[j] # best
        BY <1>0, <1>r, <2>3, <3>0, <3>3
      <4>2. next'[worst] = next[c[j]]
        BY <1>0, <1>n, <2>2, <4>1
      <4> QED BY <1>r, <3>3, <4>1, <4>2
    <3>4. CASE i > j
      <4>1. d[i] = c[i] /\ d[i + 1] = c[i + 1]
        BY <1>0, <3>0, <3>4
      <4>2. c[i] # c[j] /\ c[i] # worst /\ c[i] # best
        BY <1>0, <1>r, <1>3, <2>1, <3>0, <3>4
      <4> QED BY <1>n, <1>r, <3>0, <4>1, <4>2
    <3> QED BY <1>0, <3>0, <3>1, <3>2, <3>3, <3>4
  <2>9. rssi'[best'] = strongest'
    BY <1>0, <1>l, <1>r, <1>s, <2>2, <2>4
  <2>10. \A i \in 1 .. n : rssi'[d[i]] <= rssi'[best']
    <3> SUFFICES ASSUME NEW i \in 1 .. n PROVE rssi'[d[i]] <= rssi'[best']
      OBVIOUS
    <3>1. r <= strongest' /\ strongest <= strongest' /\ strongest' \in Nat
      BY <1>0 DEF Larger
    <3>2. CASE d[i] = worst
      BY <1>0, <1>l, <2>9, <3>1, <3>2
    <3>3. CASE d[i] # worst
      <4>1. \E k \in 1 .. n : d[i] = c[k]
        <5>1. CASE i < j
          <6>1. d[i] = c[i + 1] /\ i + 1 \in 1 .. n
            BY <1>0, <5>1
          <6> QED BY <6>1
        <5>2. CASE i >= j
          <6>1. d[i] = c[i] \/ d[i] = c[1]
            BY <1>0, <5>2
          <6> QED BY <2>1, <6>1
        <5> QED BY <1>0, <5>1, <5>2
      <4>2. rssi[d[i]] <= strongest /\ d[i] \in Containers
        BY <1>r, <4>1
      <4> QED BY <1>0, <1>l, <2>9, <3>1, <3>3, <4>2
    <3> QED BY <3>2, <3>3
  <2> HIDE DEF d
  <2>11. Ring(n, d)'
    BY <2>5, <2>6, <2>7, <2>8, <2>9, <2>10 DEF Ring
  <2> QED BY <2>1, <2>11
<1> QED BY <1>1, <1>2, <1>3

\* The fields of a container and the ends of the ring keep their types.
LEMMA LinkedTyped ==
  ASSUME PingTypeOK, NEW s \in Senders, NEW r \in Rssis, NEW cur \in Containers,
         Linked(cur, r), from' = [from EXCEPT ![worst] = s]
  PROVE  /\ next' \in [Containers -> Containers] /\ worst' \in Containers /\ best' \in Containers
         /\ from' \in [Containers -> Senders \cup {NoSender}]
         /\ rssi' \in [Containers -> Rssis \cup {0}]
<1>1. /\ next \in [Containers -> Containers] /\ worst \in Containers /\ best \in Containers
      /\ from \in [Containers -> Senders \cup {NoSender}]
      /\ rssi \in [Containers -> Rssis \cup {0}]
  BY DEF PingTypeOK
<1> DEFINE cut == [next EXCEPT ![best] = next[worst]]
           put == [cut EXCEPT ![worst] = cut[cur]]
<1>2. cut \in [Containers -> Containers]
  BY <1>1
<1> HIDE DEF cut
<1>3. put \in [Containers -> Containers]
  BY <1>1, <1>2
<1> HIDE DEF put
<1>4. /\ worst' = cut[best] /\ next' = [put EXCEPT ![cur] = worst]
      /\ best' = IF cur = best THEN worst ELSE best
      /\ rssi' = [rssi EXCEPT ![worst] = r]
  BY DEF Linked, cut, put
<1> QED BY <1>1, <1>2, <1>3, <1>4

LEMMA CountTyped ==
  ASSUME PingTypeOK, NEW s, NEW r \in Rssis, InstAdd(s, r)
  PROVE  nbPong' \in 0 .. PongMax /\ strongest' \in Rssis \cup {0} /\ reply' = reply
<1>1. nbPong' \in 0 .. PongMax
  BY PingConstants DEF PingTypeOK, InstAdd
<1>2. strongest' \in Rssis \cup {0}
  BY DEF PingTypeOK, InstAdd, Larger
<1> QED BY <1>1, <1>2 DEF InstAdd

\* A reply keeps the types and the ring.
LEMMA AddKeepsRing ==
  ASSUME PingTypeOK, RingInv, NEW s \in Senders, NEW r \in Rssis, InstAdd(s, r)
  PROVE  PingTypeOK' /\ RingInv'
<1>0. r \in Nat /\ worst \in Containers /\ rssi \in [Containers -> Nat] /\ Containers' = Containers
  BY RssiNat, PingConstants DEF PingTypeOK, Containers
<1>t. nbPong' \in 0 .. PongMax /\ strongest' \in Rssis \cup {0} /\ reply' = reply
  BY CountTyped
<1>1. CASE UNCHANGED <<next, from, rssi, worst, best>> /\ (Known(s) \/ r < rssi[worst])
  <2>1. PingTypeOK'
    BY <1>0, <1>t, <1>1 DEF PingTypeOK
  <2>2. RingInv'
    <3>1. CASE Known(s)
      <4>1. strongest' = strongest
        BY <3>1 DEF InstAdd
      <4> QED BY <1>0, <1>1, <4>1 DEF RingInv, Ring
    <3>2. CASE ~Known(s)
      <4>1. strongest' = Larger(strongest, r) /\ r < rssi[worst]
        BY <1>1, <3>2 DEF InstAdd
      <4> QED BY <1>0, <1>1, <4>1, DroppedKeepsRing
    <3> QED BY <3>1, <3>2
  <2> QED BY <2>1, <2>2
<1>2. CASE ~Known(s) /\ r >= rssi[worst] /\ Linked(Place(r), r) /\ from' = [from EXCEPT ![worst] = s]
  <2>1. PICK n \in 1 .. N : \E c \in [1 .. n -> Containers] : Ring(n, c)
    BY DEF RingInv
  <2>2. PICK c \in [1 .. n -> Containers] : Ring(n, c)
    BY <2>1
  <2>3. PICK j \in 1 .. n : /\ Place(r) = c[j]
                            /\ j = n => r >= rssi[best]
                            /\ j # n => r < rssi[c[j + 1]]
    BY <1>0, <1>2, <2>2, PlaceOnRing
  <2>4. Linked(c[j], r) /\ c[j] \in Containers
    BY <1>2, <2>3
  <2>5. strongest' = Larger(strongest, r)
    BY <1>2 DEF InstAdd
  <2>6. \E m \in 1 .. N : \E d \in [1 .. m -> Containers] : Ring(m, d)'
    BY <1>0, <1>2, <2>2, <2>3, <2>4, <2>5, LinkedKeepsRing
  <2>7. RingInv'
    BY <1>0, <2>6 DEF RingInv
  <2>8. PingTypeOK'
    BY <1>0, <1>t, <1>2, <2>4, LinkedTyped DEF PingTypeOK
  <2> QED BY <2>7, <2>8
<1>3. \/ UNCHANGED <<next, from, rssi, worst, best>> /\ (Known(s) \/ r < rssi[worst])
      \/ ~Known(s) /\ r >= rssi[worst] /\ Linked(Place(r), r) /\ from' = [from EXCEPT ![worst] = s]
  BY Zenon DEF InstAdd, Linked
<1> QED BY <1>1, <1>2, <1>3

\* The containers InstInt_Init has linked are a ring.
LEMMA LinksAreRing ==
  \E c \in [1 .. N -> Containers] :
    /\ \A i, j \in 1 .. N : c[i] = c[j] => i = j
    /\ c[1] = N - 1 /\ c[N] = 0 /\ Links[0] = N - 1
    /\ \A i \in 1 .. N - 1 : Links[c[i]] = c[i + 1]
<1> DEFINE c == [i \in 1 .. N |-> N - i]
<1>0. N \in Nat \ {0}
  BY PingConstants
<1>1. c \in [1 .. N -> Containers]
  BY <1>0 DEF Containers
<1>2. /\ \A i, j \in 1 .. N : c[i] = c[j] => i = j
      /\ c[1] = N - 1 /\ c[N] = 0 /\ Links[0] = N - 1
  BY <1>0 DEF Links, Containers
<1>3. ASSUME NEW i \in 1 .. N - 1 PROVE Links[c[i]] = c[i + 1]
  <2>1. c[i] = N - i /\ c[i + 1] = N - i - 1 /\ N - i \in 1 .. N - 1
    BY <1>0
  <2> QED BY <1>0, <2>1 DEF Links, Containers
<1> HIDE DEF c
<1> QED BY <1>1, <1>2, <1>3

\* They are the ring of the replies before the first one.
LEMMA NewRing ==
  /\ next = Links /\ worst = N - 1 /\ best = 0 /\ strongest = 0
     /\ rssi = [i \in Containers |-> 0] => RingInv
  /\ next' = Links /\ worst' = N - 1 /\ best' = 0 /\ strongest' = 0
     /\ rssi' = [i \in Containers |-> 0] => RingInv'
<1>1. PICK c \in [1 .. N -> Containers] :
        /\ \A i, j \in 1 .. N : c[i] = c[j] => i = j
        /\ c[1] = N - 1 /\ c[N] = 0 /\ Links[0] = N - 1
        /\ \A i \in 1 .. N - 1 : Links[c[i]] = c[i + 1]
  BY LinksAreRing
<1>2. N \in 1 .. N /\ 0 \in Containers /\ \A i \in 1 .. N : c[i] \in Containers
  BY PingConstants DEF Containers
<1>3. ASSUME next = Links, worst = N - 1, best = 0, strongest = 0, rssi = [i \in Containers |-> 0]
      PROVE  RingInv
  <2>1. \A i \in 1 .. N : rssi[c[i]] <= rssi[best]
    BY <1>2, <1>3
  <2>2. rssi[best] = strongest
    BY <1>2, <1>3
  <2>3. Ring(N, c)
    BY <1>1, <1>3, <2>1, <2>2 DEF Ring
  <2> QED BY <1>2, <2>3 DEF RingInv
<1>4. ASSUME next' = Links, worst' = N - 1, best' = 0, strongest' = 0,
             rssi' = [i \in Containers |-> 0]
      PROVE  RingInv'
  <2>1. \A i \in 1 .. N : rssi'[c[i]] <= rssi'[best']
    BY <1>2, <1>4
  <2>2. rssi'[best'] = strongest'
    BY <1>2, <1>4
  <2>3. Ring(N, c)'
    BY <1>1, <1>4, <2>1, <2>2 DEF Ring
  <2> QED BY <1>2, <2>3 DEF RingInv
<1> QED BY <1>3, <1>4

LEMMA LinksTyped ==
  /\ Links \in [Containers -> Containers] /\ N - 1 \in Containers /\ 0 \in Containers
  /\ [i \in Containers |-> NoSender] \in [Containers -> Senders \cup {NoSender}]
  /\ [i \in Containers |-> 0] \in [Containers -> Rssis \cup {0}]
  /\ 0 \in 0 .. PongMax
<1>1. N \in Nat \ {0} /\ PongMax \in Nat
  BY PingConstants
<1>2. \A i \in 0 .. N - 1 : (IF i = 0 THEN N - 1 ELSE i - 1) \in 0 .. N - 1
  BY <1>1
<1>3. Links \in [Containers -> Containers]
  BY <1>2 DEF Links, Containers
<1> QED BY <1>1, <1>3 DEF Containers

\* The strongest reply is among those the end of the session writes.
LEMMA EndReports ==
  ASSUME PingTypeOK, RingInv, InstEnd
  PROVE  /\ PingTypeOK' /\ RingInv'
         /\ nbPong' > 0 => \E i \in 1 .. N : reply'[i].rssi = strongest'
<1>1. PICK n \in 1 .. N : \E c \in [1 .. n -> Containers] : Ring(n, c)
  BY DEF RingInv
<1>2. PICK c \in [1 .. n -> Containers] : Ring(n, c)
  BY <1>1
<1>0. N \in Nat \ {0} /\ n \in Nat /\ Containers' = Containers
  BY PingConstants DEF Containers
<1>3. \A k \in 0 .. n - 1 : Nth[k] = c[k + 1]
  <2> DEFINE P == {k \in 0 .. n - 1 : Nth[k] = c[k + 1]}
  <2>1. 0 \in P
    BY <1>0, <1>2, NthOf DEF Ring
  <2>2. ASSUME NEW k \in 1 .. n - 1, k - 1 \in P PROVE k \in P
    <3>1. k \in 1 .. N /\ k \in 0 .. n - 1 /\ (k - 1) + 1 = k
      BY <1>0
    <3>2. Nth[k] = next[c[k]]
      BY <2>2, <3>1, NthOf
    <3> QED BY <1>2, <3>1, <3>2 DEF Ring
  <2>3. n - 1 \in Nat
    BY <1>0
  <2> HIDE DEF P
  <2>4. \A k \in 0 .. n - 1 : k \in P
    BY <2>1, <2>2, <2>3, UpTo
  <2> QED BY <2>4 DEF P
<1>4. UNCHANGED ringVars /\ strongest' = strongest
      /\ reply' = IF nbPong = 0 THEN reply
                  ELSE [i \in 1 .. N |-> [from |-> from[Nth[N - i]], rssi |-> rssi[Nth[N - i]]]]
  BY DEF InstEnd
<1>5. reply' \in [1 .. N -> [from : Senders \cup {NoSender}, rssi : Rssis \cup {0}]]
  <2>1. \A i \in 1 .. N : Nth[N - i] \in Containers
    BY <1>0, NthOf
  <2>2. \A i \in 1 .. N : from[Nth[N - i]] \in Senders \cup {NoSender} /\ rssi[Nth[N - i]] \in Rssis \cup {0}
    BY <2>1 DEF PingTypeOK
  <2>3. reply \in [1 .. N -> [from : Senders \cup {NoSender}, rssi : Rssis \cup {0}]]
    BY DEF PingTypeOK
  <2> QED BY <1>4, <2>2, <2>3
<1>6. PingTypeOK'
  BY <1>0, <1>4, <1>5 DEF PingTypeOK, ringVars
<1>7. RingInv'
  BY <1>0, <1>4 DEF RingInv, Ring, ringVars
<1>8. ASSUME nbPong' > 0 PROVE \E i \in 1 .. N : reply'[i].rssi = strongest'
  <2> DEFINE i == N - (n - 1)
  <2>1. i \in 1 .. N /\ N - i = n - 1 /\ n - 1 \in 0 .. n - 1
    BY <1>0
  <2>2. Nth[N - i] = best
    <3>1. Nth[n - 1] = c[(n - 1) + 1] /\ (n - 1) + 1 = n
      BY <1>0, <1>3, <2>1
    <3> QED BY <1>2, <2>1, <3>1 DEF Ring
  <2>3. nbPong # 0
    BY <1>4, <1>8 DEF ringVars
  <2> HIDE DEF i
  <2>4. reply'[i].rssi = rssi[best]
    BY <1>4, <2>1, <2>2, <2>3
  <2> QED BY <1>2, <1>4, <2>1, <2>4 DEF Ring
<1> QED BY <1>6, <1>7, <1>8

-----------------------------------------------------------------------------
(* The types.                                                              *)

\* The length of a list of parameters of the table is a number.
LEMMA LengthNat ==
  ASSUME NEW ps \in Seq(STRING), \A i \in 1 .. Len(ps) : ps[i] \in Params
  PROVE  Length(ps) \in Nat
<1> DEFINE n == Len(ps)
           step == [k \in 1 .. n |-> [x \in Nat |-> x + 1 + Size[ps[k]]]]
           Body(f) == [i \in 0 .. n |-> IF i = 0 THEN RspSize ELSE f[i - 1] + 1 + Size[ps[i]]]
           upTo == CHOOSE f : f = Body(f)
<1>0. n \in Nat /\ RspSize \in Nat /\ \A k \in 1 .. n : Size[ps[k]] \in Nat
  BY ValuesAgree DEF RspSize
<1>1. step \in [1 .. n -> [Nat -> Nat]]
  BY <1>0
<1>2. \A k \in 1 .. n : \A x \in Nat : step[k][x] = x + 1 + Size[ps[k]]
  OBVIOUS
<1>3. PICK f \in [0 .. n -> Nat] : Iterates(f, n, RspSize, step)
  <2> HIDE DEF step, n
  <2> QED BY <1>0, <1>1, Iteration
<1>4. f = Body(f)
  <2>1. \A k \in 1 .. n : f[k - 1] \in Nat
    BY <1>0
  <2> HIDE DEF step
  <2>2. \A k \in 1 .. n : f[k] = f[k - 1] + 1 + Size[ps[k]]
    BY <1>2, <1>3, <2>1 DEF Iterates
  <2>3. f[0] = RspSize
    BY <1>3 DEF Iterates
  <2>4. \A k \in 0 .. n : f[k] = Body(f)[k]
    BY <1>0, <2>2, <2>3
  <2> QED BY <2>4
<1>5. upTo = Body(upTo)
  BY <1>4, Zenon
<1>6. Length(ps) = upTo[n]
  BY Zenon DEF Length
<1> HIDE DEF upTo
<1>7. \A k \in 0 .. n : upTo[k] = IF k = 0 THEN RspSize ELSE upTo[k - 1] + 1 + Size[ps[k]]
  BY <1>5, Zenon
<1> DEFINE P == {k \in 0 .. n : upTo[k] \in Nat}
<1>8. 0 \in P
  BY <1>0, <1>7
<1>9. ASSUME NEW k \in 1 .. n, k - 1 \in P PROVE k \in P
  <2>1. upTo[k - 1] \in Nat /\ Size[ps[k]] \in Nat /\ k \in 0 .. n /\ k # 0
    BY <1>0, <1>9
  <2>2. upTo[k] = upTo[k - 1] + 1 + Size[ps[k]]
    BY <1>7, <2>1
  <2>3. upTo[k] \in Nat
    BY <2>1, <2>2
  <2> QED BY <2>1, <2>3
<1>10. \A k \in 0 .. n : k \in P
  <2> HIDE DEF P, n
  <2> QED BY <1>0, <1>8, <1>9, UpTo
<1> QED BY <1>0, <1>6, <1>10

\* An answer has a size that its byte can hold.
LEMMA AnswerSize ==
  ASSUME TypeOK, NEW c \in Cmds
  PROVE  Answer(c).size \in 0 .. 255
<1>1. value[TransLen] \in 0 .. 255
  BY AdmConstants, ValuesAgree DEF TypeOK
<1>2. Accepted.size \in 0 .. 255 /\ \A e : Refused(e).size \in 0 .. 255
  BY DEF Accepted, Refused, RspSize, ErrSize
<1>3. CASE c.op = "READ_PARAM"
  <2> DEFINE ps == c.arg
             bad == {i \in 1 .. Len(ps) : ~Readable(ps, i)}
  <2>1. ps \in Seq(STRING) /\ Len(ps) \in Nat
    <3>1. WellFormed(c)
      BY AdmConstants
    <3> QED BY <1>3, <3>1 DEF WellFormed, ReadArg
  <2>2. CASE bad = {}
    <3>1. \A i \in 1 .. Len(ps) : ps[i] \in Params
      BY <2>2 DEF Readable
    <3>2. Length(ps) \in Nat
      BY <2>1, <3>1, LengthNat
    <3>3. ReadParam(ps) = [code |-> "NONE", size |-> Length(ps), body |-> ps]
      BY <2>2 DEF ReadParam
    <3>4. Length(ps) <= value[TransLen]
      BY <1>3, <3>3, ReadAnswer
    <3> QED BY <1>1, <1>3, <3>2, <3>3, <3>4 DEF Answer
  <2>3. CASE bad # {}
    BY <1>2, <1>3, <2>3 DEF Answer, ReadParam
  <2> QED BY <2>2, <2>3
<1>4. CASE c.op # "READ_PARAM"
  <2>1. rsp.size \in 0 .. 255
    BY DEF TypeOK
  <2>2. WriteParam(c.arg).size \in 0 .. 255
    BY <1>2 DEF WriteParam
  <2>3. WriteKey(c.arg).size \in 0 .. 255
    BY <1>2 DEF WriteKey
  <2>4. AnnDownload(c.arg).size \in 0 .. 255
    BY <1>2 DEF AnnDownload
  <2> QED BY <1>4, <2>1, <2>2, <2>3, <2>4 DEF Answer
<1> QED BY <1>3, <1>4

\* The strongest reply stays reported until the next session of pings.
Reported ==
  phase # "pinging" /\ pings > 0 /\ nbPong > 0 => \E i \in 1 .. N : reply[i].rssi = strongest

FullInv == IInv /\ TypeOK /\ RingInv /\ Reported

\* What a step that leaves the pings alone keeps.
LEMMA PingsAlone ==
  ASSUME PingTypeOK, RingInv, Reported, UNCHANGED pingVars, pings' = pings,
         phase' # "pinging" => phase # "pinging"
  PROVE  PingTypeOK' /\ RingInv' /\ Reported'
<1>1. UNCHANGED <<next, from, rssi, worst, best, nbPong, reply, strongest>> /\ Containers' = Containers
  BY DEF pingVars, ringVars, Containers
<1>2. PingTypeOK'
  BY <1>1 DEF PingTypeOK
<1>3. RingInv'
  BY <1>1 DEF RingInv, Ring
<1>4. Reported'
  BY <1>1 DEF Reported
<1> QED BY <1>2, <1>3, <1>4

\* The types that are not those of the pings.
AdmTypes ==
  /\ value \in [Params -> UNION {Values[p] : p \in Params}]
  /\ \A p \in Params : value[p] \in Values[p]
  /\ cmd \in Cmds \cup {NoCmd}
  /\ rsp.id = cmd.id /\ rsp.size \in 0 .. 255
  /\ pend \in SUBSET {"CMD", "RSP"} /\ keys \in SUBSET {"KEY_MOB", "KEY_MAC", "KEY_LOG"}
  /\ campaign # NoCampaign => campaign.chan \in 0 .. 5 /\ campaign.delta >= DeltaMin

Phases == phase \in {"idle", "answering", "pinging"} /\ pings \in 0 .. MaxPings

LEMMA ReceiveTyped ==
  ASSUME TypeOK, NEW c \in Cmds, Receive(c)
  PROVE  AdmTypes' /\ Phases'
<1>0. AdmTypes /\ Phases
  BY DEF TypeOK, AdmTypes, Phases
<1>1. UNCHANGED <<value, keys, campaign, pings>> /\ cmd' = c /\ rsp' = PreCmd(c, reply)[2]
  BY DEF Receive
<1>2. pend' \in SUBSET {"CMD", "RSP"} /\ phase' \in {"idle", "answering", "pinging"}
  BY <1>0 DEF Receive, AdmTypes, Phases
<1>3. rsp'.id = c.id
  BY <1>1 DEF PreCmd, As
<1>4. rsp'.size \in 0 .. 255
  <2>1. Answer(c).size \in 0 .. 255 /\ rsp.size \in 0 .. 255
    BY <1>0, AnswerSize DEF AdmTypes
  <2>2. ExecPing(reply).size \in 0 .. 255
    BY DEF ExecPing, PingRsp
  <2> QED BY <1>1, <2>1, <2>2 DEF PreCmd, As
<1> QED BY <1>0, <1>1, <1>2, <1>3, <1>4 DEF AdmTypes, Phases

\* The channel of an announcement that is accepted is one of the six.
LEMMA ChannelOfSix ==
  ASSUME NEW x \in 0 .. 255, Channel(x) <= 5
  PROVE  Channel(x) \in 0 .. 5
BY DEF Channel

LEMMA WrittenTyped ==
  ASSUME AdmTypes, cmd \in Cmds, cmd.op = "WRITE_PARAM", AllWritable(cmd.arg),
         value' = Written(cmd.arg)
  PROVE  /\ value' \in [Params -> UNION {Values[p] : p \in Params}]
         /\ \A p \in Params : value'[p] \in Values[p]
<1> DEFINE ws == cmd.arg
           At(p) == {i \in 1 .. Len(ws) : ws[i].id = p /\ CanWrite(Rem[p])}
<1>1. Len(ws) \in Nat
  <2>1. WellFormed(cmd)
    BY AdmConstants
  <2> QED BY <2>1 DEF WellFormed, WriteArg
<1>2. value' = [p \in Params |-> IF At(p) = {} THEN value[p] ELSE ws[Max(At(p))].val]
  BY DEF Written
<1>3. \A p \in Params : At(p) # {} => Max(At(p)) \in At(p)
  BY <1>1, MaxIsGreatest
<1>4. \A i \in 1 .. Len(ws) : ws[i].val \in Values[ws[i].id]
  BY ValuesAgree DEF AllWritable
<1>5. ASSUME NEW p \in Params PROVE value'[p] \in Values[p]
  <2>1. CASE At(p) = {}
    BY <1>2, <2>1 DEF AdmTypes
  <2>2. CASE At(p) # {}
    <3>1. Max(At(p)) \in 1 .. Len(ws) /\ ws[Max(At(p))].id = p
      BY <1>3, <2>2
    <3> QED BY <1>2, <1>4, <2>2, <3>1
  <2> QED BY <2>1, <2>2
<1>6. \A p \in Params : value'[p] \in UNION {Values[q] : q \in Params}
  BY <1>5
<1>7. value' = [p \in Params |-> value'[p]]
  BY <1>2
<1> QED BY <1>5, <1>6, <1>7

LEMMA ExecutedTyped ==
  ASSUME AdmTypes, Checked, "CMD" \in pend, PostCmd
  PROVE  /\ value' \in [Params -> UNION {Values[p] : p \in Params}]
         /\ \A p \in Params : value'[p] \in Values[p]
         /\ keys' \in SUBSET {"KEY_MOB", "KEY_MAC", "KEY_LOG"}
         /\ campaign' # NoCampaign => campaign'.chan \in 0 .. 5 /\ campaign'.delta >= DeltaMin
<1>1. CASE UNCHANGED <<value, keys, campaign>>
  BY <1>1 DEF AdmTypes
<1>2. CASE rsp.code = "NONE" /\ cmd.op = "WRITE_PARAM"
           /\ value' = Written(cmd.arg) /\ UNCHANGED <<keys, campaign>>
  <2>1. cmd \in Cmds /\ AllWritable(cmd.arg)
    BY <1>2 DEF Checked
  <2> QED BY <1>2, <2>1, WrittenTyped DEF AdmTypes
<1>3. CASE keys' = keys \cup {IF cmd.arg.id = 1 THEN "KEY_MOB" ELSE "KEY_MAC"}
           /\ UNCHANGED <<value, campaign>>
  BY <1>3 DEF AdmTypes
<1>4. CASE rsp.code = "NONE" /\ cmd.op = "ANNDOWNLOAD" /\ keys' = keys \cup {"KEY_LOG"}
           /\ campaign' = [chan   |-> Channel(cmd.arg.chan), blocks |-> cmd.arg.blocks,
                           mod    |-> cmd.arg.mod,           repeat |-> cmd.arg.repeat,
                           delta  |-> cmd.arg.delta,         days   |-> cmd.arg.days]
           /\ UNCHANGED value
  <2>1. cmd \in Cmds /\ Announceable(cmd.arg)
    BY <1>4 DEF Checked
  <2>2. cmd.arg.chan \in 0 .. 255
    <3>1. WellFormed(cmd)
      BY <2>1, AdmConstants
    <3> QED BY <1>4, <3>1 DEF WellFormed, AnnArg
  <2>3. Channel(cmd.arg.chan) \in 0 .. 5 /\ cmd.arg.delta >= DeltaMin
    BY <2>1, <2>2, ChannelOfSix DEF Announceable
  <2>4. campaign'.chan = Channel(cmd.arg.chan) /\ campaign'.delta = cmd.arg.delta
    BY <1>4
  <2> QED BY <1>4, <2>3, <2>4 DEF AdmTypes
<1> QED BY <1>1, <1>2, <1>3, <1>4 DEF PostCmd

LEMMA InitFull ==
  ASSUME Init PROVE TypeOK /\ RingInv /\ Reported
<1>1. PingTypeOK /\ RingInv
  <2>1. /\ next = Links /\ worst = N - 1 /\ best = 0 /\ nbPong = 0 /\ strongest = 0
        /\ from = [i \in Containers |-> NoSender] /\ rssi = [i \in Containers |-> 0]
        /\ reply = [i \in 1 .. N |-> NoReply]
    BY DEF Init, PingInit
  <2>2. RingInv
    BY <2>1, NewRing
  <2>3. reply \in [1 .. N -> [from : Senders \cup {NoSender}, rssi : Rssis \cup {0}]]
    BY <2>1 DEF NoReply
  <2> QED BY <2>1, <2>2, <2>3, LinksTyped DEF PingTypeOK
<1>2. AdmTypes
  <2>1. cmd = NoCmd /\ rsp.id = 0 /\ rsp.size = 0 /\ pend = {} /\ keys = {} /\ campaign = NoCampaign
        /\ value = Default
    BY DEF Init
  <2> QED BY <2>1, ValuesAgree DEF AdmTypes, NoCmd
<1>3. Phases
  BY AdmConstants DEF Init, Phases
<1>4. Reported
  BY DEF Init, Reported
<1> QED BY <1>1, <1>2, <1>3, <1>4, Zenon DEF TypeOK, AdmTypes, Phases

LEMMA StepFull ==
  ASSUME FullInv, [Next]_vars PROVE FullInv'
<1>0. IInv /\ PingTypeOK /\ AdmTypes /\ Phases /\ RingInv /\ Reported
  BY Zenon DEF FullInv, TypeOK, AdmTypes, Phases
<1>i. IInv'
  BY <1>0, StepChecked
<1>1. CASE HeadEnd
  <2>1. PICK c \in Cmds : Receive(c)
    BY <1>1 DEF HeadEnd
  <2>2. UNCHANGED pingVars /\ pings' = pings /\ phase = "idle"
    BY <2>1 DEF Receive
  <2>3. PingTypeOK' /\ RingInv' /\ Reported'
    BY <1>0, <2>2, PingsAlone
  <2>4. AdmTypes' /\ Phases'
    BY <2>1, ReceiveTyped DEF FullInv
  <2> QED BY <1>i, <2>3, <2>4, Zenon DEF FullInv, TypeOK, AdmTypes, Phases
<1>2. CASE RspSent
  <2>1. PingTypeOK' /\ RingInv' /\ Reported'
    BY <1>0, <1>2, PingsAlone DEF RspSent
  <2>2. Phases'
    BY <1>0, <1>2 DEF RspSent, Phases
  <2>3. cmd' = cmd /\ rsp' = rsp /\ pend' = pend \ {"CMD"}
    BY <1>2 DEF RspSent
  <2>4. AdmTypes'
    <3>1. CASE "CMD" \in pend
      BY <1>0, <1>2, <2>3, <3>1, ExecutedTyped DEF RspSent, AdmTypes, IInv
    <3>2. CASE "CMD" \notin pend
      <4>1. UNCHANGED <<value, keys, campaign>>
        BY <1>2, <3>2 DEF RspSent
      <4> QED BY <1>0, <2>3, <4>1 DEF AdmTypes
    <3> QED BY <3>1, <3>2
  <2> QED BY <1>i, <2>1, <2>2, <2>4, Zenon DEF FullInv, TypeOK, AdmTypes, Phases
<1>3. CASE RspNotSent \/ UNCHANGED vars
  <2>1. UNCHANGED <<admVars, pings, pingVars>> /\ (phase' = phase \/ (phase = "answering" /\ phase' = "idle"))
    BY <1>3 DEF RspNotSent, vars
  <2>2. PingTypeOK' /\ RingInv' /\ Reported'
    BY <1>0, <2>1, PingsAlone
  <2>3. Phases'
    BY <1>0, <2>1 DEF Phases
  <2>4. AdmTypes'
    BY <1>0, <2>1 DEF AdmTypes, admVars
  <2> QED BY <1>i, <2>2, <2>3, <2>4, Zenon DEF FullInv, TypeOK, AdmTypes, Phases
<1>4. CASE PingOpen
  <2>1. phase' = "pinging" /\ pings' = pings + 1 /\ pings < MaxPings /\ InstInit /\ UNCHANGED admVars
    BY <1>4 DEF PingOpen
  <2>2. /\ next' = Links /\ worst' = N - 1 /\ best' = 0 /\ nbPong' = 0 /\ strongest' = 0
        /\ from' = [i \in Containers |-> NoSender] /\ rssi' = [i \in Containers |-> 0]
        /\ reply' = reply /\ Containers' = Containers
    BY <2>1 DEF InstInit, Containers
  <2>3. RingInv'
    BY <2>2, NewRing
  <2>4. PingTypeOK'
    BY <1>0, <2>2, LinksTyped DEF PingTypeOK
  <2>5. Reported' /\ Phases'
    BY <1>0, <2>1, <2>2, AdmConstants DEF Reported, Phases
  <2>6. AdmTypes'
    BY <1>0, <2>1 DEF AdmTypes, admVars
  <2> QED BY <1>i, <2>3, <2>4, <2>5, <2>6, Zenon DEF FullInv, TypeOK, AdmTypes, Phases
<1>5. CASE PingDone
  <2>1. InstEnd /\ phase' = "idle" /\ pings' = pings /\ UNCHANGED <<value, cmd, keys, campaign>>
        /\ pend' = pend \ {"CMD"}
    BY <1>5 DEF PingDone
  <2>2. /\ PingTypeOK' /\ RingInv'
        /\ nbPong' > 0 => \E i \in 1 .. N : reply'[i].rssi = strongest'
    BY <1>0, <2>1, EndReports
  <2>3. Reported' /\ Phases'
    BY <1>0, <2>1, <2>2 DEF Reported, Phases
  <2>4. rsp'.id = cmd.id /\ rsp'.size \in 0 .. 255
    <3>1. rsp.id = cmd.id /\ rsp.size \in 0 .. 255
      BY <1>0 DEF AdmTypes
    <3>2. ExecPing(reply').size = PingRsp /\ PingRsp \in 0 .. 255
      BY DEF ExecPing, PingRsp
    <3>3. rsp' = rsp \/ rsp' = As(cmd.id, ExecPing(reply'))
      BY <1>5, <3>1 DEF PingDone, PreCmd
    <3> QED BY <3>1, <3>2, <3>3 DEF As
  <2>5. AdmTypes'
    BY <1>0, <2>1, <2>4 DEF AdmTypes
  <2> QED BY <1>i, <2>2, <2>3, <2>5, Zenon DEF FullInv, TypeOK, AdmTypes, Phases
<1>6. CASE Writes
  <2>0. PICK p \in Local : \E v \in Values[p] : LocalWrite(p, v)
    BY <1>6 DEF Writes
  <2>1. PICK v \in Values[p] : LocalWrite(p, v)
    BY <2>0
  <2>2. value' = [value EXCEPT ![p] = v] /\ UNCHANGED <<cmd, rsp, pend, keys, campaign, phase, pings, pingVars>>
    BY <2>1 DEF LocalWrite
  <2>3. PingTypeOK' /\ RingInv' /\ Reported'
    BY <1>0, <2>2, PingsAlone
  <2>4. p \in Params /\ v \in UNION {Values[q] : q \in Params}
    BY AdmConstants
  <2>5. /\ value' \in [Params -> UNION {Values[q] : q \in Params}]
        /\ \A q \in Params : value'[q] \in Values[q]
    BY <1>0, <2>2, <2>4 DEF AdmTypes
  <2>6. AdmTypes' /\ Phases'
    BY <1>0, <2>2, <2>5 DEF AdmTypes, Phases
  <2> QED BY <1>i, <2>3, <2>6, Zenon DEF FullInv, TypeOK, AdmTypes, Phases
<1>7. CASE Pongs
  <2>1. PICK s \in Senders, r \in Rssis : Pong(s, r)
    BY <1>7 DEF Pongs
  <2>2. phase = "pinging" /\ InstAdd(s, r) /\ UNCHANGED <<admVars, phase, pings>>
    BY <2>1 DEF Pong
  <2>3. PingTypeOK' /\ RingInv'
    BY <1>0, <2>2, AddKeepsRing
  <2>4. Reported' /\ Phases' /\ AdmTypes'
    BY <1>0, <2>2 DEF Reported, Phases, AdmTypes, admVars
  <2> QED BY <1>i, <2>3, <2>4, Zenon DEF FullInv, TypeOK, AdmTypes, Phases
<1> QED BY <1>1, <1>2, <1>3, <1>4, <1>5, <1>6, <1>7 DEF Next, Device

\* The types, and that the strongest of the replies of unknown gateways is reported
\* at the end of a session of pings (InstInt_End), for every number of containers.
THEOREM AdmInvAlways == Spec => []AdmInv
<1>1. Init => FullInv
  BY InitChecked, InitFull DEF FullInv
<1>2. FullInv /\ [Next]_vars => FullInv'
  BY StepFull
<1>3. FullInv => AdmInv
  BY DEF FullInv, AdmInv, Reported, StrongestReported
<1> QED BY <1>1, <1>2, <1>3, PTL DEF Spec
=============================================================================
