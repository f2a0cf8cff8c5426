----------------------------- MODULE ProtoProofs -----------------------------
(***************************************************************************)
(* Proofs about the frames of the protocol and their statistics (Proto).   *)
(* What is handed over is followed through the list of tests: a verdict is *)
(* a success only if every one of them has passed (VerdictPasses), so an   *)
(* accepted frame has passed those that would tell a change.  For the      *)
(* statistics there is one lemma for each thing that is said of a frame    *)
(* counted: it keeps the types, the average included, and the sums.        *)
(***************************************************************************)
EXTENDS Proto, WellFoundedInduction, TLAPS

-----------------------------------------------------------------------------
(* The tests of a frame.                                                   *)

\* A set of numbers that is not empty has a least one.
LEMMA LeastOf ==
  ASSUME NEW T \in SUBSET Nat, T # {}
  PROVE  \E n \in T : \A m \in T : n <= m
<1>1. PICK n \in T : \A m \in T : ~(<<m, n>> \in OpToRel(<, Nat))
  BY NatLessThanWellFounded, WFMin
<1>2. \A m \in T : ~(m < n)
  BY <1>1 DEF OpToRel
<1> QED BY <1>2

\* A verdict is a success only if every test has passed.
LEMMA VerdictPasses ==
  ASSUME NEW tests, NEW N \in Nat, DOMAIN tests = 1..N,
         \A i \in 1..N : tests[i].code # "SUCCESS",
         Verdict(tests) = "SUCCESS"
  PROVE  \A i \in 1..N : tests[i].pass
<1> DEFINE T == {i \in 1..N : ~tests[i].pass}
           First(n) == n \in DOMAIN tests /\ ~tests[n].pass /\ \A j \in 1..(n - 1) : tests[j].pass
<1> SUFFICES ASSUME T # {} PROVE FALSE
  OBVIOUS
<1>0. T \in SUBSET Nat
  OBVIOUS
<1>1. PICK n \in T : \A m \in T : n <= m
  <2> HIDE DEF T
  <2> QED BY <1>0, LeastOf
<1>2. First(n)
  BY <1>1
<1>3. First(CHOOSE i : First(i))
  BY <1>2
<1>4. Verdict(tests) = tests[CHOOSE i \in DOMAIN tests :
                              ~tests[i].pass /\ \A j \in 1..(i - 1) : tests[j].pass].code
  BY <1>1 DEF Verdict
<1> QED BY <1>1, <1>4

\* An accepted download frame: the decoder gives back what was sent, and it was
\* sent with the key that is here.
LEMMA DownloadAccepted ==
  ASSUME NEW f, Verdict(DownloadTests(f)) = "SUCCESS"
  PROVE  Decoded(f.body).content = f.sent /\ KlogOk(f)
<1> DEFINE tests == DownloadTests(f)
<1>1. DOMAIN tests = 1..5 /\ \A i \in 1..5 : tests[i].code # "SUCCESS"
  BY DEF DownloadTests, Test
<1>2. \A i \in 1..5 : tests[i].pass
  <2> HIDE DEF tests
  <2> QED BY <1>1, VerdictPasses DEF tests
<1>3. /\ tests[2].pass <=> Decoded(f.body).content = f.sent
      /\ tests[5].pass <=> KlogOk(f)
  BY DEF DownloadTests, Test
<1> QED BY <1>2, <1>3

\* The tests that follow two others have passed as well.
LEMMA LaterPass ==
  ASSUME NEW S, \A s \in S : s.code # "SUCCESS",
         NEW a \in S, NEW b \in S, NEW t \in Seq(S),
         Verdict(<<a, b>> \o t) = "SUCCESS"
  PROVE  \A i \in 1..Len(t) : t[i].pass
<1> DEFINE tests == <<a, b>> \o t
<1>1. tests \in Seq(S) /\ Len(tests) = Len(t) + 2
  OBVIOUS
<1>2. \A i \in 1..Len(t) : tests[i + 2] = t[i]
  OBVIOUS
<1>3. Verdict(tests) = "SUCCESS"
  OBVIOUS
<1> HIDE DEF tests
<1>4. DOMAIN tests = 1..(Len(t) + 2) /\ Len(t) + 2 \in Nat
  BY <1>1
<1>5. \A i \in 1..(Len(t) + 2) : tests[i].code # "SUCCESS"
  BY <1>1
<1>6. \A i \in 1..(Len(t) + 2) : tests[i].pass
  BY <1>3, <1>4, <1>5, VerdictPasses
<1>7. \A i \in 1..Len(t) : i + 2 \in 1..(Len(t) + 2)
  BY <1>4
<1> QED BY <1>2, <1>6, <1>7

\* An accepted exchange frame has passed the three tests that tell a changed body,
\* as far as they are not disabled.
LEMMA ExchangeAccepted ==
  ASSUME NEW f, NEW a, NEW b, a.code # "SUCCESS", b.code # "SUCCESS",
         Verdict(<<a, b>> \o ExchangeTests(f)) = "SUCCESS"
  PROVE  /\ Off("Crc") \/ CrcOk(f)
         /\ f.key = 0 \/ Off("HashKenc") \/ KencOk(f)
         /\ Off("HashKmac") \/ KmacOk(f)
<1> DEFINE t == ExchangeTests(f)
           S == {a, b} \cup {t[i] : i \in 1..10}
<1>1. t \in Seq(S) /\ Len(t) = 10 /\ a \in S /\ b \in S
  BY DEF ExchangeTests
<1>2. \A s \in S : s.code # "SUCCESS"
  BY DEF ExchangeTests, Test
<1>3. /\ t[3].pass = (Off("Crc") \/ CrcOk(f))
      /\ t[9].pass = (f.key = 0 \/ Off("HashKenc") \/ KencOk(f))
      /\ t[10].pass = (Off("HashKmac") \/ KmacOk(f))
  BY DEF ExchangeTests, Test
<1>4. Verdict(<<a, b>> \o t) = "SUCCESS"
  OBVIOUS
<1> HIDE DEF t, S
<1>5. \A i \in 1..Len(t) : t[i].pass
  BY <1>1, <1>2, <1>4, LaterPass
<1>6. t[3].pass /\ t[9].pass /\ t[10].pass
  BY <1>1, <1>5
<1> QED BY <1>3, <1>6

-----------------------------------------------------------------------------
(* The messages that are handed over.                                      *)

\* Which records have the fields that tell a message and a frame.
LEMMA Domains ==
  /\ "data" \notin DOMAIN Nothing
  /\ "sent" \notin DOMAIN Nothing
  /\ \A m : "sent" \notin DOMAIN Built(m)
BY DEF Nothing, Built

\* The frames that may arrive.
LEMMA FrameSizes ==
  ASSUME NEW f \in ExchFrames \cup DownFrames
  PROVE  f.size \in 0..255
BY ProtoConstants DEF ExchangeFrame, DownloadFrame

LEMMA RecvDelivers ==
  ASSUME NEW f \in ExchFrames \cup DownFrames, NEW rssi, Recv(f, rssi)
  PROVE  DeliveredAsSent'
<1>1. last' = [code |-> Extract(f), frame |-> f] /\ cfg' = cfg
  BY DEF Recv
<1>2. CASE Extract(f) # "SUCCESS"
  BY <1>2, Domains DEF Recv, DeliveredAsSent
<1>3. CASE Extract(f) = "SUCCESS" /\ f.size = 255
  <2>1. Decoded(f.body).content = f.sent /\ KlogOk(f)
    BY <1>3, DownloadAccepted DEF Extract
  <2>2. keys[LogId] = f.klog
    BY <2>1 DEF KlogOk, Cmac
  <2>3. msg'.data = f.sent
    BY <1>3, <2>1, <2>2 DEF Recv, Filled, Deciphered
  <2> QED BY <1>1, <2>3 DEF DeliveredAsSent
<1>4. CASE Extract(f) = "SUCCESS" /\ f.size # 255
  <2>1. /\ Off("Crc") \/ CrcOk(f)
        /\ f.key = 0 \/ Off("HashKenc") \/ KencOk(f)
        /\ Off("HashKmac") \/ KmacOk(f)
    <3>1. Test(f.size > 21, "FRAME_SZ").code # "SUCCESS"
          /\ Test(f.size <= cfg.recvLen, "APP_MSG_SZ").code # "SUCCESS"
      BY DEF Test
    <3> QED BY <1>4, <3>1, ExchangeAccepted DEF Extract
  <2>2. msg'.data = Deciphered(f.key, f.kenc, f.body)
    BY <1>4 DEF Recv, Filled
  <2>3. f.size < 255
    BY <1>4, FrameSizes
  <2>4. CASE f.key # 0 /\ ~Off("HashKenc")
    <3>1. keys[f.key] = f.kenc /\ f.body = f.sent
      BY <2>1, <2>4 DEF KencOk, Cmac
    <3> QED BY <1>1, <2>2, <3>1 DEF Deciphered, DeliveredAsSent
  <2>5. CASE f.key = 0 /\ ~(Off("Crc") /\ Off("HashKmac"))
    <3>1. f.body = f.sent
      BY <2>1, <2>5 DEF CrcOk, KmacOk, Cmac
    <3> QED BY <1>1, <2>2, <2>5, <3>1 DEF Deciphered, DeliveredAsSent
  <2> QED BY <1>1, <2>3, <2>4, <2>5 DEF Off, DeliveredAsSent
<1> QED BY <1>2, <1>3, <1>4

LEMMA DeliveredStep == DeliveredAsSent /\ [Next]_vars => DeliveredAsSent'
<1> SUFFICES ASSUME DeliveredAsSent, [Next]_vars PROVE DeliveredAsSent'
  OBVIOUS
<1>1. ASSUME NEW f \in ExchFrames \cup DownFrames, NEW rssi \in Rssis, Recv(f, rssi)
      PROVE  DeliveredAsSent'
  BY <1>1, RecvDelivers
<1>2. ASSUME NEW m \in Messages, Send(m) PROVE DeliveredAsSent'
  <2>1. "sent" \notin DOMAIN last'.frame
    BY <1>2, Domains DEF Send
  <2> QED BY <2>1 DEF DeliveredAsSent
<1>3. CASE Configure \/ \E id \in Rewritten, k \in KeyValues : WriteKey(id, k)
  BY <1>3, Domains DEF Configure, WriteKey, DeliveredAsSent
<1>4. CASE UNCHANGED <<msg, last, cfg>>
  BY <1>4 DEF DeliveredAsSent
<1> QED BY <1>1, <1>2, <1>3, <1>4 DEF Next, ClearError, ClearStats, vars

\* What is handed over is what the sender put into the frame, unless the filters that
\* would tell are disabled (proto.c): for all frames, keys, configurations, and for any
\* decoder, right or wrong.
THEOREM DeliveredAsSentAlways == Spec => []DeliveredAsSent
<1>1. Init => DeliveredAsSent
  BY Domains DEF Init, DeliveredAsSent
<1> QED BY <1>1, DeliveredStep, PTL DEF Spec

-----------------------------------------------------------------------------
(* The statistics.                                                         *)

\* The mean of a value and n others is no greater than the greatest of them.
LEMMA MeanBounded ==
  ASSUME NEW a \in 0..255, NEW n \in Nat, NEW r \in 0..255
  PROVE  (a * n + r) \div (n + 1) \in 0..255
<1>1. a * n \in Nat /\ a * n <= 255 * n
  OBVIOUS
<1> DEFINE p == a * n + r
<1>2. p \in Nat /\ p <= 255 * (n + 1)
  BY <1>1
<1>3. ASSUME NEW q \in Nat, q <= 255 * (n + 1)
      PROVE  q \div (n + 1) \in 0..255
  BY <1>3
<1> QED BY <1>2, <1>3

RxType == [bytes : Nat, ok : Nat, err : Nat, max : 0..255, min : 0..255, avg : 0..255,
           by : [Counters -> Nat]]

LEMMA RxUpdateTyped ==
  ASSUME rx \in RxType, NEW code, NEW size \in Nat, NEW rssi \in 0..255
  PROVE  RxUpdate(code, size, rssi) \in RxType
<1> DEFINE level == 0..255
           kinds == [Counters -> Nat]
           count == Nat
           type  == [bytes : count, ok : count, err : count, max : level, min : level,
                     avg : level, by : kinds]
           b     == rx.bytes + size
<1>1. RxType = type
  BY Zenon DEF RxType
<1>2. rx.bytes + size \in Nat /\ rx.ok + 1 \in Nat /\ rx.err + 1 \in Nat
  BY DEF RxType
<1>3. CASE code = "SUCCESS"
  <2> DEFINE top  == Greatest(rssi, rx.max)
             low  == Least(rssi, rx.min)
             mean == Average(rssi)
             n    == rx.ok + 1
  <2>1. top \in level /\ low \in level
    BY DEF Greatest, Least, RxType
  <2>2. mean \in level
    BY MeanBounded DEF Average, RxType
  <2>3. RxUpdate(code, size, rssi) =
          [rx EXCEPT !.bytes = b, !.max = top, !.min = low, !.ok = n, !.avg = mean]
    BY <1>3, Zenon DEF RxUpdate
  <2>4. b \in count /\ n \in count
    BY <1>2
  <2> HIDE DEF top, low, mean, b, n, level, kinds, count
  <2>5. rx \in type
    BY <1>1
  <2>6. [rx EXCEPT !.bytes = b, !.max = top, !.min = low, !.ok = n, !.avg = mean] \in type
    BY <2>1, <2>2, <2>4, <2>5
  <2> HIDE DEF type
  <2> QED BY <1>1, <2>3, <2>6, Zenon
<1>4. CASE code # "SUCCESS"
  <2> DEFINE k == [rx.by EXCEPT ![Kind(code)] = @ + 1]
             n == rx.err + 1
  <2>1. Kind(code) \in Counters /\ rx.by \in [Counters -> Nat]
    BY DEF Kind, Counters, Kinds, RxType
  <2>2. k \in kinds
    BY <2>1
  <2>3. RxUpdate(code, size, rssi) = [rx EXCEPT !.bytes = b, !.err = n, !.by = k]
    BY <1>4 DEF RxUpdate, RxType
  <2>4. b \in count /\ n \in count
    BY <1>2
  <2> HIDE DEF k, b, n, level, kinds, count
  <2>5. rx \in type
    BY <1>1
  <2>6. [rx EXCEPT !.bytes = b, !.err = n, !.by = k] \in type
    BY <2>2, <2>4, <2>5
  <2> HIDE DEF type
  <2> QED BY <1>1, <2>3, <2>6, Zenon
<1> QED BY <1>3, <1>4

\* A frame is counted once.
LEMMA RxUpdateCounts ==
  ASSUME rx \in RxType, heard \in Nat, StatsAddUp, NEW code, NEW size \in Nat, NEW rssi,
         rx' = RxUpdate(code, size, rssi), heard' = heard + 1
  PROVE  StatsAddUp'
<1>1. CASE code = "SUCCESS"
  <2>1. rx'.ok = rx.ok + 1 /\ rx'.err = rx.err /\ rx'.by = rx.by
    BY <1>1 DEF RxUpdate, RxType
  <2> QED BY <2>1 DEF StatsAddUp, RxType
<1>2. CASE code # "SUCCESS"
  <2>1. Kind(code) \in Counters
    BY DEF Kind, Counters, Kinds
  <2>2. /\ rx'.ok = rx.ok /\ rx'.err = rx.err + 1
        /\ rx'.by = [rx.by EXCEPT ![Kind(code)] = @ + 1]
    BY <1>2 DEF RxUpdate, RxType
  <2>3. rx.by \in [Counters -> Nat] /\ rx.ok \in Nat /\ rx.err \in Nat
    BY DEF RxType
  <2>4. heard' = rx'.ok + rx'.err
    BY <2>2, <2>3 DEF StatsAddUp
  <2>5. rx'.err = rx'.by["HEAD_END_AUTH"] + rx'.by["GATEWAY_AUTH"] + rx'.by["FRAME_UNK"]
              + rx'.by["FRAME_CRC"] + rx'.by["FRAME_RS"] + rx'.by["FRAME_SZ"]
              + rx'.by["APP_MSG_SZ"] + rx'.by["PASSED"]
    BY <2>1, <2>2, <2>3 DEF StatsAddUp, Counters, Kinds
  <2> QED BY <2>4, <2>5 DEF StatsAddUp
<1> QED BY <1>1, <1>2

LEMMA NoRxAddsUp ==
  /\ NoRx \in RxType
  /\ NoRx.ok = 0 /\ NoRx.err = 0 /\ \A k \in Counters : NoRx.by[k] = 0
<1>1. [k \in Counters |-> 0] \in [Counters -> Nat]
  OBVIOUS
<1>2. NoRx \in RxType
  BY <1>1 DEF NoRx, RxType
<1>3. NoRx.ok = 0 /\ NoRx.err = 0 /\ NoRx.by = [k \in Counters |-> 0]
  BY DEF NoRx
<1> QED BY <1>2, <1>3

LEMMA StatsStep == StatsInv /\ [Next]_vars => StatsInv'
<1> SUFFICES ASSUME StatsInv, [Next]_vars PROVE StatsInv'
  OBVIOUS
<1> USE DEF StatsInv
<1>0. rx \in RxType /\ heard \in 0..MaxFrames /\ MaxFrames \in Nat /\ MaxSent \in Nat
  BY ProtoConstants DEF TypeOK, RxType
<1>1. ASSUME NEW f \in ExchFrames \cup DownFrames, NEW rssi \in Rssis, Recv(f, rssi)
      PROVE  StatsInv'
  <2>1. f.size \in 0..255 /\ rssi \in 0..255
    BY FrameSizes, ProtoConstants
  <2>2. rx' = RxUpdate(Extract(f), f.size, rssi) /\ heard' = heard + 1 /\ heard < MaxFrames
        /\ UNCHANGED <<cfg, tx, keys>> /\ dev' \in {"IDLE", "ERROR"}
    BY <1>1 DEF Recv
  <2>3. rx' \in RxType
    <3>1. f.size \in Nat
      BY <2>1
    <3>2. RxUpdate(Extract(f), f.size, rssi) \in RxType
      BY <1>0, <2>1, <3>1, RxUpdateTyped
    <3> QED BY <2>2, <3>2
  <2>4. StatsAddUp'
    BY <1>0, <2>1, <2>2, RxUpdateCounts
  <2>5. msg'.size \in 0..255
    <3>1. LSize(f) \in 0..255
      BY <2>1 DEF LSize, Overhead
    <3>2. Filled(f).size \in 0..255
      BY <3>1 DEF Filled
    <3>3. msg' = Filled(f) \/ msg' = Nothing \/ msg' = msg
      BY <1>1 DEF Recv
    <3> QED BY <3>2, <3>3 DEF TypeOK, Nothing
  <2>6. heard' \in 0..MaxFrames
    BY <1>0, <2>2
  <2> QED BY <2>2, <2>3, <2>4, <2>5, <2>6, Zenon DEF TypeOK, RxType
<1>2. ASSUME NEW m \in Messages, Send(m)
      PROVE  StatsInv'
  <2>1. UNCHANGED <<cfg, msg, rx, heard, keys>> /\ dev' \in {"IDLE", "ERROR"}
    BY <1>2 DEF Send
  <2>2. tx' \in {tx, TxUpdate(m)} /\ tx.frames < MaxSent
    BY <1>2 DEF Send
  <2>3. Built(m).size \in Nat
    BY ProtoConstants DEF Built, FrameSize, Overhead
  <2>4. tx' \in [bytes : Nat, frames : 0..MaxSent]
    BY <1>0, <2>2, <2>3 DEF TypeOK, TxUpdate
  <2> QED BY <2>1, <2>4 DEF TypeOK, StatsAddUp
<1>3. CASE Configure \/ ClearError \/ UNCHANGED vars
  <2>1. /\ cfg' \in Configs /\ dev' \in {"IDLE", "ERROR"} /\ msg' \in {msg, Nothing}
        /\ UNCHANGED <<keys, rx, tx, heard>>
    BY <1>3 DEF Configure, ClearError, vars, TypeOK
  <2>2. msg'.size \in 0..255
    BY <2>1 DEF TypeOK, Nothing
  <2>3. StatsAddUp'
    BY <2>1 DEF StatsAddUp
  <2> QED BY <2>1, <2>2, <2>3 DEF TypeOK
<1>4. ASSUME NEW id \in Rewritten, NEW k \in KeyValues, WriteKey(id, k)
      PROVE  StatsInv'
  <2>1. keys' \in [KeyIds -> KeyValues]
    BY <1>4 DEF WriteKey, TypeOK
  <2>2. msg' = Nothing /\ UNCHANGED <<cfg, dev, rx, tx, heard>>
    BY <1>4 DEF WriteKey
  <2>3. msg'.size = 0
    BY <2>2 DEF Nothing
  <2>4. StatsAddUp'
    BY <2>2 DEF StatsAddUp
  <2> QED BY <2>1, <2>2, <2>3, <2>4 DEF TypeOK
<1>5. CASE ClearStats
  <2>1. rx' = NoRx /\ heard' = 0 /\ tx' = NoTx /\ UNCHANGED <<cfg, dev, msg, keys>>
    BY <1>5 DEF ClearStats, RxClear
  <2>2. rx' \in RxType /\ StatsAddUp'
    BY <2>1, NoRxAddsUp DEF StatsAddUp, Counters, Kinds
  <2>3. tx' \in [bytes : Nat, frames : 0..MaxSent]
    BY <1>0, <2>1 DEF NoTx
  <2>4. heard' \in 0..MaxFrames
    BY <1>0, <2>1
  <2> QED BY <2>1, <2>2, <2>3, <2>4, Zenon DEF TypeOK, RxType
<1> QED BY <1>1, <1>2, <1>3, <1>4, <1>5 DEF Next

\* The types, and that every frame received is counted once, under the right head
\* (Wize_ProtoStats_RxUpdate), however many there are.
THEOREM StatsAlwaysAddUp == Spec => []StatsInv
<1>1. Init => StatsInv
  <2> SUFFICES ASSUME Init PROVE StatsInv
    OBVIOUS
  <2>1. rx \in RxType /\ StatsAddUp
    BY NoRxAddsUp DEF Init, StatsAddUp, Counters, Kinds
  <2>2. keys \in [KeyIds -> KeyValues]
    BY DEF Init
  <2>3. tx \in [bytes : Nat, frames : 0..MaxSent] /\ heard \in 0..MaxFrames
    BY ProtoConstants DEF Init, NoTx
  <2>4. cfg \in Configs /\ dev \in {"IDLE", "ERROR"}
    BY DEF Init
  <2>5. msg.size \in 0..255
    BY DEF Init, Nothing
  <2> QED BY <2>1, <2>2, <2>3, <2>4, <2>5, Zenon DEF StatsInv, TypeOK, RxType
<1> QED BY <1>1, StatsStep, PTL DEF Spec
=============================================================================
