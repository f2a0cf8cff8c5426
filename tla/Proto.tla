-------------------------------- MODULE Proto --------------------------------
(***************************************************************************)
(* The frames of the Wize protocol (WizeCore/proto/src/proto.c) and their  *)
(* statistics, as WizeNet_Send, WizeNet_Recv and WizeNet_Ioctl use them    *)
(* (WizeCore/net/src/net_api.c).                                           *)
(*                                                                         *)
(* A frame on the air is a record of what the checks look at: whether a    *)
(* field is the device's, the keys its sender used, what its sender put    *)
(* into it (sent) and what has arrived of that (body).  A CRC or a hash    *)
(* tells a changed body always, a hash another key, and what is deciphered *)
(* with another key is garbled.  The Reed-Solomon decoder is a function of *)
(* the received word.                                                      *)
(*                                                                         *)
(* A definition named Bug... is the next definition with a mistake in it,  *)
(* used to see that a property can fail.  Nothing else refers to it.       *)
(***************************************************************************)
EXTENDS Integers, Sequences

CONSTANTS
  ExchFrames,   \* frames of the exchange layer that may arrive
  DownFrames,   \* frames of the download layer, their body a received word
  Decoded(_),   \* RS_Decode: what it returns for a word and leaves in the buffer
  Messages,     \* what the device is asked to send
  Configs,      \* sProtoConfig: the disabled filters and the values to match
  KeyValues,    \* what a key may be
  Rewritten,    \* the keys that are written while we look
  Rssis,        \* what PHY_CTL_GET_RSSI gives
  MaxFrames,    \* bounds on the frames received, and sent, between two clearings
  MaxSent       \* of the statistics

ChgId  == 15      \* KEY_CHG_ID
MacId  == 17      \* KEY_MAC_ID
LogId  == 18      \* KEY_LOG_ID
KeyIds == 0..LogId

\* cfield_e
CFields == {"INSTPONG", "INSTPING", "COMMAND", "RESPONSE", "DATA", "DATA_PRIO"}

\* The headers and the footers of the two kinds of frame.
ExchangeFrame(f) ==
  /\ f.size \in 0..254 /\ f.cfield \in CFields
  /\ {f.man, f.addr, f.ci, f.vers} \subseteq BOOLEAN /\ f.net \in 0..255
  /\ f.key \in 0..15 /\ {f.kenc, f.kmac} \subseteq KeyValues
DownloadFrame(f) ==
  f.size = 255 /\ f.dwnId \in Nat /\ f.vers \in BOOLEAN /\ f.klog \in KeyValues

ASSUME ProtoConstants ==
  /\ Rssis \subseteq 0..255 /\ Rewritten \subseteq KeyIds
  /\ MaxFrames \in Nat /\ MaxSent \in Nat
  /\ \A f \in ExchFrames : ExchangeFrame(f)
  /\ \A f \in DownFrames : DownloadFrame(f)
  /\ \A c \in Configs : c.transLen \in 0..230 /\ c.recvLen \in 0..254
  /\ \A m \in Messages : m.size \in 0..255

VARIABLES
  cfg,     \* sProtoConfig
  dev,     \* the device's state: IDLE, or ERROR after a frame that is refused
  last,    \* the last frame and the code of its treatment
  msg,     \* the net_msg_t that a reception has filled
  keys,    \* _a_Key_
  rx, tx,  \* sProtoStats
  heard    \* (history) frames received since the statistics were cleared

vars == <<cfg, dev, last, msg, keys, rx, tx, heard>>

Nothing == [type |-> "APP_UNKNOWN", size |-> 0]
Overhead == 25     \* the bytes of an exchange frame around the application's

Kinds == {"HEAD_END_AUTH", "GATEWAY_AUTH", "FRAME_UNK", "FRAME_CRC", "FRAME_RS",
          "FRAME_SZ", "APP_MSG_SZ"}
Counters == Kinds \cup {"PASSED"}

NoRx == [bytes |-> 0, ok |-> 0, err |-> 0, max |-> 0, min |-> 0, avg |-> 0,
         by |-> [k \in Counters |-> 0]]
NoTx == [bytes |-> 0, frames |-> 0]

-----------------------------------------------------------------------------
Off(filter) == filter \in cfg.off
Test(pass, code) == [pass |-> pass, code |-> code]

\* The first test that fails gives the code.
Verdict(tests) ==
  IF \A i \in DOMAIN tests : tests[i].pass THEN "SUCCESS"
  ELSE LET n == CHOOSE i \in DOMAIN tests :
                  ~tests[i].pass /\ \A j \in 1..(i - 1) : tests[j].pass
       IN  tests[n].code

\* CRC_Check
CrcOk(f) == f.body = f.sent

\* Crypto_AES128_CMAC: a hash tells the message and the key.
Cmac(key, text) == <<key, text>>

\* The hash of the head-end is computed with the key of the gateways.
BugKencOk(f) == Cmac(keys[MacId], f.body) = Cmac(f.kenc, f.sent)

\* The two hashes of the exchange layer, computed again: the head-end's, with the
\* key that the frame names, and the gateway's.
KencOk(f) == Cmac(keys[f.key], f.body) = Cmac(f.kenc, f.sent)
KmacOk(f) == Cmac(keys[MacId], f.body) = Cmac(f.kmac, f.sent)

\* That of the download layer.
KlogOk(f) == Cmac(keys[LogId], Decoded(f.body).content) = Cmac(f.klog, f.sent)

\* Crypto_Decrypt: the number 0 stands for a text that is not ciphered.
Deciphered(id, key, text) == IF id = 0 \/ keys[id] = key THEN text ELSE <<"garbled", text>>

\* _exchange_extract
ExchangeTests(f) ==
  <<Test(Off("AField") \/ f.addr, "FRAME_PASS"),
    Test(Off("MField") \/ f.man, "FRAME_PASS"),
    Test(Off("Crc") \/ CrcOk(f), "FRAME_CRC"),
    Test(Off("CiField") \/ f.ci, "PROTO_UNK"),
    Test(f.vers, "PROTO_UNK"),
    Test(Off("NetId") \/ f.net = cfg.netId, "NETWID_UNK"),
    Test(f.cfield \in {"INSTPONG", "COMMAND"}, "FRAME_UNK"),
    Test(f.key <= ChgId, "KEYID_UNK"),
    Test(f.key = 0 \/ Off("HashKenc") \/ KencOk(f), "HEAD_END_AUTH"),
    Test(Off("HashKmac") \/ KmacOk(f), "GATEWAY_AUTH")>>

\* _download_extract
DownloadTests(f) ==
  LET content == Decoded(f.body).content IN
  <<Test(Decoded(f.body).ret = 1, "FRAME_RS"),
    Test(content = f.sent, "FRAME_CRC"),
    Test(Off("DownId") \/ f.dwnId = cfg.dwnId, "FRAME_PASS"),
    Test(f.vers, "DOWNLOAD_VER"),
    Test(KlogOk(f), "HEAD_END_AUTH")>>

\* Wize_ProtoExtract
Extract(f) ==
  Verdict(IF f.size = 255 THEN DownloadTests(f)
          ELSE <<Test(f.size > 21, "FRAME_SZ"), Test(f.size <= cfg.recvLen, "APP_MSG_SZ")>>
               \o ExchangeTests(f))

\* l_size, a byte.
LSize(f) == (f.size + 256 - Overhead) % 256

\* What is put into the net_msg_t of an accepted frame.
Filled(f) ==
  IF f.size = 255
  THEN [type |-> "APP_DOWNLOAD", size |-> 210, key |-> LogId,
        data |-> Deciphered(LogId, f.klog, Decoded(f.body).content)]
  ELSE [type |-> IF f.cfield = "INSTPONG" THEN "APP_INSTALL" ELSE "APP_ADMIN",
        size |-> LSize(f), key |-> f.key, data |-> Deciphered(f.key, f.kenc, f.body)]

Kind(code) == IF code \in Kinds THEN code ELSE "PASSED"

\* The average of an accepted frame and those before it, as an integer.
Average(rssi) == (rx.avg * rx.ok + rssi) \div (rx.ok + 1)

Least(a, b) == IF a < b THEN a ELSE b
Greatest(a, b) == IF a > b THEN a ELSE b

\* Wize_ProtoStats_RxUpdate
RxUpdate(code, size, rssi) ==
  IF code = "SUCCESS"
  THEN [rx EXCEPT !.bytes = @ + size, !.max = Greatest(rssi, @), !.min = Least(rssi, @),
                  !.ok = @ + 1, !.avg = Average(rssi)]
  ELSE [rx EXCEPT !.bytes = @ + size, !.err = @ + 1, !.by[Kind(code)] = @ + 1]

-----------------------------------------------------------------------------
\* l_size: the application's identifier may be the first byte of the payload.
FrameSize(m) == Overhead + m.size - (IF m.app THEN 1 ELSE 0)

\* The payload is ciphered unless the application has done it.
Ciphered(m) == m.key # 0 /\ (~m.ciph \/ m.type \notin {"APP_DATA", "APP_DATA_PRIO"})

\* _exchange_build: what the receivers of a frame see of it.
Built(m) ==
  [cfield |-> CASE m.type = "APP_INSTALL"   -> "INSTPING"
                [] m.type = "APP_ADMIN"     -> "RESPONSE"
                [] m.type = "APP_DATA_PRIO" -> "DATA_PRIO"
                [] OTHER                    -> "DATA",
   size   |-> FrameSize(m),
   cipher |-> IF Ciphered(m) THEN {keys[m.key]} ELSE {},
   kenc   |-> keys[IF m.key = 0 THEN MacId ELSE m.key],
   kmac   |-> keys[MacId]]

\* Wize_ProtoBuild
BuildTests(m) ==
  <<Test(m.size > 0, "FRAME_SZ"), Test(m.size <= cfg.transLen, "APP_MSG_SZ"),
    Test(m.type \in {"APP_INSTALL", "APP_ADMIN", "APP_DATA", "APP_DATA_PRIO"},
         "STACK_MISMATCH")>>

\* Wize_ProtoStats_TxUpdate, with a noise that is not measured.
TxUpdate(m) == [bytes |-> tx.bytes + Built(m).size, frames |-> tx.frames + 1]

\* The counts of the errors are kept.
BugRxClear == [NoRx EXCEPT !.by = rx.by]

\* Wize_ProtoStats_RxClear
RxClear == NoRx

-----------------------------------------------------------------------------
Init ==
  /\ cfg \in Configs /\ dev = "IDLE"
  /\ last = [code |-> "NONE", frame |-> Nothing]
  /\ msg = Nothing /\ rx = NoRx /\ tx = NoTx /\ heard = 0
  /\ \E k \in KeyValues : keys = [id \in KeyIds |-> k]

\* WizeNet_Recv, with a PHY that has a frame.
Recv(f, rssi) ==
  /\ dev = "IDLE" /\ heard < MaxFrames
  /\ LET code == Extract(f) IN
     /\ last' = [code |-> code, frame |-> f]
     /\ msg' = IF code = "SUCCESS" THEN Filled(f) ELSE Nothing
     /\ dev' = IF code = "SUCCESS" THEN "IDLE" ELSE "ERROR"
     /\ rx' = RxUpdate(code, f.size, rssi)
  /\ heard' = heard + 1
  /\ UNCHANGED <<cfg, tx, keys>>

\* WizeNet_Send, with a PHY that takes the frame and transmits it.
Send(m) ==
  /\ dev = "IDLE" /\ tx.frames < MaxSent
  /\ LET code == Verdict(BuildTests(m)) IN
     /\ last' = [code |-> code, frame |-> IF code = "SUCCESS" THEN Built(m) ELSE Nothing]
     /\ dev' = IF code = "SUCCESS" THEN "IDLE" ELSE "ERROR"
     /\ tx' = IF code = "SUCCESS" THEN TxUpdate(m) ELSE tx
  /\ UNCHANGED <<cfg, msg, rx, heard, keys>>

\* NETDEV_CTL_CLR_ERR
ClearError ==
  /\ dev' = "IDLE"
  /\ UNCHANGED <<cfg, last, msg, rx, tx, heard, keys>>

\* NETDEV_CTL_CLR_STATS, in any state.
ClearStats ==
  /\ rx' = RxClear /\ tx' = NoTx /\ heard' = 0
  /\ UNCHANGED <<cfg, dev, last, msg, keys>>

\* NETDEV_CTL_CFG_PROTO
Configure ==
  /\ dev = "IDLE" /\ cfg' \in Configs
  /\ last' = [code |-> "NONE", frame |-> Nothing] /\ msg' = Nothing
  /\ UNCHANGED <<dev, rx, tx, heard, keys>>

\* Crypto_WriteKey
WriteKey(id, k) ==
  /\ keys' = [keys EXCEPT ![id] = k]
  /\ last' = [code |-> "NONE", frame |-> Nothing] /\ msg' = Nothing
  /\ UNCHANGED <<cfg, dev, rx, tx, heard>>

Next ==
  \/ \E f \in ExchFrames \cup DownFrames, rssi \in Rssis : Recv(f, rssi)
  \/ \E m \in Messages : Send(m)
  \/ \E id \in Rewritten, k \in KeyValues : WriteKey(id, k)
  \/ ClearError \/ ClearStats \/ Configure

Spec == Init /\ [][Next]_vars

-----------------------------------------------------------------------------
\* The variables have their types.
TypeOK ==
  /\ cfg \in Configs /\ dev \in {"IDLE", "ERROR"} /\ msg.size \in 0..255
  /\ keys \in [KeyIds -> KeyValues] /\ heard \in 0..MaxFrames
  /\ rx \in [bytes : Nat, ok : Nat, err : Nat, max : 0..255, min : 0..255, avg : 0..255,
             by : [Counters -> Nat]]
  /\ tx \in [bytes : Nat, frames : 0..MaxSent]

\* Every frame that is received is counted once, as accepted or under one kind of
\* error, whatever is done with the statistics in between.
StatsAddUp ==
  /\ heard = rx.ok + rx.err
  /\ rx.err = rx.by["HEAD_END_AUTH"] + rx.by["GATEWAY_AUTH"] + rx.by["FRAME_UNK"]
              + rx.by["FRAME_CRC"] + rx.by["FRAME_RS"] + rx.by["FRAME_SZ"]
              + rx.by["APP_MSG_SZ"] + rx.by["PASSED"]

\* What is handed over is what was sent.  The decoder takes the wrong word for the
\* right one at times, a key may have been changed here and not there, and every
\* filter but those of a download can be disabled: a changed body passes only when
\* no hash of the frame's is looked at either, a garbled one when that of the key
\* it was ciphered with is not.
DeliveredAsSent ==
  "data" \in DOMAIN msg /\ "sent" \in DOMAIN last.frame =>
    \/ msg.data = last.frame.sent
    \/ /\ last.frame.size < 255
       /\ last.frame.key = 0 \/ "HashKenc" \in cfg.off
       /\ last.frame.key # 0 \/ {"Crc", "HashKmac"} \subseteq cfg.off

\* The types, and that the statistics add up.
StatsInv == TypeOK /\ StatsAddUp
=============================================================================
