-------------------------------- MODULE MCProto --------------------------------
(***************************************************************************)
(* A small instance of Proto, with the decoder of ReedSolomon over a field *)
(* of eight elements: words of seven symbols, three of them the message,   *)
(* two wrong symbols to correct.  The exchange frames are those that       *)
(* differ in at most two fields from one that is for this device, the      *)
(* words those with up to three wrong symbols at some places.  The keys    *)
(* that are written are those that a command can write.                    *)
(***************************************************************************)
EXTENDS ReedSolomon, Proto

MCPP == [i \in 0..3 |-> IF i = 2 THEN 0 ELSE 1]

Sent == [i \in 0..(KK - 1) |-> 2 * i + 1]
Good == Encode(Sent)

\* The words are numbered: where they are wrong, and by what.
Words == 0..(3 * 64 - 1)
Places(n) == CASE n \div 64 = 0 -> {0, 1} [] n \div 64 = 1 -> {3, 6} [] OTHER -> {1, 4, 6}
Wrong(n) ==
  [p \in Places(n) |-> IF p = Max(Places(n)) THEN n % 8 ELSE (n \div 8) % 8]
Word(n) ==
  [p \in 0..(NN - 1) |-> IF p \in Places(n) THEN Add[Good[p], Wrong(n)[p]] ELSE Good[p]]

Content(word) == [i \in 0..(KK - 1) |-> word[i]]

\* Nowhere has the decoder to keep a zero in an unsigned byte.
Exact(s, t, e) ==
  /\ \A i \in DOMAIN s : s[i] # 0
  /\ \A j \in 1..e.l : e.elp[j] # 0
  /\ \A i \in 1..e.l : Zed(t, e)[i] # Byte(-1)
Indices(w)      == [i \in 1..(2 * TT) |-> IndexOf[Syndrome(w, i)]]
NoZeroStored(w) ==
  Exact([i \in 1..(2 * TT) |-> Syndrome(w, i)], Indices(w), Located(Indices(w)))

\* A word as the decoder returns it.
Outcome(d, exact) == [ret |-> d.ret, content |-> Content(d.word), exact |-> exact]
\* All the words decoded, once: @@ makes TLC tabulate the function.
DecodedWords == [n \in Words |-> Outcome(Decode(Word(n)), NoZeroStored(Word(n)))] @@ <<>>
MCDecoded(n) == DecodedWords[n]

Download == [size |-> 255, sent |-> Sent, body |-> 0, dwnId |-> 1, vers |-> TRUE, klog |-> "k"]
MCDownFrames ==
  {[Download EXCEPT !.body = n] : n \in Words}
  \cup {[Download EXCEPT !.dwnId = 2], [Download EXCEPT !.vers = FALSE],
        [Download EXCEPT !.klog = "k2"]}

Command ==
  [size |-> 30, addr |-> TRUE, man |-> TRUE, ci |-> TRUE, vers |-> TRUE, net |-> 1,
   cfield |-> "COMMAND", key |-> 3, kenc |-> "k", kmac |-> "k", sent |-> "a", body |-> "a"]

Changed(f) ==
  {[f EXCEPT !.size = n] : n \in {21, 22, 101}}
  \cup {[f EXCEPT !.addr = FALSE], [f EXCEPT !.man = FALSE], [f EXCEPT !.ci = FALSE],
        [f EXCEPT !.vers = FALSE], [f EXCEPT !.net = 2], [f EXCEPT !.kenc = "k2"],
        [f EXCEPT !.kmac = "k2"], [f EXCEPT !.body = "b"], [f EXCEPT !.key = 0]}
  \cup {[f EXCEPT !.cfield = c] : c \in {"INSTPONG", "DATA"}}

MCExchFrames == {Command} \cup Changed(Command) \cup UNION {Changed(f) : f \in Changed(Command)}

MCConfigs ==
  {[off |-> off, netId |-> 1, dwnId |-> 1, transLen |-> 80, recvLen |-> 100] :
    off \in {{"AField", "Crc", "HashKmac", "NetId", "DownId"}, {"HashKenc", "MField"}}}

MCMessages ==
  {[type |-> t, size |-> 9, key |-> 3, app |-> TRUE, ciph |-> TRUE] :
    t \in {"APP_INSTALL", "APP_ADMIN", "APP_DATA", "APP_DATA_PRIO", "APP_DOWNLOAD"}}
  \cup {[type |-> "APP_DATA", size |-> n, key |-> 0, app |-> FALSE, ciph |-> FALSE] :
        n \in {0, 8, 81}}

Distance(n) == Cardinality({p \in Places(n) : Wrong(n)[p] # 0})

Arrived == last.code # "NONE" /\ "klog" \in DOMAIN last.frame
Corrected == last.code \notin {"FRAME_RS", "FRAME_CRC"}

\* A word with no more than tt wrong symbols is corrected, wherever they are, unless
\* the decoder had to keep the logarithm of a zero in one of its unsigned bytes
\* (rs.c, the arrays s, reg and z).
CorrectsUnlessZero ==
  Arrived /\ Distance(last.frame.body) \in 1..TT /\ DecodedWords[last.frame.body].exact
    => Corrected
=============================================================================
