----------------------------- MODULE PingReply -----------------------------
(***************************************************************************)
(* The replies of the gateways to an installation ping (inst_internal.c).  *)
(* N containers, numbered from 0, are linked from the worst to the best     *)
(* reply and back.  A reply takes the container of the worst one and is    *)
(* linked at the place its RSSI gives; at the end of the session the       *)
(* containers are written, worst last, into PING_REPLY1..PING_REPLYn.      *)
(***************************************************************************)
EXTENDS Integers, FiniteSets

CONSTANTS N,        \* NB_PING_REPLPY
          Senders,  \* the (concentrator, modem) couples of the pongs
          Rssis,    \* the RSSI of a pong: 0 is the worst
          PongMax   \* 255, where the count of the pongs stays

ASSUME PingConstants ==
  N \in Nat \ {0} /\ PongMax \in Nat /\ Rssis \subseteq Nat

VARIABLES next, from, rssi,   \* the containers: pNext, the couple, the RSSI
          worst, best,        \* pWorst, pBest
          nbPong,             \* u8NbPong
          reply,              \* the PING_REPLYi parameters
          strongest           \* history: the best RSSI of the replies kept or
                              \* dropped for their RSSI since the ping

ringVars == <<next, from, rssi, worst, best, nbPong>>
pingVars == <<ringVars, reply, strongest>>

Containers == 0 .. N - 1
NoSender   == "none"        \* a cleared container
NoReply    == [from |-> NoSender, rssi |-> 0]

Larger(x, y) == IF x > y THEN x ELSE y

\* The links InstInt_Init gives the containers: the first is the best one,
\* each leads to the one before it, and the first to the last.
Links == [i \in Containers |-> IF i = 0 THEN N - 1 ELSE i - 1]

PingInit ==
  /\ next = Links /\ worst = N - 1 /\ best = 0
  /\ from = [i \in Containers |-> NoSender] /\ rssi = [i \in Containers |-> 0]
  /\ nbPong = 0 /\ strongest = 0
  /\ reply = [i \in 1 .. N |-> NoReply]

InstInit ==
  /\ next' = Links /\ worst' = N - 1 /\ best' = 0
  /\ from' = [i \in Containers |-> NoSender] /\ rssi' = [i \in Containers |-> 0]
  /\ nbPong' = 0 /\ strongest' = 0
  /\ UNCHANGED reply

\* Every reply is linked after the worst one.
BugPlace(r) == worst

\* The place of a reply: the last container, from the worst one on, before the
\* first that is better than the reply, or the best one.
Place(r) ==
  LET at[k \in 0 .. N] ==
        IF k = 0 THEN worst
        ELSE LET c == at[k - 1]
             IN  IF c # best /\ r >= rssi[next[c]] THEN next[c] ELSE c
  IN  at[N]

Known(s) == \E i \in Containers : from[i] = s

InstAdd(s, r) ==
  /\ nbPong' = IF nbPong < PongMax THEN nbPong + 1 ELSE nbPong
  /\ strongest' = IF Known(s) THEN strongest ELSE Larger(strongest, r)
  /\ \/ (Known(s) \/ r < rssi[worst]) /\ UNCHANGED <<next, from, rssi, worst, best>>
     \/ /\ ~Known(s) /\ r >= rssi[worst]
        /\ LET cur == Place(r)
               new == worst
               cut == [next EXCEPT ![best] = next[worst]]
               put == [cut EXCEPT ![new] = cut[cur]]
           IN  /\ worst' = cut[best]
               /\ next' = [put EXCEPT ![cur] = new]
               /\ best' = IF cur = best THEN new ELSE best
               /\ from' = [from EXCEPT ![new] = s]
               /\ rssi' = [rssi EXCEPT ![new] = r]
  /\ UNCHANGED reply

\* The k-th container from the worst one on.
Nth == LET c[k \in 0 .. N] == IF k = 0 THEN worst ELSE next[c[k - 1]] IN c

InstEnd ==
  /\ reply' = IF nbPong = 0 THEN reply
              ELSE [i \in 1 .. N |-> [from |-> from[Nth[N - i]], rssi |-> rssi[Nth[N - i]]]]
  /\ UNCHANGED <<ringVars, strongest>>

PingTypeOK ==
  /\ next \in [Containers -> Containers] /\ worst \in Containers /\ best \in Containers
  /\ from \in [Containers -> Senders \cup {NoSender}]
  /\ rssi \in [Containers -> Rssis \cup {0}]
  /\ nbPong \in 0 .. PongMax /\ strongest \in Rssis \cup {0}
  /\ reply \in [1 .. N -> [from : Senders \cup {NoSender}, rssi : Rssis \cup {0}]]

\* The containers in use are a ring from the worst to the best and back, and the best
\* holds the strongest reply.  A reply that is worse than all but the worst takes the
\* container of that out of the ring, which gets shorter.
Ring(n, c) ==
  /\ \A i, j \in 1 .. n : c[i] = c[j] => i = j
  /\ c[1] = worst /\ c[n] = best /\ next[best] = worst
  /\ \A i \in 1 .. n - 1 : next[c[i]] = c[i + 1]
  /\ \A i \in 1 .. n : rssi[c[i]] <= rssi[best]
  /\ rssi[best] = strongest

RingInv == \E n \in 1 .. N : \E c \in [1 .. n -> Containers] : Ring(n, c)

====
