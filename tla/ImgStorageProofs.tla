---------------------------- MODULE ImgStorageProofs ----------------------------
(***************************************************************************)
(* Proofs about ImgStorage.                                                *)
(*                                                                         *)
(* For all constants, the types and DroppedForALine (ImgInv), and          *)
(* WrittenOnce.  Both need that a buffer belongs to a line that has begun  *)
(* and is not full, and that what is written belongs to blocks that are    *)
(* marked: BufferInv, which is inductive.                                  *)
(*                                                                         *)
(* CompleteIsWhole when no more than one block lies behind the last whole  *)
(* byte of aBitMap, as with the BLOCK_NB of 809: _clr_bitmap leaves the    *)
(* marks of these blocks.  Its invariant SoundInv says what is marked, what*)
(* the buffers hold and what is written of the blocks stored for the image,*)
(* and that nbBlk counts the set Done of the ends that are written and of  *)
(* the last blocks of the full lines.  Done lies in the image, so that a   *)
(* count equal to the expected one leaves nothing out.                     *)
(***************************************************************************)
EXTENDS ImgStorage, FiniteSetTheorems, TLAPS

-----------------------------------------------------------------------------
(* Blocks, lines and buffers.                                              *)

\* A block lies in the line of those that share its first block.
LEMMA LineFacts ==
  ASSUME NEW b \in Nat
  PROVE  /\ b % 4 \in 0..3 /\ FirstOf(b) \in Nat /\ b = FirstOf(b) + (b % 4)
         /\ \A c \in Nat : c \in Line(b) <=> FirstOf(c) = FirstOf(b)
<1>1. b % 4 \in 0..3 /\ FirstOf(b) \in Nat /\ b = FirstOf(b) + (b % 4)
  BY DEF FirstOf
<1>2. ASSUME NEW c \in Nat PROVE c \in Line(b) <=> FirstOf(c) = FirstOf(b)
  BY DEF FirstOf, Line
<1> QED
  BY <1>1, <1>2

\* A block has a buffer, and the blocks of a line have the same.
LEMMA SlotFacts ==
  ASSUME NEW b \in Nat
  PROVE  /\ SlotOf(b) \in Slots
         /\ \A c \in Nat : FirstOf(c) = FirstOf(b) => SlotOf(c) = SlotOf(b)
<1>1. b \div 4 \in Nat /\ LineNb - 1 \in Nat /\ LineNb - 1 > 0
  BY ImgConstants
<1>2. SlotOf(b) \in Slots
  <2>1. \A x \in Nat, n \in Nat \ {0} : x % n \in 0..(n - 1)
    OBVIOUS
  <2>2. (b \div 4) % (LineNb - 1) \in 0..((LineNb - 1) - 1)
    BY <1>1, <2>1
  <2>3. (LineNb - 1) - 1 = LineNb - 2
    BY ImgConstants
  <2> QED
    BY <2>2, <2>3 DEF SlotOf, Slots
<1>3. ASSUME NEW c \in Nat, FirstOf(c) = FirstOf(b) PROVE SlotOf(c) = SlotOf(b)
  <2>1. c \div 4 = b \div 4
    BY <1>3 DEF FirstOf
  <2> QED
    BY <2>1 DEF SlotOf
<1> QED
  BY <1>2, <1>3

\* The next block is in the same line but for the last block of it.
LEMMA NextInLine ==
  ASSUME NEW c \in Nat
  PROVE  /\ c + 1 \in Line(c) <=> c % 4 # 3
         /\ c % 4 # 3 => FirstOf(c + 1) = FirstOf(c) /\ (c + 1) % 4 = (c % 4) + 1
         /\ c % 4 = 3 => (c + 1) % 4 = 0
BY DEF Line, FirstOf

\* The count of LineFull is that of the whole line.
LEMMA FullLine ==
  ASSUME NEW b \in Nat
  PROVE  LineFull(b) <=> Line(b) \subseteq bitMap \cup {b}
<1>1. InLine(b) \in SUBSET Line(b)
  BY DEF InLine
<1>2. IsFiniteSet(Line(b)) /\ Cardinality(Line(b)) = 4
  <2>1. FirstOf(b) \in Int /\ FirstOf(b) + 3 \in Int
    BY DEF FirstOf
  <2> QED
    BY <2>1, FS_Interval DEF Line
<1>3. LineFull(b) <=> InLine(b) = Line(b)
  BY <1>1, <1>2, FS_Subset DEF LineFull
<1> QED
  BY <1>3 DEF InLine

-----------------------------------------------------------------------------
(* The invariants.                                                         *)

\* A buffer holds a line that has begun and is not full.
PendInv ==
  \A s \in Slots : pend[s] # Empty =>
    \E c \in bitMap : FirstOf(c) = pend[s] /\ SlotOf(c) = s /\ ~(Line(c) \subseteq bitMap)

\* What is written belongs to a block that is marked, and the double word that
\* two blocks share to two of them.
FlashInv ==
  \A q \in flash : /\ q[2] \in bitMap
                   /\ q[1] = "end" => q[2] = expected - 1 \/ q[2] + 1 \in bitMap

BufferInv == bitMap \subseteq 0..(BlockNb - 1) /\ PendInv /\ FlashInv

-----------------------------------------------------------------------------
\* The blocks of an image are among those there is room for.
LEMMA BlockFacts ==
  ASSUME TypeOK, NEW b \in 0..(expected - 1)
  PROVE  b \in Nat /\ b \in 0..(BlockNb - 1) /\ b \in Ids /\ FirstOf(b) \in Ids
<1>1. b \in Nat /\ b \in 0..(BlockNb - 1) /\ b \in Ids
  BY ImgConstants DEF TypeOK, Ids
<1>2. FirstOf(b) \in Nat /\ FirstOf(b) =< b
  BY <1>1, LineFacts
<1> QED
  BY <1>1, <1>2, ImgConstants DEF Ids

\* The types hold at first.
LEMMA InitType == Init => TypeOK
<1> SUFFICES ASSUME Init PROVE TypeOK
  OBVIOUS
<1>1. pend \in [Slots -> Ids \cup {Empty}] /\ DOMAIN held = Slots
  BY DEF Init
<1> QED
  BY <1>1, ImgConstants DEF Init, TypeOK

\* Every step keeps the types.
LEMMA NextType == TypeOK /\ [Next]_vars => TypeOK'
<1> SUFFICES ASSUME TypeOK, [Next]_vars PROVE TypeOK'
  OBVIOUS
<1>1. CASE Setup
  BY <1>1 DEF TypeOK, Setup, Slots, Ids
<1>2. ASSUME NEW n \in Images, Begin(n) PROVE TypeOK'
  <2>1. CASE EraseFailed
    BY <2>1 DEF TypeOK, EraseFailed, Slots, Ids
  <2>2. CASE ~EraseFailed
    <3>1. /\ nbBlk' = 0 /\ bitMap' = CleanMap
          /\ pend' = [s \in Slots |-> Empty] /\ held' = [s \in Slots |-> Zero]
          /\ expected' = n /\ sound' = TRUE /\ imgPend' = imgPend
      BY <1>2, <2>2 DEF Begin
    <3>2. n \in 0..BlockNb
      BY <1>2, ImgConstants DEF Begin, Refused
    <3>3. CleanMap \subseteq Ids
      BY DEF CleanMap, TypeOK
    <3>4. (pend \in [Slots -> Ids \cup {Empty}])' /\ (DOMAIN held = Slots)'
      BY <3>1 DEF Slots, Ids
    <3> QED
      BY <3>1, <3>2, <3>3, <3>4 DEF TypeOK, Ids
  <2> QED
    BY <2>1, <2>2
<1>3. ASSUME NEW b \in 0..(expected - 1), StoreBlock(b) PROVE TypeOK'
  <2>1. CASE Dropped(b)
    BY <2>1 DEF Dropped, vars, TypeOK, Slots, Ids
  <2>2. CASE Stored(b)
    <3>1. b \in Ids /\ FirstOf(b) \in Ids
      BY BlockFacts
    <3>2. Cardinality(Pairs(b)) \in Nat
      <4>1. IsFiniteSet({b - 1, b})
        <5>1. IsFiniteSet({b})
          BY FS_Singleton
        <5> QED
          BY <5>1, FS_AddElement, {b - 1, b} = {b} \cup {b - 1}
      <4>2. Pairs(b) \subseteq {b - 1, b}
        BY DEF Pairs
      <4> QED
        BY <4>1, <4>2, FS_Subset, FS_CardinalityType
    <3>3. nbBlk' \in Nat
      BY <2>2, <3>2 DEF Stored, One, TypeOK
    <3>4. (pend \in [Slots -> Ids \cup {Empty}])' /\ (DOMAIN held = Slots)'
      <4>1. pend' = [pend EXCEPT ![SlotOf(b)] = IF LineFull(b) THEN Empty ELSE FirstOf(b)]
        BY <2>2 DEF Stored
      <4>2. DOMAIN held' = DOMAIN held
        BY <2>2 DEF Stored
      <4> QED
        BY <4>1, <4>2, <3>1 DEF TypeOK, Slots, Ids
    <3>5. bitMap' \subseteq Ids /\ sound' \in BOOLEAN /\ imgPend' = imgPend /\ expected' = expected
      BY <2>2, <3>1 DEF Stored, TypeOK
    <3> QED
      BY <3>3, <3>4, <3>5 DEF TypeOK, Ids
  <2> QED
    BY <1>3, <2>1, <2>2 DEF StoreBlock
<1>4. ASSUME NEW p \in {"REMOTE", "NONE"}, SetPending(p) PROVE TypeOK'
  BY <1>4 DEF TypeOK, SetPending, Slots, Ids
<1>5. CASE UNCHANGED vars
  BY <1>5 DEF TypeOK, vars, Slots, Ids
<1> QED
  BY <1>1, <1>2, <1>3, <1>4, <1>5 DEF Next

(* ImgStore_Setup, ImgStore_Init, ImgStore_StoreBlock and the application's*)
(* calls keep the types: a block that is marked is one there is room for.  *)
THEOREM TypeCorrect == Spec => []TypeOK
BY InitType, NextType, PTL DEF Spec

-----------------------------------------------------------------------------
\* What the storing of a block changes, a failing write included.
LEMMA StoredFacts ==
  ASSUME NEW b \in Nat, Stored(b)
  PROVE  /\ bitMap' = bitMap \cup {b} /\ b \notin bitMap /\ HasBuffer(b)
         /\ expected' = expected /\ flash' \subseteq flash \cup Parts(b)
BY DEF Stored

\* What is written is of b or of the block before it, with its neighbour there.
LEMMA PartFacts ==
  ASSUME NEW b \in Nat, NEW p \in Parts(b)
  PROVE  \/ p = <<"body", b, b, b>>
         \/ /\ p[1] = "end" /\ p[2] \in {b - 1, b}
            /\ \/ p[2] \in bitMap \cup {b} /\ p[2] + 1 \in bitMap \cup {b}
               \/ p[2] = b /\ IsLast(b)
<1>1. CASE p \in {<<"end", c, Filled(b)[c % 4][1], Filled(b)[c % 4][2]>> : c \in Pairs(b)}
  <2>1. PICK c \in Pairs(b) : p = <<"end", c, Filled(b)[c % 4][1], Filled(b)[c % 4][2]>>
    BY <1>1
  <2>2. p[1] = "end" /\ p[2] = c
    BY <2>1
  <2>3. c \in {b - 1, b} /\ c \in bitMap \cup {b} /\ c + 1 \in bitMap \cup {b}
    BY DEF Pairs, InLine
  <2> QED
    BY <2>2, <2>3
<1>2. CASE p \in {<<"end", c, c, Pad>> : c \in {d \in {b} : IsLast(d)}}
  BY <1>2
<1> QED
  BY <1>1, <1>2 DEF Parts, EndParts

\* The buffers are empty at first.
LEMMA InitBuffer == Init => BufferInv
BY DEF Init, BufferInv, PendInv, FlashInv

\* Storing a block keeps BufferInv: its line takes the buffer, or gives it back full.
LEMMA StoredBuffer ==
  ASSUME TypeOK, BufferInv, NEW b \in 0..(expected - 1), Stored(b)
  PROVE  BufferInv'
<1>0. b \in Nat /\ b \in 0..(BlockNb - 1) /\ SlotOf(b) \in Slots
  BY BlockFacts, SlotFacts
<1>1. bitMap' = bitMap \cup {b} /\ expected' = expected
  BY <1>0, StoredFacts
<1>2. bitMap' \subseteq 0..(BlockNb - 1)
  BY <1>0, <1>1 DEF BufferInv
<1>3. PendInv'
  <2> SUFFICES ASSUME NEW s \in Slots, pend'[s] # Empty
               PROVE  \E c \in bitMap' : FirstOf(c) = pend'[s] /\ SlotOf(c) = s
                                         /\ ~(Line(c) \subseteq bitMap')
    BY DEF PendInv
  <2>1. pend' = [pend EXCEPT ![SlotOf(b)] = IF LineFull(b) THEN Empty ELSE FirstOf(b)]
    BY DEF Stored
  <2>2. pend \in [Slots -> Ids \cup {Empty}]
    BY DEF TypeOK
  <2>3. CASE s = SlotOf(b)
    <3>1. ~LineFull(b) /\ pend'[s] = FirstOf(b)
      BY <2>1, <2>2, <2>3
    <3>2. ~(Line(b) \subseteq bitMap')
      BY <1>0, <1>1, <3>1, FullLine
    <3> QED
      BY <1>1, <2>3, <3>1, <3>2
  <2>4. CASE s # SlotOf(b)
    <3>1. pend'[s] = pend[s]
      BY <2>1, <2>2, <2>4
    <3>2. PICK c \in bitMap : FirstOf(c) = pend[s] /\ SlotOf(c) = s /\ ~(Line(c) \subseteq bitMap)
      BY <3>1 DEF BufferInv, PendInv
    <3>3. c \in Nat
      BY DEF BufferInv
    <3>4. b \notin Line(c)
      BY <1>0, <2>4, <3>2, <3>3, LineFacts, SlotFacts
    <3> QED
      BY <1>1, <3>1, <3>2, <3>4
  <2> QED
    BY <2>3, <2>4
<1>4. FlashInv'
  <2> SUFFICES ASSUME NEW q \in flash'
               PROVE  /\ q[2] \in bitMap'
                      /\ q[1] = "end" => q[2] = expected' - 1 \/ q[2] + 1 \in bitMap'
    BY DEF FlashInv
  <2>1. CASE q \in flash
    BY <1>1, <2>1 DEF BufferInv, FlashInv
  <2>2. CASE q \in Parts(b)
    BY <1>0, <1>1, <2>2, PartFacts DEF IsLast
  <2> QED
    BY <1>0, <2>1, <2>2, StoredFacts
<1> QED
  BY <1>2, <1>3, <1>4 DEF BufferInv

\* Every step keeps BufferInv.
LEMMA NextBuffer == TypeOK /\ BufferInv /\ [Next]_vars => BufferInv'
<1> SUFFICES ASSUME TypeOK, BufferInv, [Next]_vars PROVE BufferInv'
  OBVIOUS
<1>1. ASSUME UNCHANGED <<bitMap, pend, flash, expected>> PROVE BufferInv'
  BY <1>1 DEF BufferInv, PendInv, FlashInv
<1>2. ASSUME NEW n \in Images, Begin(n) PROVE BufferInv'
  <2>1. CASE EraseFailed
    BY <2>1 DEF EraseFailed, BufferInv, PendInv, FlashInv
  <2>2. CASE ~EraseFailed
    <3>1. flash' = {} /\ bitMap' = CleanMap /\ pend' = [s \in Slots |-> Empty]
      BY <1>2, <2>2 DEF Begin
    <3>2. PendInv'
      BY <3>1 DEF PendInv
    <3>3. CleanMap \subseteq bitMap
      BY DEF CleanMap
    <3> QED
      BY <3>1, <3>2, <3>3 DEF BufferInv, FlashInv
  <2> QED
    BY <2>1, <2>2
<1>3. ASSUME NEW b \in 0..(expected - 1), StoreBlock(b) PROVE BufferInv'
  BY <1>1, <1>3, StoredBuffer DEF StoreBlock, Dropped, vars
<1> QED
  BY <1>1, <1>2, <1>3 DEF Next, Setup, SetPending, vars

\* BufferInv is an invariant.
LEMMA Buffers == Spec => [](TypeOK /\ BufferInv)
<1>1. Init => TypeOK /\ BufferInv
  BY InitType, InitBuffer
<1>2. TypeOK /\ BufferInv /\ [Next]_vars => (TypeOK /\ BufferInv)'
  BY NextType, NextBuffer
<1> QED
  BY <1>1, <1>2, PTL DEF Spec

(* ImgStore_StoreBlock drops a block that is not there yet only for a line *)
(* that has begun and shares its buffer (img_storage.c, sPendCtrl).        *)
THEOREM ImgInvAlways == Spec => []ImgInv
<1>1. TypeOK /\ BufferInv => ImgInv
  <2> SUFFICES ASSUME TypeOK, BufferInv,
                      NEW b \in 0..(expected - 1), b \notin bitMap, ~HasBuffer(b)
               PROVE  \E c \in bitMap : FirstOf(c) # FirstOf(b) /\ SlotOf(c) = SlotOf(b)
                                        /\ ~(Line(c) \subseteq bitMap)
    BY DEF ImgInv, DroppedForALine
  <2>1. SlotOf(b) \in Slots
    BY BlockFacts, SlotFacts
  <2>2. pend[SlotOf(b)] # Empty /\ pend[SlotOf(b)] # FirstOf(b)
    BY DEF HasBuffer
  <2> QED
    BY <2>1, <2>2 DEF BufferInv, PendInv
<1> QED
  BY <1>1, Buffers, PTL

\* A step that marks a block has stored that block.
LEMMA WhoStores ==
  ASSUME [Next]_vars, NEW b \in Ids, Stored(b)
  PROVE  b \in 0..(expected - 1)
<1>1. bitMap' = bitMap \cup {b} /\ b \notin bitMap
  BY DEF Stored
<1>2. ASSUME NEW n \in Images, Begin(n) PROVE FALSE
  BY <1>1, <1>2 DEF Begin, EraseFailed, CleanMap
<1>3. ASSUME NEW c \in 0..(expected - 1), StoreBlock(c) PROVE c = b
  BY <1>1, <1>3 DEF StoreBlock, Stored, Dropped, vars
<1> QED
  BY <1>1, <1>2, <1>3 DEF Next, Setup, SetPending, vars

(* No double word of the flash is programmed twice between two erasures,   *)
(* whatever the order and the repetitions of the blocks and however many   *)
(* buffers there are.                                                      *)
THEOREM WrittenOnceAlways == Spec => WrittenOnce
<1>1. TypeOK /\ BufferInv /\ [Next]_vars =>
        [\A b \in Ids : Stored(b) =>
           \A p \in Parts(b), q \in flash : p[1] # q[1] \/ p[2] # q[2]]_vars
  <2> SUFFICES ASSUME TypeOK, BufferInv, [Next]_vars, NEW b \in Ids, Stored(b),
                      NEW p \in Parts(b), NEW q \in flash, p[1] = q[1], p[2] = q[2]
               PROVE  FALSE
    OBVIOUS
  <2>1. b \in Nat /\ b \in 0..(expected - 1) /\ b \notin bitMap /\ expected \in Nat
    <3>1. b \in 0..(expected - 1)
      BY WhoStores
    <3> QED
      BY <3>1 DEF Ids, Stored, TypeOK
  <2>2. q[2] \in bitMap /\ (q[1] = "end" => q[2] = expected - 1 \/ q[2] + 1 \in bitMap)
    BY DEF BufferInv, FlashInv
  <2>3. \/ p[1] = "body" /\ p[2] = b
        \/ p[1] = "end" /\ p[2] \in {b - 1, b}
    BY <2>1, PartFacts
  <2> QED
    BY <2>1, <2>2, <2>3
<1> QED
  BY <1>1, Buffers, PTL DEF Spec, WrittenOnce

-----------------------------------------------------------------------------
Body(c) == <<"body", c, c, c>>
End(c)  == <<"end", c, c, IF c = expected - 1 THEN Pad ELSE c + 1>>

\* The blocks of this image that have been stored, those whose end is written,
\* and the last ones of the full lines.
Here  == {c \in bitMap : Body(c) \in flash}
Ended == {c \in Here : c % 4 # 3 /\ (c = expected - 1 \/ c + 1 \in Here)}
Fulls == {c \in Here : c % 4 = 3 /\ Line(c) \subseteq Here}
Done  == Ended \cup Fulls

\* A mark left by the last image is that of the last block there is, alone in
\* its line.
StaleInv == Here \subseteq 0..(expected - 1)
            /\ \A c \in bitMap \ Here : c % 4 = 0 /\ c = BlockNb - 1

\* A line that is not full has its buffer, and the bytes of its blocks are there.
HeldInv ==
  \A c \in Here :
    /\ ~(Line(c) \subseteq Here) => pend[SlotOf(c)] = FirstOf(c)
    /\ pend[SlotOf(c)] = FirstOf(c) =>
         /\ c % 4 # 3 => held[SlotOf(c)][c % 4][1] = c
         /\ c % 4 # 0 => held[SlotOf(c)][(c % 4) - 1][2] = c

WrittenInv == flash = {Body(c) : c \in Here} \cup {End(c) : c \in Ended}
CountInv   == nbBlk = Cardinality(Done)

SoundInv == sound => StaleInv /\ HeldInv /\ WrittenInv /\ CountInv

\* What holds of a flash that was erased for this image, and the blocks whose end
\* the storing of b writes.
Sound ==
  /\ TypeOK /\ bitMap \subseteq 0..(BlockNb - 1)
  /\ StaleInv /\ HeldInv /\ WrittenInv /\ CountInv

New(b) == Pairs(b) \cup {d \in {b} : IsLast(d)}

\* The blocks of b's line that are marked are those of this image.
LEMMA LineHere ==
  ASSUME Sound, NEW b \in 0..(expected - 1), Stored(b)
  PROVE  /\ b \in Nat /\ b \notin Here /\ Here \subseteq Nat /\ Here \subseteq 0..(expected - 1)
         /\ \A c \in Line(b) : c \in InLine(b) <=> c \in Here \cup {b}
         /\ LineFull(b) <=> Line(b) \subseteq Here \cup {b}
<1>1. b \in Nat /\ b \in 0..(BlockNb - 1) /\ b \notin bitMap
  BY BlockFacts, StoredFacts DEF Sound
<1>2. Here \subseteq 0..(expected - 1) /\ Here \subseteq bitMap /\ Here \subseteq Nat
  BY DEF Sound, StaleInv, Here
<1>3. ASSUME NEW c \in Line(b), c \in bitMap PROVE c \in Here
  <2> SUFFICES ASSUME c \notin Here PROVE FALSE
    OBVIOUS
  <2>1. c % 4 = 0 /\ c = BlockNb - 1
    BY <1>3 DEF Sound, StaleInv
  <2>2. c \in Nat /\ b =< c
    BY <1>1, <1>3, <2>1 DEF Sound
  <2>3. FirstOf(c) = FirstOf(b)
    BY <1>1, <2>2, LineFacts
  <2>4. FirstOf(c) = c /\ FirstOf(b) =< b
    BY <1>1, <2>1, <2>2 DEF FirstOf
  <2>5. b = c
    BY <1>1, <2>2, <2>3, <2>4
  <2> QED
    BY <1>1, <1>3, <2>5
<1> QED
  BY <1>1, <1>2, <1>3, FullLine DEF InLine

\* The ends that get written are those with a neighbour of this image.
LEMMA PairsAre ==
  ASSUME Sound, NEW b \in 0..(expected - 1), Stored(b)
  PROVE  /\ Pairs(b) \subseteq {b - 1, b}
         /\ b - 1 \in Pairs(b) <=> b % 4 # 0 /\ b - 1 \in Here
         /\ b \in Pairs(b) <=> b % 4 # 3 /\ b + 1 \in Here
<1>0. b \in Nat /\ b \notin Here /\ Here \subseteq Nat
  BY LineHere
<1>1. Pairs(b) \subseteq {b - 1, b}
  BY DEF Pairs
<1>2. b \in Line(b) /\ (b + 1 \in Line(b) <=> b % 4 # 3)
  BY <1>0, LineFacts, NextInLine
<1>3. b - 1 \in Line(b) <=> b % 4 # 0
  BY <1>0 DEF Line, FirstOf
<1>4. \A c \in Line(b) : c \in InLine(b) <=> c \in Here \cup {b}
  BY LineHere
<1>5. InLine(b) \subseteq Line(b)
  BY DEF InLine
<1>6. b - 1 \in Pairs(b) <=> b - 1 \in InLine(b) /\ b \in InLine(b)
  BY <1>0 DEF Pairs
<1>7. b \in Pairs(b) <=> b + 1 \in InLine(b) /\ b \in InLine(b)
  BY <1>0 DEF Pairs
<1>8. b \in InLine(b)
  BY <1>2, <1>4
<1>9. b - 1 # b /\ b + 1 # b
  BY <1>0
<1> QED
  BY <1>1, <1>2, <1>3, <1>4, <1>5, <1>6, <1>7, <1>8, <1>9

\* The blocks of a pair are both there, so that the first is not the last one.
LEMMA PairFacts ==
  ASSUME Sound, NEW b \in 0..(expected - 1), Stored(b), NEW c \in Pairs(b)
  PROVE  /\ c \in Nat /\ c % 4 # 3 /\ c # expected - 1 /\ c \notin Ended
         /\ c \in Here \cup {b} /\ c + 1 \in Here \cup {b}
<1>0. /\ b \in Nat /\ b \notin Here /\ Here \subseteq Nat /\ Here \subseteq 0..(expected - 1)
      /\ expected \in Nat
  BY LineHere DEF Sound, TypeOK
<1>1. CASE c = b - 1
  <2>1. b % 4 # 0 /\ b - 1 \in Here
    BY <1>1, PairsAre
  <2>2. (b - 1) % 4 # 3
    BY <1>0, <2>1
  <2>3. b - 1 \notin Ended
    BY <1>0 DEF Ended
  <2> QED
    BY <1>0, <1>1, <2>1, <2>2, <2>3
<1>2. CASE c = b
  <2>1. b % 4 # 3 /\ b + 1 \in Here
    BY <1>2, PairsAre
  <2>2. b # expected - 1
    BY <1>0, <2>1
  <2> QED
    BY <1>0, <1>2, <2>1, <2>2 DEF Ended
<1> QED
  BY <1>1, <1>2, PairsAre

\* The bytes that waited in the buffer are those of the neighbour.
LEMMA PairFilled ==
  ASSUME Sound, NEW b \in 0..(expected - 1), Stored(b), NEW c \in Pairs(b)
  PROVE  Filled(b)[c % 4] = <<c, c + 1>>
<1>0. b \in Nat /\ b \notin Here /\ Here \subseteq Nat
  BY LineHere
<1>a. HeldInv
  BY DEF Sound
<1>1. CASE c = b - 1
  <2>1. b % 4 # 0 /\ b - 1 \in Here
    BY <1>1, PairsAre
  <2>2. /\ c \in Nat /\ c % 4 # 3 /\ (c % 4) + 1 = b % 4 /\ c % 4 \in 0..2
        /\ FirstOf(c) = FirstOf(b) /\ c + 1 = b
    BY <1>0, <1>1, <2>1 DEF FirstOf
  <2>3. SlotOf(c) = SlotOf(b) /\ ~(Line(c) \subseteq Here)
    BY <1>0, <2>2, SlotFacts, LineFacts
  <2>4. held[SlotOf(b)][c % 4][1] = c
    BY <1>1, <1>a, <2>1, <2>2, <2>3 DEF HeldInv
  <2>5. c % 4 # b % 4
    BY <2>2
  <2>6. Filled(b)[c % 4] = <<held[SlotOf(b)][c % 4][1], b>>
    BY <2>2, <2>5 DEF Filled
  <2> QED
    BY <2>2, <2>4, <2>6
<1>2. CASE c = b
  <2>1. b % 4 # 3 /\ b + 1 \in Here
    BY <1>2, PairsAre
  <2>2. /\ b + 1 \in Nat /\ (b + 1) % 4 # 0 /\ ((b + 1) % 4) - 1 = b % 4 /\ b % 4 \in 0..2
        /\ FirstOf(b + 1) = FirstOf(b)
    BY <1>0, <2>1 DEF FirstOf
  <2>3. SlotOf(b + 1) = SlotOf(b) /\ ~(Line(b + 1) \subseteq Here)
    BY <1>0, <2>2, SlotFacts, LineFacts
  <2>4. held[SlotOf(b)][b % 4][2] = b + 1
    BY <1>a, <2>1, <2>2, <2>3 DEF HeldInv
  <2>5. Filled(b)[b % 4] = <<b, held[SlotOf(b)][b % 4][2]>>
    BY <2>2 DEF Filled
  <2> QED
    BY <1>2, <2>4, <2>5
<1> QED
  BY <1>1, <1>2, PairsAre

\* The last block of an image that does not fill its line.
LEMMA LastFacts ==
  ASSUME TypeOK, NEW b \in 0..(expected - 1)
  PROVE  IsLast(b) <=> b = expected - 1 /\ b % 4 # 3
BY DEF TypeOK, IsLast

\* The double words that are written have the bytes of the right blocks.
LEMMA EndsWritten ==
  ASSUME Sound, NEW b \in 0..(expected - 1), Stored(b)
  PROVE  EndParts(b) = {End(c) : c \in New(b)}
<1>1. ASSUME NEW c \in Pairs(b)
      PROVE  <<"end", c, Filled(b)[c % 4][1], Filled(b)[c % 4][2]>> = End(c)
  <2>1. Filled(b)[c % 4][1] = c /\ Filled(b)[c % 4][2] = c + 1
    BY PairFilled
  <2>2. c # expected - 1
    BY PairFacts
  <2> QED
    BY <2>1, <2>2 DEF End
<1>2. ASSUME NEW c \in {d \in {b} : IsLast(d)} PROVE <<"end", c, c, Pad>> = End(c)
  BY <1>2 DEF IsLast, End
<1> QED
  BY <1>1, <1>2 DEF EndParts, New

\* Storing a block adds that block and no other.
LEMMA HereGrows ==
  ASSUME Sound, NEW b \in 0..(expected - 1), Stored(b), flash' = flash \cup Parts(b)
  PROVE  Here' = Here \cup {b}
<1>1. bitMap' = bitMap \cup {b}
  BY DEF Stored
<1>2. Parts(b) = {Body(b)} \cup {End(c) : c \in New(b)}
  BY EndsWritten DEF Parts, Body
<1>3. \A c, d : Body(c) # End(d)
  BY DEF Body, End
<1>4. \A c, d : Body(c) = Body(d) => c = d
  BY DEF Body
<1>5. \A c : Body(c) \in flash' <=> Body(c) \in flash \/ c = b
  BY <1>2, <1>3, <1>4
<1>6. Here' = {c \in bitMap' : Body(c) \in flash'}
  BY DEF Here, Body
<1>7. ASSUME Body(b) \in flash PROVE b \in bitMap
  <2>1. PICK c \in Here : Body(b) = Body(c)
    BY <1>3, <1>7 DEF Sound, WrittenInv
  <2> QED
    BY <1>4, <2>1 DEF Here
<1> QED
  BY <1>1, <1>5, <1>6, <1>7 DEF Here

\* The ends that are written after b: those before and the new ones.
LEMMA EndedGrows ==
  ASSUME Sound, NEW b \in 0..(expected - 1), Stored(b), flash' = flash \cup Parts(b)
  PROVE  Ended' = Ended \cup New(b)
<1>0. /\ b \in Nat /\ b \notin Here /\ Here \subseteq Nat /\ Here \subseteq 0..(expected - 1)
      /\ expected \in Nat
  BY LineHere DEF Sound, TypeOK
<1>1. Ended' = {c \in Here \cup {b} : c % 4 # 3 /\ (c = expected - 1 \/ c + 1 \in Here \cup {b})}
  <2>1. expected' = expected /\ Here' = Here \cup {b}
    BY HereGrows DEF Stored
  <2> QED
    BY <2>1 DEF Ended
<1>2. ASSUME NEW c \in Ended' PROVE c \in Ended \cup New(b)
  <2>1. CASE c = b
    <3>1. b % 4 # 3 /\ (b = expected - 1 \/ b + 1 \in Here)
      BY <1>0, <1>1, <1>2, <2>1
    <3> QED
      BY <2>1, <3>1, PairsAre, LastFacts DEF New, Sound
  <2>2. CASE c # b
    <3>1. c \in Here /\ c % 4 # 3 /\ (c = expected - 1 \/ c + 1 \in Here \/ c + 1 = b)
      BY <1>1, <1>2, <2>2
    <3>2. CASE c + 1 = b
      <4>1. c = b - 1 /\ b % 4 # 0
        BY <1>0, <3>1, <3>2
      <4> QED
        BY <3>1, <4>1, PairsAre DEF New
    <3> QED
      BY <3>1, <3>2 DEF Ended
  <2> QED
    BY <2>1, <2>2
<1>3. Ended \subseteq Ended'
  BY <1>1 DEF Ended
<1>4. ASSUME NEW c \in New(b) PROVE c \in Ended'
  <2>1. CASE c \in Pairs(b)
    BY <1>1, <2>1, PairFacts
  <2>2. CASE c = b /\ IsLast(b)
    BY <1>1, <2>2, LastFacts DEF Sound
  <2> QED
    BY <2>1, <2>2 DEF New
<1> QED
  BY <1>2, <1>3, <1>4

\* The last block of the line, when b fills it.
NewFull(b) == {c \in {FirstOf(b) + 3} : LineFull(b)}

\* The lines that are full after b: those before and perhaps b's.
LEMMA FullsGrow ==
  ASSUME Sound, NEW b \in 0..(expected - 1), Stored(b), flash' = flash \cup Parts(b)
  PROVE  Fulls' = Fulls \cup NewFull(b) /\ Fulls \cap NewFull(b) = {}
<1>0. b \in Nat /\ b \notin Here /\ Here \subseteq Nat
  BY LineHere
<1>1. Fulls' = {c \in Here \cup {b} : c % 4 = 3 /\ Line(c) \subseteq Here \cup {b}}
  <2>1. Here' = Here \cup {b}
    BY HereGrows
  <2> QED
    BY <2>1 DEF Fulls
<1>2. LineFull(b) <=> Line(b) \subseteq Here \cup {b}
  BY LineHere
<1>3. \A c \in Nat : c % 4 = 3 /\ FirstOf(c) = FirstOf(b) => c = FirstOf(b) + 3
  BY <1>0 DEF FirstOf
<1>4. \A c \in Nat : FirstOf(c) = FirstOf(b) => Line(c) = Line(b)
  BY DEF Line
<1>5. \A c \in Nat : b \in Line(c) <=> FirstOf(c) = FirstOf(b)
  BY <1>0, LineFacts
<1>6. ASSUME NEW c \in Fulls' PROVE c \in Fulls \cup NewFull(b)
  <2>1. c \in Nat /\ c \in Here \cup {b} /\ c % 4 = 3 /\ Line(c) \subseteq Here \cup {b}
    BY <1>0, <1>1, <1>6
  <2>2. CASE b \in Line(c)
    BY <1>2, <1>3, <1>4, <1>5, <2>1, <2>2 DEF NewFull
  <2>3. CASE b \notin Line(c)
    <3>1. c # b
      BY <1>5, <2>1, <2>3
    <3> QED
      BY <2>1, <2>3, <3>1 DEF Fulls
  <2> QED
    BY <2>2, <2>3
<1>7. ASSUME NEW c \in NewFull(b) PROVE c \in Fulls' /\ c \notin Fulls
  <2>1. c = FirstOf(b) + 3 /\ LineFull(b)
    BY <1>7 DEF NewFull
  <2>2. c \in Nat /\ c % 4 = 3 /\ FirstOf(c) = FirstOf(b) /\ c \in Line(b)
    BY <1>0, <2>1 DEF FirstOf, Line
  <2>3. Line(c) = Line(b) /\ b \in Line(c)
    BY <1>4, <1>5, <2>2
  <2> QED
    BY <1>0, <1>1, <1>2, <2>1, <2>2, <2>3 DEF Fulls
<1>8. Fulls \subseteq Fulls'
  BY <1>1 DEF Fulls
<1> QED
  BY <1>6, <1>7, <1>8

\* What is done lies in the image, which has as many blocks as are expected.
LEMMA DoneIsFinite ==
  ASSUME TypeOK, Here \subseteq 0..(expected - 1)
  PROVE  /\ IsFiniteSet(Done) /\ Done \subseteq 0..(expected - 1)
         /\ IsFiniteSet(0..(expected - 1)) /\ Cardinality(0..(expected - 1)) = expected
<1>1. 0 \in Int /\ expected - 1 \in Int /\ expected \in Nat
  BY DEF TypeOK
<1>2. /\ IsFiniteSet(0..(expected - 1))
      /\ Cardinality(0..(expected - 1)) = (IF 0 > expected - 1 THEN 0 ELSE (expected - 1) - 0 + 1)
  BY <1>1, FS_Interval
<1>3. Cardinality(0..(expected - 1)) = expected
  BY <1>1, <1>2
<1>4. Done \subseteq 0..(expected - 1)
  BY DEF Done, Ended, Fulls
<1> QED
  BY <1>2, <1>3, <1>4, FS_Subset

\* The cardinality of a set with one more element, or with none.
LEMMA OneMore ==
  ASSUME NEW S, NEW x, NEW P \in BOOLEAN, IsFiniteSet(S), x \notin S \/ ~P
  PROVE  /\ IsFiniteSet(S \cup {d \in {x} : P})
         /\ Cardinality(S \cup {d \in {x} : P}) = Cardinality(S) + One(P)
<1>0. Cardinality(S) \in Nat
  BY FS_CardinalityType
<1>1. CASE P
  <2>1. S \cup {d \in {x} : P} = S \cup {x}
    BY <1>1
  <2> QED
    BY <1>1, <2>1, FS_AddElement DEF One
<1>2. CASE ~P
  <2>1. S \cup {d \in {x} : P} = S
    BY <1>2
  <2>2. One(P) = 0 /\ Cardinality(S) + 0 = Cardinality(S)
    BY <1>0, <1>2 DEF One
  <2> QED
    BY <2>1, <2>2
<1> QED
  BY <1>1, <1>2

\* ImgStore_StoreBlock counts what gets done.
LEMMA CountGrows ==
  ASSUME Sound, NEW b \in 0..(expected - 1), Stored(b), flash' = flash \cup Parts(b)
  PROVE  CountInv'
<1>0. /\ b \in Nat /\ b \notin Here /\ Here \subseteq Nat /\ Here \subseteq 0..(expected - 1)
      /\ expected \in Nat
  BY LineHere DEF Sound, TypeOK
<1>1. Done' = ((Done \cup Pairs(b)) \cup {d \in {b} : IsLast(d)}) \cup NewFull(b)
  BY EndedGrows, FullsGrow DEF Done, New
<1>2. IsFiniteSet(Done) /\ IsFiniteSet(Pairs(b))
  <2>1. {b - 1, b} = {b} \cup {b - 1}
    OBVIOUS
  <2>2. IsFiniteSet({b})
    BY FS_Singleton
  <2>3. IsFiniteSet({b - 1, b})
    BY <2>1, <2>2, FS_AddElement
  <2> QED
    BY <1>0, <2>3, DoneIsFinite, FS_Subset DEF Sound, Pairs
<1>3. Done \cap Pairs(b) = {}
  BY PairFacts DEF Done, Fulls
<1>4. /\ IsFiniteSet(Done \cup Pairs(b))
      /\ Cardinality(Done \cup Pairs(b)) = Cardinality(Done) + Cardinality(Pairs(b))
  <2>1. Cardinality(Done \cap Pairs(b)) = 0
    BY <1>3, FS_EmptySet
  <2>2. Cardinality(Done) \in Nat /\ Cardinality(Pairs(b)) \in Nat
    BY <1>2, FS_CardinalityType
  <2>3. /\ IsFiniteSet(Done \cup Pairs(b))
        /\ Cardinality(Done \cup Pairs(b))
             = Cardinality(Done) + Cardinality(Pairs(b)) - Cardinality(Done \cap Pairs(b))
    BY <1>2, FS_Union
  <2> QED
    BY <2>1, <2>2, <2>3
<1>5. b \notin Done \cup Pairs(b) \/ ~IsLast(b)
  <2>1. b \notin Done
    BY <1>0 DEF Done, Ended, Fulls
  <2>2. b \in Pairs(b) => ~IsLast(b)
    BY PairFacts, LastFacts DEF Sound
  <2> QED
    BY <2>1, <2>2
<1> DEFINE D == (Done \cup Pairs(b)) \cup {d \in {b} : IsLast(d)}
<1>6. IsFiniteSet(D) /\ Cardinality(D) = Cardinality(Done \cup Pairs(b)) + One(IsLast(b))
  <2>1. {d \in {b} : IsLast(d)} = {d \in {b} : IsLast(b)}
    OBVIOUS
  <2>2. IsLast(b) \in BOOLEAN
    BY DEF IsLast
  <2> DEFINE S == Done \cup Pairs(b)
  <2>3. IsFiniteSet(S) /\ (b \notin S \/ ~IsLast(b))
    BY <1>4, <1>5
  <2> HIDE DEF S
  <2>4. /\ IsFiniteSet(S \cup {d \in {b} : IsLast(b)})
        /\ Cardinality(S \cup {d \in {b} : IsLast(b)}) = Cardinality(S) + One(IsLast(b))
    BY <2>2, <2>3, OneMore
  <2>5. D = S \cup {d \in {b} : IsLast(b)}
    BY <2>1 DEF S
  <2> HIDE DEF D
  <2> QED
    BY <2>4, <2>5 DEF S
<1>7. FirstOf(b) + 3 \notin D \/ ~LineFull(b)
  <2>1. (FirstOf(b) + 3) % 4 = 3
    BY <1>0 DEF FirstOf
  <2>2. LineFull(b) => FirstOf(b) + 3 \notin Fulls
    BY FullsGrow DEF NewFull
  <2>3. FirstOf(b) + 3 \notin Ended
    BY <2>1 DEF Ended
  <2>4. FirstOf(b) + 3 \notin Pairs(b)
    BY <2>1, PairFacts
  <2>5. IsLast(b) => FirstOf(b) + 3 # b
    BY <2>1, LastFacts DEF Sound
  <2> QED
    BY <2>2, <2>3, <2>4, <2>5 DEF Done
<1>8. Cardinality(D \cup NewFull(b)) = Cardinality(D) + One(LineFull(b))
  <2>1. LineFull(b) \in BOOLEAN
    BY DEF LineFull
  <2> HIDE DEF D
  <2> QED
    BY <1>6, <1>7, <2>1, OneMore DEF NewFull
<1>9. nbBlk = Cardinality(Done)
  BY DEF Sound, CountInv
<1>10. nbBlk' = nbBlk + Cardinality(Pairs(b)) + One(IsLast(b)) + One(LineFull(b))
  BY DEF Stored
<1>11. Done' = D \cup NewFull(b)
  BY <1>1
<1> HIDE DEF D
<1> QED
  BY <1>4, <1>6, <1>8, <1>9, <1>10, <1>11 DEF CountInv

\* What is written stays what the blocks of the image make.
LEMMA WrittenGrows ==
  ASSUME Sound, NEW b \in 0..(expected - 1), Stored(b), flash' = flash \cup Parts(b)
  PROVE  WrittenInv'
<1>1. Here' = Here \cup {b} /\ Ended' = Ended \cup New(b) /\ expected' = expected
  BY HereGrows, EndedGrows DEF Stored
<1>2. Parts(b) = {Body(b)} \cup {End(c) : c \in New(b)}
  BY EndsWritten DEF Parts, Body
<1>3. \A c : End(c)' = End(c)
  BY <1>1 DEF End
<1>4. flash = {Body(c) : c \in Here} \cup {End(c) : c \in Ended}
  BY DEF Sound, WrittenInv
<1>5. flash' = {Body(c) : c \in Here \cup {b}} \cup {End(c) : c \in Ended \cup New(b)}
  BY <1>2, <1>4
<1> QED
  BY <1>1, <1>5 DEF WrittenInv, End, Body

\* A mark of the last image stays alone in its line.
LEMMA StaleStays ==
  ASSUME Sound, NEW b \in 0..(expected - 1), Stored(b), flash' = flash \cup Parts(b)
  PROVE  StaleInv'
<1>1. Here' = Here \cup {b} /\ bitMap' = bitMap \cup {b} /\ expected' = expected
  BY HereGrows DEF Stored
<1> QED
  BY <1>1 DEF Sound, StaleInv

\* The buffer of b's line after b: b's bytes on both sides, the others as they were.
LEMMA HeldOfLine ==
  ASSUME Sound, NEW b \in 0..(expected - 1), Stored(b)
  PROVE  /\ b % 4 # 3 => held'[SlotOf(b)][b % 4][1] = b
         /\ b % 4 # 0 => held'[SlotOf(b)][(b % 4) - 1][2] = b
         /\ \A i \in 0..2 : i # b % 4 => held'[SlotOf(b)][i][1] = held[SlotOf(b)][i][1]
         /\ \A i \in 0..2 : i + 1 # b % 4 /\ ~(IsLast(b) /\ i = b % 4)
              => held'[SlotOf(b)][i][2] = held[SlotOf(b)][i][2]
<1>0. b \in Nat /\ b % 4 \in 0..3 /\ SlotOf(b) \in DOMAIN held
  BY LineHere, LineFacts, SlotFacts DEF Sound, TypeOK
<1>1. held'[SlotOf(b)] = IF IsLast(b) THEN [Filled(b) EXCEPT ![b % 4] = <<b, Pad>>] ELSE Filled(b)
  BY <1>0 DEF Stored
<1>2. IsLast(b) => b % 4 # 3
  BY LastFacts DEF Sound
<1>3. ASSUME NEW i \in 0..2
      PROVE  /\ i = b % 4 => Filled(b)[i] = <<b, held[SlotOf(b)][i][2]>>
             /\ i + 1 = b % 4 => Filled(b)[i] = <<held[SlotOf(b)][i][1], b>>
             /\ i # b % 4 /\ i + 1 # b % 4 => Filled(b)[i] = held[SlotOf(b)][i]
  <2>1. i + 1 = b % 4 => i # b % 4
    BY <1>0
  <2> QED
    BY <2>1 DEF Filled
<1>4. DOMAIN Filled(b) = 0..2
  BY DEF Filled
<1>5. ASSUME NEW i \in 0..2
      PROVE  held'[SlotOf(b)][i] = IF IsLast(b) /\ i = b % 4 THEN <<b, Pad>> ELSE Filled(b)[i]
  BY <1>0, <1>1, <1>2, <1>4
<1>6. ASSUME b % 4 # 3 PROVE held'[SlotOf(b)][b % 4][1] = b
  <2>1. b % 4 \in 0..2
    BY <1>0, <1>6
  <2> QED
    BY <1>3, <1>5, <2>1
<1>7. ASSUME b % 4 # 0 PROVE held'[SlotOf(b)][(b % 4) - 1][2] = b
  <2>1. (b % 4) - 1 \in 0..2 /\ ((b % 4) - 1) + 1 = b % 4 /\ (b % 4) - 1 # b % 4
    BY <1>0, <1>7
  <2> QED
    BY <1>3, <1>5, <2>1
<1>8. ASSUME NEW i \in 0..2, i # b % 4 PROVE held'[SlotOf(b)][i][1] = held[SlotOf(b)][i][1]
  <2>1. held'[SlotOf(b)][i] = Filled(b)[i]
    BY <1>5, <1>8
  <2>2. CASE i + 1 = b % 4
    BY <1>3, <2>1, <2>2
  <2>3. CASE i + 1 # b % 4
    BY <1>3, <1>8, <2>1, <2>3
  <2> QED
    BY <2>2, <2>3
<1>9. ASSUME NEW i \in 0..2, i + 1 # b % 4, ~(IsLast(b) /\ i = b % 4)
      PROVE  held'[SlotOf(b)][i][2] = held[SlotOf(b)][i][2]
  <2>1. held'[SlotOf(b)][i] = Filled(b)[i]
    BY <1>5, <1>9
  <2>2. CASE i = b % 4
    BY <1>3, <2>1, <2>2
  <2>3. CASE i # b % 4
    BY <1>3, <1>9, <2>1, <2>3
  <2> QED
    BY <2>2, <2>3
<1> QED
  BY <1>6, <1>7, <1>8, <1>9

\* The buffers keep the bytes that wait for a neighbour.
LEMMA HeldStays ==
  ASSUME Sound, NEW b \in 0..(expected - 1), Stored(b), flash' = flash \cup Parts(b)
  PROVE  HeldInv'
<1>0. /\ b \in Nat /\ b \notin Here /\ Here \subseteq Nat /\ Here \subseteq 0..(expected - 1)
      /\ expected \in Nat /\ HeldInv /\ SlotOf(b) \in Slots
  BY LineHere, SlotFacts DEF Sound, TypeOK
<1>1. Here' = Here \cup {b}
  BY HereGrows
<1>2. pend' = [pend EXCEPT ![SlotOf(b)] = IF LineFull(b) THEN Empty ELSE FirstOf(b)]
  BY DEF Stored
<1>3. pend \in [Slots -> Ids \cup {Empty}] /\ DOMAIN held = Slots
  BY DEF Sound, TypeOK
<1>4. \A s \in Slots : s # SlotOf(b) => pend'[s] = pend[s] /\ held'[s] = held[s]
  BY <1>2, <1>3 DEF Stored
<1>5. pend'[SlotOf(b)] = IF LineFull(b) THEN Empty ELSE FirstOf(b)
  BY <1>0, <1>2, <1>3
<1>6. \A c \in Nat : SlotOf(c) \in Slots /\ FirstOf(c) # Empty
  <2> TAKE c \in Nat
  <2>1. SlotOf(c) \in Slots /\ FirstOf(c) \in Nat
    BY SlotFacts, LineFacts
  <2> QED
    BY <2>1 DEF Empty
<1>7. LineFull(b) <=> Line(b) \subseteq Here'
  BY <1>1, LineHere
<1>8. \A c \in Nat : FirstOf(c) = FirstOf(b) => SlotOf(c) = SlotOf(b) /\ Line(c) = Line(b)
  BY <1>0, SlotFacts DEF Line
<1>9. \A c \in Nat : b \in Line(c) <=> FirstOf(c) = FirstOf(b)
  BY <1>0, LineFacts
<1>10. ASSUME NEW c \in Here', ~(Line(c) \subseteq Here') PROVE pend'[SlotOf(c)] = FirstOf(c)
  <2>0. c \in Nat
    BY <1>0, <1>1
  <2>1. CASE FirstOf(c) = FirstOf(b)
    BY <1>5, <1>7, <1>8, <1>10, <2>0, <2>1
  <2>2. CASE FirstOf(c) # FirstOf(b)
    <3>1. c \in Here /\ ~(Line(c) \subseteq Here)
      BY <1>1, <1>10, <2>2
    <3>2. pend[SlotOf(c)] = FirstOf(c)
      BY <1>0, <3>1 DEF HeldInv
    <3>3. pend[SlotOf(b)] = Empty \/ pend[SlotOf(b)] = FirstOf(b)
      BY DEF Stored, HasBuffer
    <3>4. SlotOf(c) # SlotOf(b)
      BY <1>6, <2>0, <2>2, <3>2, <3>3
    <3> QED
      BY <1>4, <1>6, <2>0, <3>2, <3>4
  <2> QED
    BY <2>1, <2>2
<1>11. ASSUME NEW c \in Here', pend'[SlotOf(c)] = FirstOf(c)
       PROVE  /\ c % 4 # 3 => held'[SlotOf(c)][c % 4][1] = c
              /\ c % 4 # 0 => held'[SlotOf(c)][(c % 4) - 1][2] = c
  <2>0. c \in Nat
    BY <1>0, <1>1
  <2>1. CASE SlotOf(c) # SlotOf(b)
    <3>1. c \in Here /\ pend[SlotOf(c)] = FirstOf(c) /\ held'[SlotOf(c)] = held[SlotOf(c)]
      BY <1>1, <1>4, <1>6, <1>11, <2>0, <2>1
    <3> QED
      BY <1>0, <3>1 DEF HeldInv
  <2>2. CASE c = b
    BY <2>2, HeldOfLine
  <2>3. CASE SlotOf(c) = SlotOf(b) /\ c # b
    <3>1. FirstOf(c) = FirstOf(b)
      BY <1>5, <1>6, <1>11, <2>0, <2>3
    <3>2. c \in Here /\ ~(Line(c) \subseteq Here)
      BY <1>0, <1>1, <1>9, <2>0, <2>3, <3>1
    <3>3. /\ c % 4 # 3 => held[SlotOf(b)][c % 4][1] = c
          /\ c % 4 # 0 => held[SlotOf(b)][(c % 4) - 1][2] = c
      BY <1>0, <2>3, <3>2 DEF HeldInv
    <3>4. c % 4 # b % 4 /\ c % 4 \in 0..3 /\ b % 4 \in 0..3
      BY <1>0, <2>0, <2>3, <3>1, LineFacts
    <3>5. c % 4 # 3 => held'[SlotOf(b)][c % 4][1] = c
      <4>1. c % 4 # 3 => c % 4 \in 0..2
        BY <3>4
      <4> QED
        BY <3>3, <3>4, <4>1, HeldOfLine
    <3>6. c % 4 # 0 => held'[SlotOf(b)][(c % 4) - 1][2] = c
      <4> SUFFICES ASSUME c % 4 # 0 PROVE held'[SlotOf(b)][(c % 4) - 1][2] = c
        OBVIOUS
      <4>1. (c % 4) - 1 \in 0..2 /\ ((c % 4) - 1) + 1 # b % 4
        BY <3>4
      <4>2. ~(IsLast(b) /\ (c % 4) - 1 = b % 4)
        <5> SUFFICES ASSUME b = expected - 1, (c % 4) - 1 = b % 4 PROVE FALSE
          BY DEF IsLast
        <5>1. c = b + 1
          BY <1>0, <2>0, <3>1, <3>4 DEF FirstOf
        <5>2. c \in 0..(expected - 1)
          BY <1>0, <3>2
        <5> QED
          BY <1>0, <5>1, <5>2
      <4> QED
        BY <3>3, <4>1, <4>2, HeldOfLine
    <3> QED
      BY <2>3, <3>5, <3>6
  <2> QED
    BY <2>1, <2>2, <2>3
<1> QED
  BY <1>10, <1>11 DEF HeldInv

\* SoundInv holds at first.
LEMMA SoundInit == Init => SoundInv
<1> SUFFICES ASSUME Init PROVE SoundInv
  OBVIOUS
<1>1. bitMap = {} /\ Here = {} /\ flash = {} /\ nbBlk = 0
  BY DEF Init, Here
<1>2. Ended = {} /\ Done = {}
  BY <1>1 DEF Done, Ended, Fulls
<1>3. StaleInv /\ HeldInv
  BY <1>1 DEF StaleInv, HeldInv
<1>4. WrittenInv /\ CountInv
  BY <1>1, <1>2, FS_EmptySet DEF WrittenInv, CountInv
<1> QED
  BY <1>3, <1>4 DEF SoundInv

\* The bits that are left are those of a last byte with one block in it.
LEMMA BeginSound ==
  ASSUME BlockNb % 8 \in {0, 1}, TypeOK, BufferInv, NEW n \in Images, Begin(n), ~EraseFailed
  PROVE  SoundInv'
<1>1. flash' = {} /\ bitMap' = CleanMap /\ nbBlk' = 0
  BY DEF Begin
<1>2. Here' = {}
  BY <1>1 DEF Here
<1>3. Ended' = {} /\ Done' = {}
  BY <1>2 DEF Done, Ended, Fulls
<1>4. ASSUME NEW c \in CleanMap PROVE c % 4 = 0 /\ c = BlockNb - 1
  <2>1. c \in 0..(BlockNb - 1) /\ c \notin Cleared
    BY DEF CleanMap, BufferInv
  <2>2. BlockNb \in Nat
    BY ImgConstants
  <2>3. c \in Nat /\ c < BlockNb /\ c >= 8 * (BlockNb \div 8)
    BY <2>1, <2>2 DEF Cleared
  <2>4. BlockNb = 8 * (BlockNb \div 8) + (BlockNb % 8)
    BY <2>2
  <2>5. BlockNb = 8 * (BlockNb \div 8) + 1 /\ c = 8 * (BlockNb \div 8)
    BY <2>2, <2>3, <2>4
  <2> QED
    BY <2>2, <2>5
<1>5. StaleInv' /\ HeldInv'
  BY <1>1, <1>2, <1>4 DEF StaleInv, HeldInv
<1>6. WrittenInv' /\ CountInv'
  BY <1>1, <1>2, <1>3, FS_EmptySet DEF WrittenInv, CountInv
<1> QED
  BY <1>5, <1>6 DEF SoundInv

\* Every step keeps SoundInv.
LEMMA SoundNext ==
  ASSUME BlockNb % 8 \in {0, 1}, TypeOK, BufferInv, SoundInv, [Next]_vars
  PROVE  SoundInv'
<1>1. ASSUME UNCHANGED <<bitMap, pend, held, nbBlk, expected, flash, sound>> PROVE SoundInv'
  <2>1. Here' = Here
    BY <1>1 DEF Here, Body
  <2>2. Ended' = Ended /\ Fulls' = Fulls
    BY <1>1, <2>1 DEF Ended, Fulls
  <2>3. (StaleInv => StaleInv') /\ (HeldInv => HeldInv')
    BY <1>1, <2>1 DEF StaleInv, HeldInv
  <2>4. (WrittenInv => WrittenInv') /\ (CountInv => CountInv')
    BY <1>1, <2>1, <2>2 DEF WrittenInv, CountInv, Done, Body, End
  <2> QED
    BY <1>1, <2>3, <2>4 DEF SoundInv
<1>2. ASSUME NEW n \in Images, Begin(n) PROVE SoundInv'
  <2>1. CASE EraseFailed
    BY <2>1 DEF EraseFailed, SoundInv
  <2> QED
    BY <1>2, <2>1, BeginSound
<1>3. ASSUME NEW b \in 0..(expected - 1), StoreBlock(b) PROVE SoundInv'
  <2>1. CASE Dropped(b)
    BY <1>1, <2>1 DEF Dropped, vars
  <2>2. CASE Stored(b) /\ sound'
    <3>1. sound /\ flash' = flash \cup Parts(b)
      BY <2>2 DEF Stored
    <3>2. Sound
      BY <3>1 DEF Sound, SoundInv, BufferInv
    <3> QED
      BY <2>2, <3>1, <3>2, StaleStays, HeldStays, WrittenGrows, CountGrows DEF SoundInv
  <2>3. CASE ~sound'
    BY <2>3 DEF SoundInv
  <2> QED
    BY <1>3, <2>1, <2>2, <2>3 DEF StoreBlock
<1> QED
  BY <1>1, <1>2, <1>3 DEF Next, Setup, SetPending, vars

\* SoundInv implies the property: a count equal to the expected one leaves no block out.
LEMMA SoundIsWhole ==
  ASSUME TypeOK, BufferInv, SoundInv
  PROVE  CompleteIsWhole
<1> SUFFICES ASSUME sound
             PROVE  flash \subseteq Whole(expected) /\ (IsComplete => flash = Whole(expected))
  BY DEF CompleteIsWhole
<1>1. /\ Here \subseteq 0..(expected - 1) /\ expected \in Nat /\ nbBlk = Cardinality(Done)
      /\ flash = {Body(c) : c \in Here} \cup {End(c) : c \in Ended}
  BY DEF SoundInv, StaleInv, WrittenInv, CountInv, TypeOK
<1>2. Ended \subseteq {c \in Here : c % 4 # 3}
  BY DEF Ended
<1>3. Whole(expected) = {Body(c) : c \in 0..(expected - 1)}
                        \cup {End(c) : c \in {d \in 0..(expected - 1) : d % 4 # 3}}
  BY DEF Whole, Body, End
<1>4. flash \subseteq Whole(expected)
  BY <1>1, <1>2, <1>3
<1>5. ASSUME IsComplete PROVE flash = Whole(expected)
  <2>1. Done = 0..(expected - 1)
    <3>1. Cardinality(Done) = expected
      BY <1>1, <1>5 DEF IsComplete
    <3>2. /\ Done \subseteq 0..(expected - 1)
          /\ IsFiniteSet(0..(expected - 1)) /\ Cardinality(0..(expected - 1)) = expected
      BY <1>1, DoneIsFinite
    <3> QED
      BY <3>1, <3>2, FS_Subset
  <2>2. Here = 0..(expected - 1)
    BY <1>1, <2>1 DEF Done, Ended, Fulls
  <2>3. Ended = {c \in 0..(expected - 1) : c % 4 # 3}
    BY <1>2, <2>1, <2>2 DEF Done, Fulls
  <2> QED
    BY <1>1, <1>3, <2>2, <2>3
<1> QED
  BY <1>4, <1>5

(* When ImgStore_IsComplete says so, the flash holds the image and nothing *)
(* else, and before that only parts of it, for any size of the flash whose *)
(* last byte of aBitMap has one block in it at most.                       *)
THEOREM CompleteIsWholeAlways ==
  BlockNb % 8 \in {0, 1} => (Spec => []CompleteIsWhole)
<1> SUFFICES ASSUME BlockNb % 8 \in {0, 1} PROVE Spec => []CompleteIsWhole
  OBVIOUS
<1>1. Init => TypeOK /\ BufferInv /\ SoundInv
  BY InitType, InitBuffer, SoundInit
<1>2. TypeOK /\ BufferInv /\ SoundInv /\ [Next]_vars => (TypeOK /\ BufferInv /\ SoundInv)'
  BY NextType, NextBuffer, SoundNext
<1>3. TypeOK /\ BufferInv /\ SoundInv => CompleteIsWhole
  BY SoundIsWhole
<1> QED
  BY <1>1, <1>2, <1>3, PTL DEF Spec
=============================================================================
