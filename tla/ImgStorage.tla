------------------------------ MODULE ImgStorage ------------------------------
(***************************************************************************)
(* The storage of a software image (Samples/ImgStorage/src/img_storage.c): *)
(* blocks arrive in any order and are written to a flash that is           *)
(* programmed by double words, each of them once.  A block of 210 bytes is *)
(* not a whole number of double words: four blocks make a line, and the    *)
(* double words that two blocks of a line share wait in a pending buffer   *)
(* until both are there.  There are far fewer buffers than lines.          *)
(*                                                                         *)
(* The flash is the set of its written parts: <<"body", b, b, b>> is what  *)
(* lies in block b alone, <<"end", b, x, y>> the double word at the end of *)
(* block b with the bytes of x and of y in it.                             *)
(*                                                                         *)
(* A definition named Bug... is the next definition with a mistake in it,  *)
(* used to see that a property can fail.  Nothing else refers to it.       *)
(***************************************************************************)
EXTENDS Integers, FiniteSets

CONSTANTS
  BlockNb,     \* BLOCK_NB, the blocks that fit in the flash
  LineNb,      \* PENDING_LINE_NB, one more than the buffers that are used
  Images,      \* the numbers of blocks of the images that are asked for
  FlashFails   \* whether the flash can refuse to erase or to write

ASSUME ImgConstants ==
  /\ BlockNb \in Nat \ {0} /\ LineNb \in Nat \ {0, 1} /\ FlashFails \in BOOLEAN
  /\ Images \subseteq Nat \ {0}

VARIABLES
  bitMap,    \* aBitMap: the blocks that have been stored
  pend,      \* sPendCtrl: the first block of the line in a buffer, -1 when EMPTY
  held,      \* sPendBuff: whose bytes are in the three double words of a buffer
  nbBlk,     \* u32NbBlk
  expected,  \* u32NbExpectedBlk
  imgPend,   \* eImgPend
  flash,     \* the parts that are written
  sound      \* (history) the flash was erased for this image and no write failed

vars == <<bitMap, pend, held, nbBlk, expected, imgPend, flash, sound>>

Ids   == 0..BlockNb               \* what ImgStore_StoreBlock lets through
Slots == 0..(LineNb - 2)
Empty == -1
Pad   == -2                       \* 0xFF in place of a block
Zero  == [i \in 0..2 |-> <<Pad, Pad>>]

\* The bits that aBitMap has room for; the byte behind it is never cleared.
Cleared == 0..(8 * (BlockNb \div 8) - 1)

FirstOf(b) == b - (b % 4)
\* A line finds its buffer by the number of its first block.
BugSlotOf(b) == (b % 4) % (LineNb - 1)
SlotOf(b) == (b \div 4) % (LineNb - 1)
Line(b) == FirstOf(b)..(FirstOf(b) + 3)

\* What a complete image is made of.
Whole(n) ==
  {<<"body", b, b, b>> : b \in 0..(n - 1)} \cup
  {<<"end", b, b, IF b = n - 1 THEN Pad ELSE b + 1>> : b \in {c \in 0..(n - 1) : c % 4 # 3}}

-----------------------------------------------------------------------------
Init ==
  /\ bitMap = {} /\ pend = [s \in Slots |-> Empty] /\ held = [s \in Slots |-> Zero]
  /\ nbBlk = 0 /\ expected = 0 /\ imgPend = "SETUP" /\ flash = {} /\ sound = TRUE

\* ImgStore_Setup: after an address or functions it refuses no image can begin.
Setup ==
  /\ imgPend' \in {"NONE", "SETUP"}
  /\ UNCHANGED <<bitMap, pend, held, nbBlk, expected, flash, sound>>

\* ImgStore_SetPending
SetPending(p) ==
  /\ imgPend' = p
  /\ UNCHANGED <<bitMap, pend, held, nbBlk, expected, flash, sound>>

\* The size of the image is not looked at.
\* ImgStore_Init returns 1.
Refused(n) == n > BlockNb \/ imgPend # "NONE"

\* The flash is not erased, or not all of it, and everything else stays as it is.
EraseFailed ==
  /\ FlashFails
  /\ flash' \in {flash, {}} /\ sound' = FALSE
  /\ UNCHANGED <<bitMap, pend, held, nbBlk, expected, imgPend>>

\* The blocks of the last image are still marked.
BugCleanMap == bitMap

\* _clr_bitmap
CleanMap == bitMap \ Cleared

\* ImgStore_Init
Begin(n) ==
  /\ ~Refused(n)
  /\ \/ EraseFailed
     \/ /\ flash' = {}
        /\ nbBlk' = 0 /\ bitMap' = CleanMap
        /\ pend' = [s \in Slots |-> Empty] /\ held' = [s \in Slots |-> Zero]
        /\ expected' = n /\ sound' = TRUE
        /\ UNCHANGED imgPend

\* The buffer of b's line is free, or is b's line's.
HasBuffer(b) == pend[SlotOf(b)] \in {Empty, FirstOf(b)}

\* b's bytes are put on both sides: the end of b, the beginning after the end of
\* the block before it.
Filled(b) ==
  [i \in 0..2 |-> IF i = b % 4 THEN <<b, held[SlotOf(b)][i][2]>>
                  ELSE IF i + 1 = b % 4 THEN <<held[SlotOf(b)][i][1], b>>
                  ELSE held[SlotOf(b)][i]]

InLine(b) == {c \in Line(b) : c \in bitMap \cup {b}}

\* All the ends of the line that have both blocks, also those written before.
BugPairs(b) == {c \in Line(b) : c \in InLine(b) /\ c + 1 \in InLine(b)}

\* The ends that can be written now: b's and that of the block before it.
Pairs(b) == {c \in {b - 1, b} : c \in InLine(b) /\ c + 1 \in InLine(b)}

\* The last block of an image that does not fill its last line.
IsLast(b) == expected % 4 # 0 /\ b = expected - 1

LineFull(b) == Cardinality(InLine(b)) = 4

EndParts(b) ==
  {<<"end", c, Filled(b)[c % 4][1], Filled(b)[c % 4][2]>> : c \in Pairs(b)} \cup
  {<<"end", c, c, Pad>> : c \in {d \in {b} : IsLast(d)}}

Parts(b) == {<<"body", b, b, b>>} \cup EndParts(b)

One(p) == IF p THEN 1 ELSE 0

\* A block that is stored.  What the flash returns is not looked at: one of the
\* writes may have failed.
Stored(b) ==
  /\ b \notin bitMap /\ HasBuffer(b)
  /\ bitMap' = bitMap \cup {b}
  /\ held' = [held EXCEPT ![SlotOf(b)] =
       IF IsLast(b) THEN [Filled(b) EXCEPT ![b % 4] = <<b, Pad>>] ELSE Filled(b)]
  /\ nbBlk' = nbBlk + Cardinality(Pairs(b)) + One(IsLast(b)) + One(LineFull(b))
  /\ pend' = [pend EXCEPT ![SlotOf(b)] = IF LineFull(b) THEN Empty ELSE FirstOf(b)]
  /\ \/ flash' = flash \cup Parts(b) /\ UNCHANGED sound
     \/ /\ FlashFails
        /\ \E lost \in Parts(b) : flash' = flash \cup (Parts(b) \ {lost})
        /\ sound' = FALSE
  /\ UNCHANGED <<expected, imgPend>>

\* The block is there already, or another line is in the buffer.
Dropped(b) == (b \in bitMap \/ ~HasBuffer(b)) /\ UNCHANGED vars

\* ImgStore_StoreBlock.  Blocks above BLOCK_NB are refused.
StoreBlock(b) == b \in Ids /\ (Stored(b) \/ Dropped(b))

\* ImgStore_IsComplete
IsComplete == nbBlk = expected

\* The application's calls: an image that is complete is taken over before the
\* next one begins, and the blocks are those of the image.
Next ==
  \/ Setup
  \/ \E n \in Images : Begin(n)
  \/ \E b \in 0..(expected - 1) : StoreBlock(b)
  \/ IsComplete /\ SetPending("REMOTE")
  \/ SetPending("NONE")

Spec == Init /\ [][Next]_vars

-----------------------------------------------------------------------------
TypeOK ==
  /\ bitMap \subseteq Ids
  /\ pend \in [Slots -> Ids \cup {Empty}]
  /\ DOMAIN held = Slots
  /\ nbBlk \in Nat /\ expected \in 0..BlockNb
  /\ imgPend \in {"SETUP", "NONE", "LOCAL", "REMOTE"}
  /\ sound \in BOOLEAN

(* What is in the flash belongs to this image, every double word with the  *)
(* bytes of the right blocks, and an image that is said to be complete is  *)
(* there: the count of ImgStore_StoreBlock is that of whole blocks although*)
(* it counts the ends of blocks.                                           *)
CompleteIsWhole ==
  sound => flash \subseteq Whole(expected) /\ (IsComplete => flash = Whole(expected))

(* A double word is programmed once between two erasures, as the flash     *)
(* demands: neither a repeated block nor the two neighbours of a shared    *)
(* double word write it again.                                             *)
WrittenOnce ==
  [][\A b \in Ids : Stored(b) =>
       \A p \in Parts(b), q \in flash : p[1] # q[1] \/ p[2] # q[2]]_vars

(* A block that is not there yet is dropped only for a line that shares    *)
(* its buffer and has begun: with as many buffers as lines nothing is lost.*)
DroppedForALine ==
  \A b \in 0..(expected - 1) : b \notin bitMap /\ ~HasBuffer(b) =>
    \E c \in bitMap : FirstOf(c) # FirstOf(b) /\ SlotOf(c) = SlotOf(b)
                      /\ ~(Line(c) \subseteq bitMap)

\* The types, and what may have been dropped.
ImgInv == TypeOK /\ DroppedForALine
=============================================================================
