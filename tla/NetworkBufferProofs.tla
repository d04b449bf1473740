------------------------ MODULE NetworkBufferProofs ------------------------
(***************************************************************************)
(* Proofs about NetworkBuffer for every block size, integer size and bound *)
(* the assumptions of the module allow; then, from IoStepIsCodecStep on,   *)
(* about the reference counts of a network buffer and its IoVecs, for      *)
(* every number of IoVecs and every bound on references.                   *)
(***************************************************************************)
EXTENDS NetworkBufferIoVec, SequenceTheorems, FiniteSetTheorems,
        WellFoundedInduction, NaturalsInduction, TLAPS

(* The put loops run exactly while bytes are pending, and a put that was   *)
(* called ends within the bound.                                           *)
PendingMode ==
    /\ mode = "idle" <=> pending = <<>>
    /\ position + Len(pending) <= MaxLimit

(* What follows from the tiling by induction over the list, and is carried *)
(* along instead: the blocks lie one behind the other, and between them    *)
(* they hold every position below the limit.                               *)
Ordered(bs) ==
    \A i, j \in 1..Len(bs) : i < j => End(bs[i]) <= bs[j].begin

Covering(bs) ==
    \A p \in Nat : p < End(bs[Len(bs)]) =>
        \E i \in 1..Len(bs) : ContainsPosition(bs[i], p)

Shape(bs) ==
    /\ bs \in Seq(Block) /\ bs # <<>>
    /\ Tiles(bs)
    /\ Roomy(bs)
    /\ Ordered(bs)
    /\ Covering(bs)

(* The inductive invariant.                                                *)
IInv ==
    /\ TypeOK
    /\ Shape(blocks)
    /\ CursorInBlock
    /\ RoomAhead
    /\ PendingMode

LEMMA NewBlockType ==
    ASSUME NEW begin \in Nat, NEW c \in Nat
    PROVE  /\ NewBlock(begin, c) \in Block
           /\ NewBlock(begin, c).begin = begin
           /\ NewBlock(begin, c).limit = 0
           /\ NewBlock(begin, c).capacity = c
           /\ Len(NewBlock(begin, c).memory) = c
<1>1. [o \in 1..c |-> Unwritten] \in Seq(Byte \cup {Unwritten})
  OBVIOUS
<1>2. Len([o \in 1..c |-> Unwritten]) = c
  OBVIOUS
<1>3. QED BY <1>1, <1>2 DEF NewBlock, Block

(* A block that stores src at an offset inside its capacity keeps begin    *)
(* and capacity; its limit is the larger of the old one and the end.       *)
LEMMA OverlaidType ==
    ASSUME NEW memory \in Seq(Byte \cup {Unwritten}),
           NEW relative \in Nat, NEW src \in Seq(Byte)
    PROVE  /\ Overlaid(memory, relative, src) \in Seq(Byte \cup {Unwritten})
           /\ Len(Overlaid(memory, relative, src)) = Len(memory)
<1>1. ASSUME NEW o \in 1..Len(memory)
      PROVE  (IF o \in (relative + 1)..(relative + Len(src))
              THEN src[o - relative] ELSE memory[o]) \in Byte \cup {Unwritten}
  <2>1. CASE o \in (relative + 1)..(relative + Len(src))
    <3>1. o - relative \in 1..Len(src)
      BY <2>1
    <3>2. QED BY <2>1, <3>1
  <2>2. QED BY <2>1
<1>2. QED BY <1>1 DEF Overlaid

LEMMA StoredBlock ==
    ASSUME NEW block \in Block, NEW relative \in Nat, NEW src \in Seq(Byte)
    PROVE  LET b == Stored(block, relative, src)
               end == relative + Len(src)
           IN /\ b \in Block
              /\ b.begin = block.begin
              /\ b.capacity = block.capacity
              /\ Len(b.memory) = Len(block.memory)
              /\ b.limit = IF end > block.limit THEN end ELSE block.limit
<1>1. block.memory \in Seq(Byte \cup {Unwritten}) /\ block.limit \in Nat
  BY DEF Block
<1>2. /\ Overlaid(block.memory, relative, src) \in Seq(Byte \cup {Unwritten})
      /\ Len(Overlaid(block.memory, relative, src)) = Len(block.memory)
  BY <1>1, OverlaidType
<1>3. relative + Len(src) \in Nat
  OBVIOUS
<1>4. QED BY <1>1, <1>2, <1>3 DEF Block, Stored

LEMMA BlockFields ==
    ASSUME NEW b \in Block
    PROVE  /\ b.begin \in Nat /\ b.limit \in Nat /\ b.capacity \in Nat
           /\ b.memory \in Seq(Byte \cup {Unwritten})
           /\ Len(b.memory) \in Nat
           /\ End(b) \in Nat
BY DEF Block, End

(* A block whose limit grows within its capacity preserves the tiling: a   *)
(* full block cannot grow, and behind the tail nothing begins.             *)
LEMMA GrowShape ==
    ASSUME NEW bs, Shape(bs), NEW i \in 1..Len(bs), NEW b \in Block,
           b.begin = bs[i].begin, b.capacity = bs[i].capacity,
           Len(b.memory) = Len(bs[i].memory),
           bs[i].limit <= b.limit, b.limit <= b.capacity
    PROVE  /\ Shape([bs EXCEPT ![i] = b])
           /\ i < Len(bs) => b.limit = bs[i].limit
<1> DEFINE after == [bs EXCEPT ![i] = b]
<1>1. bs \in Seq(Block) /\ Len(bs) \in Nat /\ bs[i] \in Block /\ Len(bs) >= 1
  BY DEF Shape
<1>2. /\ b.begin \in Nat /\ b.limit \in Nat /\ b.capacity \in Nat
      /\ Len(b.memory) \in Nat
      /\ bs[i].limit \in Nat
  BY <1>1, BlockFields
<1>3. after \in Seq(Block) /\ Len(after) = Len(bs) /\ after # <<>>
  BY <1>1
<1>4. \A j \in 1..Len(bs) : after[j] = IF j = i THEN b ELSE bs[j]
  BY <1>1
<1>5. i < Len(bs) => b.limit = bs[i].limit
  BY <1>1, <1>2 DEF Shape, Tiles
<1> HIDE DEF after
<1>6. \A j \in 1..Len(bs) :
         /\ after[j].begin = bs[j].begin
         /\ after[j].capacity = bs[j].capacity
         /\ j < Len(bs) => after[j].limit = bs[j].limit
  BY <1>4, <1>5
<1>7. Tiles(after)
  <2>1. after[1].begin = 0
    BY <1>1, <1>6 DEF Shape, Tiles
  <2>2. ASSUME NEW j \in 1..(Len(after) - 1)
        PROVE  after[j + 1].begin = End(after[j])
               /\ after[j].capacity = after[j].limit
    <3>1. j \in 1..(Len(bs) - 1) /\ j \in 1..Len(bs) /\ j + 1 \in 1..Len(bs) /\ j < Len(bs)
      BY <1>1, <1>3
    <3>2. bs[j + 1].begin = bs[j].begin + bs[j].limit /\ bs[j].capacity = bs[j].limit
      BY <3>1 DEF Shape, Tiles, End
    <3>3. /\ after[j + 1].begin = bs[j + 1].begin
          /\ after[j].begin = bs[j].begin /\ after[j].limit = bs[j].limit
          /\ after[j].capacity = bs[j].capacity
      BY <1>6, <3>1
    <3>4. QED BY <3>2, <3>3 DEF End
  <2>3. ASSUME NEW j \in 1..Len(after)
        PROVE  after[j].limit <= after[j].capacity
               /\ after[j].capacity <= Len(after[j].memory)
    <3>1. j \in DOMAIN bs
      BY <1>1, <1>3
    <3>2. bs[j].limit <= bs[j].capacity /\ bs[j].capacity <= Len(bs[j].memory)
      BY <3>1 DEF Shape, Tiles
    <3>3. QED BY <1>1, <1>3, <1>4, <3>2
  <2>4. DOMAIN after = 1..Len(after)
    BY <1>3
  <2>5. QED BY <2>1, <2>2, <2>3, <2>4 DEF Tiles
<1>8. Roomy(after)
  BY <1>1, <1>3, <1>6 DEF Shape, Roomy
<1>9. \A j \in 1..Len(bs) :
         /\ bs[j].begin \in Nat /\ bs[j].limit \in Nat /\ End(bs[j]) \in Nat
         /\ after[j].limit \in Nat /\ bs[j].limit <= after[j].limit
         /\ j < Len(bs) => End(after[j]) = End(bs[j])
  <2> SUFFICES ASSUME NEW j \in 1..Len(bs)
               PROVE  /\ bs[j].begin \in Nat /\ bs[j].limit \in Nat
                      /\ End(bs[j]) \in Nat /\ after[j].limit \in Nat
                      /\ bs[j].limit <= after[j].limit
                      /\ j < Len(bs) => End(after[j]) = End(bs[j])
    OBVIOUS
  <2>1. bs[j].begin \in Nat /\ bs[j].limit \in Nat /\ End(bs[j]) \in Nat
    <3>1. bs[j] \in Block
      BY <1>1
    <3>2. QED BY ONLY <3>1, BlockFields
  <2>2. after[j].limit \in Nat /\ bs[j].limit <= after[j].limit
    <3>1. CASE j = i
      BY <1>2, <1>4, <3>1
    <3>2. CASE j # i
      BY <1>4, <2>1, <3>2
    <3>3. QED BY <3>1, <3>2
  <2>3. QED BY <1>6, <2>1, <2>2 DEF End
<1>10. Ordered(after)
  <2> SUFFICES ASSUME NEW j \in 1..Len(bs), NEW k \in 1..Len(bs), j < k
               PROVE  End(after[j]) <= after[k].begin
    BY <1>3 DEF Ordered
  <2>1. j < Len(bs)
    BY <1>1
  <2>2. End(after[j]) = End(bs[j]) /\ after[k].begin = bs[k].begin
    BY <1>6, <1>9, <2>1
  <2>3. QED BY <2>2 DEF Shape, Ordered
<1>11. Covering(after)
  <2> SUFFICES ASSUME NEW p \in Nat, p < End(after[Len(bs)])
               PROVE  \E j \in 1..Len(bs) : ContainsPosition(after[j], p)
    BY <1>3 DEF Covering
  <2>1. Len(bs) \in 1..Len(bs)
    BY <1>1
  <2>2. CASE p < End(bs[Len(bs)])
    <3>1. PICK j \in 1..Len(bs) : ContainsPosition(bs[j], p)
      BY <2>2 DEF Shape, Covering
    <3>2. /\ bs[j].begin <= p /\ p < bs[j].begin + bs[j].limit
      BY <3>1 DEF ContainsPosition, End
    <3>3. /\ after[j].begin = bs[j].begin /\ bs[j].begin \in Nat
          /\ bs[j].limit \in Nat /\ after[j].limit \in Nat
          /\ bs[j].limit <= after[j].limit
      BY <1>6, <1>9, <3>1
    <3>4. p < after[j].begin + after[j].limit
      BY <3>2, <3>3
    <3>5. ContainsPosition(after[j], p)
      BY <3>2, <3>3, <3>4 DEF ContainsPosition, End
    <3>6. QED BY <3>5
  <2>3. CASE ~(p < End(bs[Len(bs)]))
    <3>1. bs[Len(bs)].begin <= p
      BY <1>9, <2>1, <2>3 DEF End
    <3>2. ContainsPosition(after[Len(bs)], p)
      BY <1>6, <2>1, <3>1 DEF ContainsPosition
    <3>3. QED BY <2>1, <3>2
  <2>4. QED BY <2>2, <2>3
<1>12. QED BY <1>3, <1>5, <1>7, <1>8, <1>10, <1>11 DEF Shape, after

(* Storing inside the capacity of block i therefore preserves it.          *)
LEMMA StoreShape ==
    ASSUME NEW bs, Shape(bs), NEW i \in 1..Len(bs),
           NEW relative \in Nat, NEW src \in Seq(Byte),
           relative + Len(src) <= bs[i].capacity
    PROVE  LET b == Stored(bs[i], relative, src)
           IN /\ Shape([bs EXCEPT ![i] = b])
              /\ b.begin = bs[i].begin
              /\ b.capacity = bs[i].capacity
              /\ relative + Len(src) <= b.limit
              /\ i < Len(bs) => b.limit = bs[i].limit
<1> DEFINE b == Stored(bs[i], relative, src)
<1>1. bs \in Seq(Block) /\ bs[i] \in Block
  BY DEF Shape
<1>2. bs[i].limit \in Nat /\ bs[i].capacity \in Nat /\ bs[i].limit <= bs[i].capacity
  BY <1>1, BlockFields DEF Shape, Tiles
<1>3. /\ b \in Block /\ b.begin = bs[i].begin /\ b.capacity = bs[i].capacity
      /\ Len(b.memory) = Len(bs[i].memory)
      /\ b.limit = IF relative + Len(src) > bs[i].limit
                   THEN relative + Len(src) ELSE bs[i].limit
  BY <1>1, StoredBlock
<1> HIDE DEF b
<1>4. bs[i].limit <= b.limit /\ b.limit <= b.capacity /\ relative + Len(src) <= b.limit
  BY <1>2, <1>3
<1>5. Shape([bs EXCEPT ![i] = b]) /\ (i < Len(bs) => b.limit = bs[i].limit)
  BY <1>1, <1>3, <1>4, GrowShape
<1>6. QED BY <1>3, <1>4, <1>5 DEF b

(* Expand, with a tail that is the head or has bytes in it.                *)
LEMMA ExpandShape ==
    ASSUME Shape(blocks), NEW c \in Nat \ {0},
           Len(blocks) = 1 \/ TailBlock.limit > 0
    PROVE  /\ Shape(Expanded(c))
           /\ Len(Expanded(c)) = Len(blocks) + 1
           /\ Expanded(c)[Len(blocks) + 1] = NewBlock(Limit, c)
           /\ Expanded(c)[Len(blocks)] = Frozen(TailBlock)
           /\ \A j \in 1..(Len(blocks) - 1) : Expanded(c)[j] = blocks[j]
           /\ \A j \in 1..Len(blocks) :
                 /\ Expanded(c)[j].begin = blocks[j].begin
                 /\ Expanded(c)[j].limit = blocks[j].limit
                 /\ Expanded(c)[j].memory = blocks[j].memory
<1> DEFINE n == Len(blocks)
           old == [blocks EXCEPT ![n] = Frozen(TailBlock)]
           after == Expanded(c)
<1>1. blocks \in Seq(Block) /\ n \in Nat /\ n >= 1 /\ TailBlock \in Block
  BY DEF Shape, TailBlock
<1>2. /\ TailBlock.begin \in Nat /\ TailBlock.limit \in Nat /\ Limit \in Nat
      /\ Len(TailBlock.memory) \in Nat /\ TailBlock.capacity \in Nat
  BY <1>1, BlockFields DEF Limit
<1>3. /\ Frozen(TailBlock) \in Block
      /\ Frozen(TailBlock).begin = TailBlock.begin
      /\ Frozen(TailBlock).limit = TailBlock.limit
      /\ Frozen(TailBlock).capacity = TailBlock.limit
      /\ Frozen(TailBlock).memory = TailBlock.memory
  BY <1>1 DEF Frozen, Block
<1>4. /\ NewBlock(Limit, c) \in Block
      /\ NewBlock(Limit, c).begin = Limit
      /\ NewBlock(Limit, c).limit = 0
      /\ NewBlock(Limit, c).capacity = c
      /\ Len(NewBlock(Limit, c).memory) = c
      /\ End(NewBlock(Limit, c)) = Limit
  BY <1>2, NewBlockType DEF End
<1>5. /\ old \in Seq(Block) /\ Len(old) = n
      /\ old[n] = Frozen(TailBlock)
      /\ \A j \in 1..(n - 1) : old[j] = blocks[j]
      /\ after = Append(old, NewBlock(Limit, c))
  BY <1>1, <1>3 DEF Expanded
<1> HIDE DEF old, after
<1>6. /\ after \in Seq(Block) /\ Len(after) = n + 1 /\ after # <<>>
      /\ after[n + 1] = NewBlock(Limit, c)
      /\ after[n] = Frozen(TailBlock)
      /\ \A j \in 1..(n - 1) : after[j] = blocks[j]
  BY <1>1, <1>4, <1>5
<1>7. \A j \in 1..n :
         /\ after[j].begin = blocks[j].begin
         /\ after[j].limit = blocks[j].limit
         /\ after[j].memory = blocks[j].memory
         /\ after[j].capacity = after[j].limit
         /\ End(after[j]) = End(blocks[j])
         /\ blocks[j] \in Block
         /\ j > 1 => after[j].capacity > 0
  <2> SUFFICES ASSUME NEW j \in 1..n
               PROVE  /\ after[j].begin = blocks[j].begin
                      /\ after[j].limit = blocks[j].limit
                      /\ after[j].memory = blocks[j].memory
                      /\ after[j].capacity = after[j].limit
                      /\ End(after[j]) = End(blocks[j])
                      /\ blocks[j] \in Block
                      /\ j > 1 => after[j].capacity > 0
    OBVIOUS
  <2>1. CASE j = n
    BY <1>1, <1>3, <1>6, <2>1 DEF TailBlock, End
  <2>2. CASE j # n
    <3>1. j \in 1..(n - 1)
      BY <1>1, <2>2
    <3>2. after[j] = blocks[j]
      BY <1>6, <3>1
    <3>3. blocks[j].capacity = blocks[j].limit /\ (j > 1 => blocks[j].capacity > 0)
      BY <3>1 DEF Shape, Tiles, Roomy
    <3>4. QED BY <1>1, <3>2, <3>3
  <2>3. QED BY <2>1, <2>2
<1>8. \A j \in 1..n : blocks[j].begin \in Nat /\ blocks[j].limit \in Nat
                       /\ End(blocks[j]) \in Nat /\ End(blocks[j]) <= Limit
  <2> SUFFICES ASSUME NEW j \in 1..n
               PROVE  blocks[j].begin \in Nat /\ blocks[j].limit \in Nat
                      /\ End(blocks[j]) \in Nat /\ End(blocks[j]) <= Limit
    OBVIOUS
  <2>1. blocks[j].begin \in Nat /\ blocks[j].limit \in Nat /\ End(blocks[j]) \in Nat
    BY <1>1, BlockFields
  <2>2. CASE j = n
    BY <2>1, <2>2 DEF Limit, TailBlock
  <2>3. CASE j # n
    <3>1. j < n /\ n \in 1..n
      BY <1>1, <2>3
    <3>2. End(blocks[j]) <= blocks[n].begin
      BY <3>1 DEF Shape, Ordered
    <3>3. QED BY <1>2, <2>1, <3>2 DEF Limit, TailBlock, End
  <2>4. QED BY <2>2, <2>3
<1>9. Tiles(after)
  <2>1. after[1].begin = 0
    <3>1. 1 \in 1..n
      BY <1>1
    <3>2. after[1].begin = blocks[1].begin
      BY <1>7, <3>1
    <3>3. QED BY <3>2 DEF Shape, Tiles
  <2>2. ASSUME NEW j \in 1..(Len(after) - 1)
        PROVE  after[j + 1].begin = End(after[j])
               /\ after[j].capacity = after[j].limit
    <3>1. j \in 1..n
      BY <1>1, <1>6
    <3>2. CASE j = n
      BY <1>4, <1>6, <1>7, <3>1, <3>2 DEF Limit, TailBlock
    <3>3. CASE j # n
      <4>1. j \in 1..(n - 1) /\ j + 1 \in 1..n
        BY <1>1, <3>1, <3>3
      <4>2. blocks[j + 1].begin = End(blocks[j])
        BY <4>1 DEF Shape, Tiles
      <4>3. QED BY <1>7, <3>1, <4>1, <4>2
    <3>4. QED BY <3>2, <3>3
  <2>3. ASSUME NEW j \in 1..Len(after)
        PROVE  after[j].limit <= after[j].capacity
               /\ after[j].capacity <= Len(after[j].memory)
    <3>1. CASE j = n + 1
      BY <1>4, <1>6, <3>1
    <3>2. CASE j # n + 1
      <4>1. j \in 1..n
        BY <1>1, <1>6, <3>2
      <4>2. /\ blocks[j].limit <= blocks[j].capacity
            /\ blocks[j].capacity <= Len(blocks[j].memory)
            /\ blocks[j].capacity \in Nat /\ Len(blocks[j].memory) \in Nat
        BY <1>1, <4>1, BlockFields DEF Shape, Tiles
      <4>3. QED BY <1>7, <1>8, <4>1, <4>2
    <3>3. QED BY <3>1, <3>2
  <2>4. DOMAIN after = 1..Len(after)
    BY <1>6
  <2>5. QED BY <2>1, <2>2, <2>3, <2>4 DEF Tiles
<1>10. Roomy(after)
  <2> SUFFICES ASSUME NEW j \in 2..(n + 1)
               PROVE  after[j].capacity > 0
    BY <1>6 DEF Roomy
  <2>1. CASE j = n + 1
    BY <1>4, <1>6, <2>1
  <2>2. CASE j # n + 1
    <3>1. j \in 1..n /\ j > 1
      BY <1>1, <2>2
    <3>2. QED BY <1>7, <3>1
  <2>3. QED BY <2>1, <2>2
<1>11. Ordered(after)
  <2> SUFFICES ASSUME NEW j \in 1..(n + 1), NEW k \in 1..(n + 1), j < k
               PROVE  End(after[j]) <= after[k].begin
    BY <1>6 DEF Ordered
  <2>1. j \in 1..n
    BY <1>1
  <2>2. CASE k = n + 1
    BY <1>4, <1>6, <1>7, <1>8, <2>1, <2>2
  <2>3. CASE k # n + 1
    <3>1. k \in 1..n
      BY <1>1, <2>3
    <3>2. End(blocks[j]) <= blocks[k].begin
      BY <2>1, <3>1 DEF Shape, Ordered
    <3>3. QED BY <1>7, <2>1, <3>1, <3>2
  <2>4. QED BY <2>2, <2>3
<1>12. Covering(after)
  <2> SUFFICES ASSUME NEW p \in Nat, p < Limit
               PROVE  \E j \in 1..(n + 1) : ContainsPosition(after[j], p)
    BY <1>4, <1>6 DEF Covering
  <2>1. PICK j \in 1..n : ContainsPosition(blocks[j], p)
    BY DEF Shape, Covering, Limit, TailBlock
  <2>2. j \in 1..(n + 1) /\ ContainsPosition(after[j], p)
    BY <1>1, <1>7, <2>1 DEF ContainsPosition
  <2>3. QED BY <2>2
<1>13. QED BY <1>6, <1>7, <1>9, <1>10, <1>11, <1>12 DEF Shape, after

----------------------------------------------------------------------------
(* Finding the block of a position *)

(* Blocks do not overlap, so a block that holds a position is the only one *)
(* and the search from the head finds it.                                  *)
LEMMA UniqueHolder ==
    ASSUME Shape(blocks), NEW p \in Nat,
           NEW i \in 1..Len(blocks), ContainsPosition(blocks[i], p),
           NEW j \in 1..Len(blocks), ContainsPosition(blocks[j], p)
    PROVE  i = j
<1>1. ASSUME NEW k \in 1..Len(blocks), NEW l \in 1..Len(blocks), k < l,
             ContainsPosition(blocks[k], p), ContainsPosition(blocks[l], p)
      PROVE  FALSE
  <2>1. blocks[k] \in Block /\ blocks[l] \in Block
    BY DEF Shape
  <2>2. End(blocks[k]) \in Nat /\ blocks[l].begin \in Nat
    BY <2>1, BlockFields
  <2>3. End(blocks[k]) <= blocks[l].begin
    BY <1>1 DEF Shape, Ordered
  <2>4. QED BY <1>1, <2>2, <2>3 DEF ContainsPosition
<1>2. Len(blocks) \in Nat
  BY DEF Shape
<1>3. i < j \/ j < i \/ i = j
  BY <1>2
<1>4. QED BY <1>1, <1>3

LEMMA FirstHoldingFinds ==
    ASSUME Shape(blocks), NEW p \in Nat, p < Limit
    PROVE  /\ FirstHolding(p) \in 1..Len(blocks)
           /\ ContainsPosition(blocks[FirstHolding(p)], p)
<1>1. PICK i \in 1..Len(blocks) : ContainsPosition(blocks[i], p)
  BY DEF Shape, Covering, Limit, TailBlock
<1>2. DOMAIN blocks = 1..Len(blocks) /\ Len(blocks) \in Nat
  BY DEF Shape
<1>3. \A j \in 1..(i - 1) : ~ContainsPosition(blocks[j], p)
  <2> SUFFICES ASSUME NEW j \in 1..(i - 1), ContainsPosition(blocks[j], p)
               PROVE  FALSE
    OBVIOUS
  <2>1. j \in 1..Len(blocks) /\ j # i
    BY <1>2
  <2>2. QED BY <1>1, <2>1, UniqueHolder
<1>4. \E k \in DOMAIN blocks :
         /\ ContainsPosition(blocks[k], p)
         /\ \A j \in 1..(k - 1) : ~ContainsPosition(blocks[j], p)
  BY <1>1, <1>2, <1>3
<1>5. QED BY <1>2, <1>4 DEF FirstHolding

(* Whichever block the cursor was in, SetPosition and Finalize find the    *)
(* block that holds a position below the limit.                            *)
LEMMA HoldingFinds ==
    ASSUME Shape(blocks), current \in 1..Len(blocks), NEW p \in Nat, p < Limit
    PROVE  /\ Holding(p) \in 1..Len(blocks)
           /\ ContainsPosition(blocks[Holding(p)], p)
BY FirstHoldingFinds DEF Holding

(* Finalize: the blocks up to the one that holds the position, cut there.  *)
LEMMA TruncatedShape ==
    ASSUME Shape(blocks), NEW i \in 1..Len(blocks),
           position \in Nat, ContainsPosition(blocks[i], position)
    PROVE  /\ Shape(Truncated(i))
           /\ Len(Truncated(i)) = i
           /\ \A j \in 1..i : Truncated(i)[j].begin = blocks[j].begin
           /\ \A j \in 1..(i - 1) : Truncated(i)[j] = blocks[j]
           /\ End(Truncated(i)[i]) = position
<1> DEFINE kept == SubSeq(blocks, 1, i)
           used == position - blocks[i].begin
           cut == [blocks[i] EXCEPT !.limit = used]
           after == Truncated(i)
<1>1. blocks \in Seq(Block) /\ Len(blocks) \in Nat /\ blocks[i] \in Block
      /\ DOMAIN blocks = 1..Len(blocks)
  BY DEF Shape
<1>2. /\ blocks[i].begin \in Nat /\ blocks[i].limit \in Nat
      /\ blocks[i].begin <= position
      /\ used \in Nat /\ used <= blocks[i].limit
      /\ blocks[i].begin + used = position
  BY <1>1, BlockFields DEF ContainsPosition, End
<1>3. /\ kept \in Seq(Block) /\ Len(kept) = i
      /\ \A j \in 1..i : kept[j] = blocks[j]
      /\ kept[i] = blocks[i]
  BY <1>1
<1>4. after = [kept EXCEPT ![i] = cut]
  BY <1>3 DEF Truncated
<1> HIDE DEF used, kept
<1>5. /\ cut \in Block /\ cut.begin = blocks[i].begin
      /\ cut.limit = used
      /\ cut.capacity = blocks[i].capacity /\ cut.memory = blocks[i].memory
      /\ End(cut) = position
  BY <1>1, <1>2 DEF Block, End
<1> HIDE DEF cut, after
<1>6. /\ after \in Seq(Block) /\ Len(after) = i /\ after # <<>>
      /\ after[i] = cut
      /\ \A j \in 1..(i - 1) : after[j] = blocks[j]
  BY <1>3, <1>4, <1>5
<1>7. \A j \in 1..i :
         /\ after[j].begin = blocks[j].begin
         /\ after[j].capacity = blocks[j].capacity
         /\ after[j].memory = blocks[j].memory
         /\ blocks[j] \in Block
         /\ j < i => after[j] = blocks[j]
         /\ j \in DOMAIN blocks
  <2> SUFFICES ASSUME NEW j \in 1..i
               PROVE  /\ after[j].begin = blocks[j].begin
                      /\ after[j].capacity = blocks[j].capacity
                      /\ after[j].memory = blocks[j].memory
                      /\ blocks[j] \in Block
                      /\ j < i => after[j] = blocks[j]
                      /\ j \in DOMAIN blocks
    OBVIOUS
  <2>1. j \in DOMAIN blocks
    BY <1>1
  <2>2. CASE j = i
    BY <1>1, <1>5, <1>6, <2>1, <2>2
  <2>3. CASE j # i
    <3>1. j \in 1..(i - 1)
      BY <2>3
    <3>2. QED BY <1>1, <1>6, <2>1, <3>1
  <2>4. QED BY <2>2, <2>3
<1>8. Tiles(after)
  <2>1. after[1].begin = 0
    <3>1. 1 \in 1..i
      OBVIOUS
    <3>2. QED BY <1>7, <3>1 DEF Shape, Tiles
  <2>2. ASSUME NEW j \in 1..(Len(after) - 1)
        PROVE  after[j + 1].begin = End(after[j])
               /\ after[j].capacity = after[j].limit
    <3>1. /\ j \in 1..i /\ j + 1 \in 1..i /\ j < i
          /\ j \in 1..(Len(blocks) - 1)
      BY <1>1, <1>6
    <3>2. blocks[j + 1].begin = End(blocks[j]) /\ blocks[j].capacity = blocks[j].limit
      BY <3>1 DEF Shape, Tiles
    <3>3. QED BY <1>7, <3>1, <3>2
  <2>3. ASSUME NEW j \in 1..Len(after)
        PROVE  after[j].limit <= after[j].capacity
               /\ after[j].capacity <= Len(after[j].memory)
    <3>1. j \in 1..i /\ j \in DOMAIN blocks
      BY <1>6, <1>7
    <3>2. /\ blocks[j].limit <= blocks[j].capacity
          /\ blocks[j].capacity <= Len(blocks[j].memory)
      BY <3>1 DEF Shape, Tiles
    <3>3. CASE j = i
      <4>1. blocks[i].capacity \in Nat
        BY <1>1, BlockFields
      <4>2. QED BY <1>2, <1>5, <1>6, <3>2, <3>3, <4>1
    <3>4. CASE j # i
      BY <1>7, <3>1, <3>2, <3>4
    <3>5. QED BY <3>3, <3>4
  <2>4. DOMAIN after = 1..Len(after)
    BY <1>6
  <2>5. QED BY <2>1, <2>2, <2>3, <2>4 DEF Tiles
<1>9. Roomy(after)
  <2> SUFFICES ASSUME NEW j \in 2..i
               PROVE  after[j].capacity > 0
    BY <1>6 DEF Roomy
  <2>1. j \in 1..i /\ j \in 2..Len(blocks)
    BY <1>1
  <2>2. QED BY <1>7, <2>1 DEF Shape, Roomy
<1>10. Ordered(after)
  <2> SUFFICES ASSUME NEW j \in 1..i, NEW k \in 1..i, j < k
               PROVE  End(after[j]) <= after[k].begin
    BY <1>6 DEF Ordered
  <2>1. j < i /\ j \in 1..Len(blocks) /\ k \in 1..Len(blocks)
    BY <1>1
  <2>2. End(blocks[j]) <= blocks[k].begin
    BY <2>1 DEF Shape, Ordered
  <2>3. QED BY <1>7, <2>1, <2>2
<1>11. Covering(after)
  <2> SUFFICES ASSUME NEW p \in Nat, p < position
               PROVE  \E j \in 1..i : ContainsPosition(after[j], p)
    BY <1>5, <1>6 DEF Covering
  <2>1. /\ TailBlock.begin \in Nat /\ TailBlock.limit \in Nat
        /\ \A j \in 1..Len(blocks) : End(blocks[j]) \in Nat /\ blocks[j].begin \in Nat
    BY <1>1, BlockFields DEF TailBlock, Shape
  <2>2. CASE blocks[i].begin <= p
    <3>1. ContainsPosition(after[i], p)
      BY <1>5, <1>6, <2>2 DEF ContainsPosition
    <3>2. QED BY <3>1
  <2>3. CASE p < blocks[i].begin
    <3>1. p < Limit
      <4>1. i \in 1..Len(blocks) /\ Len(blocks) \in 1..Len(blocks)
        BY <1>1
      <4>2. blocks[i].begin <= TailBlock.begin
        <5>1. CASE i = Len(blocks)
          BY <2>1, <5>1 DEF TailBlock
        <5>2. CASE i < Len(blocks)
          <6>1. End(blocks[i]) <= TailBlock.begin
            BY <4>1, <5>2 DEF Shape, Ordered, TailBlock
          <6>2. blocks[i].begin \in Nat /\ blocks[i].limit \in Nat /\ TailBlock.begin \in Nat
            BY <1>2, <2>1
          <6>3. blocks[i].begin + blocks[i].limit <= TailBlock.begin
            BY ONLY <6>1 DEF End
          <6>4. QED BY ONLY <6>2, <6>3
        <5>3. i = Len(blocks) \/ i < Len(blocks)
          <6>1. Len(blocks) \in Nat
            BY <1>1
          <6>2. QED BY ONLY <6>1, i \in 1..Len(blocks)
        <5>4. QED BY <5>1, <5>2, <5>3
      <4>3. QED BY <1>2, <2>1, <2>3, <4>2 DEF Limit, End
    <3>2. PICK j \in 1..Len(blocks) : ContainsPosition(blocks[j], p)
      BY <3>1 DEF Shape, Covering, Limit, TailBlock
    <3>3. j < i
      <4>1. CASE j = i
        BY <2>1, <2>3, <3>2, <4>1 DEF ContainsPosition
      <4>2. CASE i < j
        <5>1. End(blocks[i]) <= blocks[j].begin
          BY <4>2 DEF Shape, Ordered
        <5>2. QED BY <1>2, <2>1, <2>3, <3>2, <5>1 DEF ContainsPosition, End
      <4>3. QED BY <1>1, <4>1, <4>2
    <3>4. j \in 1..i /\ after[j] = blocks[j]
      BY <1>7, <3>3
    <3>5. QED BY <3>2, <3>4
  <2>4. blocks[i].begin <= p \/ p < blocks[i].begin
    BY <2>1
  <2>5. QED BY <2>2, <2>3, <2>4
<1>12. Shape(after)
  BY <1>6, <1>8, <1>9, <1>10, <1>11 DEF Shape
<1>13. QED BY <1>5, <1>6, <1>7, <1>12 DEF after

----------------------------------------------------------------------------
(* Allocation *)

TailRoom(bs) == Len(bs) > 1 => bs[Len(bs)].capacity \in BlockCapacity

(* The byte at the cursor lies inside the capacity of block i.             *)
Ready(bs, i) ==
    /\ i \in 1..Len(bs)
    /\ bs[i].begin <= position
    /\ position < bs[i].begin + bs[i].capacity
    /\ position <= End(bs[i])

LEMMA FullAtEnd ==
    ASSUME NEW begin \in Nat, NEW limit \in Nat, NEW capacity \in Nat,
           NEW p \in Nat, limit <= capacity, p <= begin + limit,
           begin + capacity - p = 0
    PROVE  p = begin + limit /\ capacity = limit
OBVIOUS

LEMMA OnlyOne ==
    ASSUME NEW n \in Nat, NEW i \in 1..n, ~(n > 1)
    PROVE  n = 1
OBVIOUS

LEMMA UsedIfShort ==
    ASSUME NEW begin \in Nat, NEW limit \in Nat, NEW capacity \in Nat,
           NEW p \in Nat, NEW n \in Nat, n <= capacity,
           p <= begin + limit, begin + capacity - p < n
    PROVE  limit > 0
OBVIOUS

LEMMA CursorFacts ==
    ASSUME Shape(blocks), current \in 1..Len(blocks), position \in Nat, CursorInBlock
    PROVE  /\ Len(blocks) \in Nat
           /\ blocks[current] \in Block
           /\ blocks[current].begin \in Nat /\ blocks[current].limit \in Nat
           /\ blocks[current].capacity \in Nat
           /\ blocks[current].limit <= blocks[current].capacity
           /\ blocks[current].begin <= position
           /\ position <= blocks[current].begin + blocks[current].limit
           /\ Remaining \in Nat
           /\ current < Len(blocks) =>
                 /\ blocks[current].capacity = blocks[current].limit
                 /\ blocks[current + 1].begin = End(blocks[current])
           /\ current > 1 => blocks[current].capacity > 0
<1>1. /\ blocks \in Seq(Block) /\ Len(blocks) \in Nat
      /\ DOMAIN blocks = 1..Len(blocks) /\ blocks[current] \in Block
  BY DEF Shape
<1>2. /\ blocks[current].begin \in Nat /\ blocks[current].limit \in Nat
      /\ blocks[current].capacity \in Nat
  BY <1>1, BlockFields
<1>3. blocks[current].limit <= blocks[current].capacity
  BY <1>1 DEF Shape, Tiles
<1>4. /\ blocks[current].begin <= position
      /\ position <= blocks[current].begin + blocks[current].limit
  BY DEF CursorInBlock, End
<1>5. current < Len(blocks) => current \in 1..(Len(blocks) - 1)
  BY <1>1
<1>6. current < Len(blocks) =>
         /\ blocks[current].capacity = blocks[current].limit
         /\ blocks[current + 1].begin = End(blocks[current])
  BY <1>5 DEF Shape, Tiles
<1>7. current > 1 => blocks[current].capacity > 0
  BY <1>1 DEF Shape, Roomy
<1>8. Remaining \in Nat
  BY <1>2, <1>3, <1>4 DEF Remaining
<1>9. QED BY <1>1, <1>2, <1>3, <1>4, <1>6, <1>7, <1>8

(* Wherever the list is expanded, the tail that is frozen is the head or   *)
(* has bytes in it: a full one ...                                         *)
LEMMA UsedIfFull ==
    ASSUME Shape(blocks), current \in 1..Len(blocks), position \in Nat,
           CursorInBlock, AtBlockEnd, IsLast
    PROVE  position = Limit /\ (Len(blocks) = 1 \/ TailBlock.limit > 0)
<1>1. current = Len(blocks) /\ blocks[current].begin + blocks[current].capacity - position = 0
  BY DEF AtBlockEnd, IsLast, Remaining
<1>2. /\ position = blocks[current].begin + blocks[current].limit
      /\ blocks[current].capacity = blocks[current].limit
  <2>1. /\ blocks[current].begin \in Nat /\ blocks[current].limit \in Nat
        /\ blocks[current].capacity \in Nat
        /\ blocks[current].limit <= blocks[current].capacity
        /\ position <= blocks[current].begin + blocks[current].limit
    BY CursorFacts
  <2>2. QED BY <1>1, <2>1, FullAtEnd
<1>3. position = Limit
  BY <1>1, <1>2 DEF Limit, TailBlock, End
<1>4. current = 1 \/ blocks[current].limit > 0
  BY <1>2, CursorFacts
<1>5. QED BY <1>1, <1>3, <1>4 DEF TailBlock

(* ... and one too short for an integer.                                   *)
LEMMA UsedIfFreezes ==
    ASSUME Shape(blocks), current \in 1..Len(blocks), position \in Nat,
           CursorInBlock, TailRoom(blocks), NEW n \in IntSizes, Freezes(n)
    PROVE  Len(blocks) = 1 \/ TailBlock.limit > 0
<1>1. Remaining < n /\ current = Len(blocks) /\ n \in Nat /\ Len(blocks) \in Nat
  BY SizeAssumption DEF Freezes, IsLast, Shape
<1>2. CASE Len(blocks) > 1
  <2>1. TailBlock.capacity \in BlockCapacity
    BY <1>2 DEF TailRoom, TailBlock
  <2>2. n <= TailBlock.capacity
    BY <2>1, SizeAssumption
  <2>3. /\ TailBlock.begin + TailBlock.capacity - position < n
        /\ position <= TailBlock.begin + TailBlock.limit
        /\ TailBlock.begin \in Nat /\ TailBlock.limit \in Nat
        /\ TailBlock.capacity \in Nat
    BY <1>1, CursorFacts DEF Remaining, TailBlock
  <2>4. QED BY <1>1, <2>2, <2>3, UsedIfShort
<1>3. CASE ~(Len(blocks) > 1)
  BY <1>1, <1>3, OnlyOne
<1>4. QED BY <1>2, <1>3

(* AllocateIfNeeded leaves the cursor in a block that has room for a byte. *)
LEMMA AllocatedReady ==
    ASSUME Shape(blocks), current \in 1..Len(blocks), position \in Nat,
           CursorInBlock, NEW c \in BlockCapacity
    PROVE  /\ Shape(AllocatedBlocks(c))
           /\ Ready(AllocatedBlocks(c), AllocatedCurrent)
           /\ TailRoom(blocks) => TailRoom(AllocatedBlocks(c))
<1>1. c \in Nat \ {0}
  BY SizeAssumption
<1>2. CASE ~AtBlockEnd
  <2>1. AllocatedBlocks(c) = blocks /\ AllocatedCurrent = current
    BY <1>2 DEF AllocatedBlocks, AllocatedCurrent
  <2>2. Ready(blocks, current)
    BY <1>2, CursorFacts DEF Ready, AtBlockEnd, Remaining, End
  <2>3. QED BY <2>1, <2>2
<1>3. CASE AtBlockEnd /\ ~IsLast
  <2>1. AllocatedBlocks(c) = blocks /\ AllocatedCurrent = current + 1
    BY <1>3 DEF AllocatedBlocks, AllocatedCurrent
  <2>2. current < Len(blocks)
    BY <1>3, CursorFacts DEF IsLast
  <2>3. blocks[current + 1].begin = position
    BY <1>3, <2>2, CursorFacts DEF AtBlockEnd, Remaining, End
  <2>4. current + 1 \in 1..Len(blocks) /\ current + 1 \in 2..Len(blocks)
    BY <2>2, CursorFacts
  <2>5. /\ blocks[current + 1].capacity > 0 /\ blocks[current + 1].capacity \in Nat
        /\ blocks[current + 1].limit \in Nat
    BY <2>4, BlockFields DEF Shape, Roomy
  <2>6. Ready(blocks, current + 1)
    BY <2>3, <2>4, <2>5 DEF Ready, End
  <2>7. QED BY <2>1, <2>6
<1>4. CASE AtBlockEnd /\ IsLast
  <2>1. AllocatedBlocks(c) = Expanded(c) /\ AllocatedCurrent = Len(blocks) + 1
    BY <1>4 DEF AllocatedBlocks, AllocatedCurrent, IsLast
  <2>2. position = Limit /\ (Len(blocks) = 1 \/ TailBlock.limit > 0)
    BY <1>4, UsedIfFull
  <2>3. /\ Shape(Expanded(c)) /\ Len(Expanded(c)) = Len(blocks) + 1
        /\ Expanded(c)[Len(blocks) + 1] = NewBlock(Limit, c)
    BY <1>1, <2>2, ExpandShape
  <2>4. /\ NewBlock(Limit, c).begin = position /\ NewBlock(Limit, c).limit = 0
        /\ NewBlock(Limit, c).capacity = c
    BY <1>1, <2>2, NewBlockType
  <2>5. Ready(Expanded(c), Len(blocks) + 1)
    BY <1>1, <2>3, <2>4, CursorFacts DEF Ready, End
  <2>6. TailRoom(Expanded(c))
    BY <2>3, <2>4 DEF TailRoom
  <2>7. QED BY <2>1, <2>3, <2>5, <2>6
<1>5. QED BY <1>2, <1>3, <1>4

(* EnsureRemaining leaves the cursor in a block, which holds the integer   *)
(* whole if it is the tail and the integer is put at the limit.            *)
LEMMA EnsuredShape ==
    ASSUME Shape(blocks), current \in 1..Len(blocks), position \in Nat,
           CursorInBlock, TailRoom(blocks),
           NEW n \in IntSizes, WithinOrAppended(n), NEW c \in BlockCapacity
    PROVE  /\ Shape(EnsuredBlocks(n, c))
           /\ EnsuredCurrent(n) \in 1..Len(EnsuredBlocks(n, c))
           /\ EnsuredBlocks(n, c)[EnsuredCurrent(n)].begin <= position
           /\ position <= End(EnsuredBlocks(n, c)[EnsuredCurrent(n)])
           /\ TailRoom(EnsuredBlocks(n, c))
<1>1. c \in Nat \ {0} /\ n \in Nat
  BY SizeAssumption
<1>2. CASE Freezes(n)
  <2>1. EnsuredBlocks(n, c) = Expanded(c) /\ EnsuredCurrent(n) = Len(blocks) + 1
    BY <1>2 DEF EnsuredBlocks, EnsuredCurrent
  <2>2. Remaining < n /\ current = Len(blocks)
    BY <1>2 DEF Freezes, IsLast
  <2>3. position = Limit
    BY <1>1, <2>2, CursorFacts DEF WithinOrAppended, Limit, TailBlock, End, Remaining
  <2>4. Len(blocks) = 1 \/ TailBlock.limit > 0
    BY <1>2, UsedIfFreezes
  <2>5. /\ Shape(Expanded(c)) /\ Len(Expanded(c)) = Len(blocks) + 1
        /\ Expanded(c)[Len(blocks) + 1] = NewBlock(Limit, c)
    BY <1>1, <2>4, ExpandShape
  <2>6. /\ NewBlock(Limit, c).begin = position /\ NewBlock(Limit, c).limit = 0
        /\ NewBlock(Limit, c).capacity = c
    BY <1>1, <2>3, NewBlockType
  <2>7. QED BY <2>1, <2>5, <2>6, CursorFacts DEF TailRoom, End
<1>3. CASE ~Freezes(n) /\ Remaining < n
  <2>1. EnsuredBlocks(n, c) = AllocatedBlocks(c) /\ EnsuredCurrent(n) = AllocatedCurrent
    BY <1>3 DEF EnsuredBlocks, EnsuredCurrent
  <2>2. QED BY <2>1, AllocatedReady DEF Ready
<1>4. CASE ~(Remaining < n)
  <2>1. EnsuredBlocks(n, c) = blocks /\ EnsuredCurrent(n) = current
    BY <1>4 DEF EnsuredBlocks, EnsuredCurrent, Freezes
  <2>2. QED BY <2>1 DEF CursorInBlock
<1>5. QED BY <1>2, <1>3, <1>4

----------------------------------------------------------------------------
(* The invariant *)

(* The part of it that relates blocks and cursor.                          *)
Placed ==
    /\ Shape(blocks)
    /\ current \in 1..Len(blocks)
    /\ CursorInBlock
    /\ ~finalized => TailRoom(blocks)

Puts ==
    /\ position \in 0..MaxLimit
    /\ mode \in {"idle", "bytes", "array"}
    /\ pending \in Seq(Byte)
    /\ finalized \in BOOLEAN
    /\ PendingMode

LEMMA IInvParts == IInv <=> Placed /\ Puts
<1>1. blocks \in Seq(Block) => DOMAIN blocks = 1..Len(blocks)
  OBVIOUS
<1>2. QED BY <1>1 DEF IInv, Placed, Puts, TypeOK, Shape, RoomAhead, TailRoom, TailBlock

(* A store into a block with room keeps the invariant.                     *)
LEMMA StoredAtInv ==
    ASSUME Placed, Puts, NEW bs, NEW i, NEW n \in 1..Len(pending),
           Shape(bs), Ready(bs, i), TailRoom(blocks) => TailRoom(bs),
           position + n <= bs[i].begin + bs[i].capacity,
           StoredAt(bs, i, n)
    PROVE  Placed' /\ Puts'
<1> DEFINE relative == position - bs[i].begin
           src == SubSeq(pending, 1, n)
           b == Stored(bs[i], relative, src)
<1>1. /\ bs \in Seq(Block) /\ i \in 1..Len(bs) /\ bs[i] \in Block
      /\ Len(bs) \in Nat
  BY DEF Shape, Ready
<1>2. /\ bs[i].begin \in Nat /\ bs[i].capacity \in Nat
      /\ position \in Nat /\ bs[i].begin <= position /\ relative \in Nat
  BY <1>1, BlockFields DEF Ready, Puts
<1>3. src \in Seq(Byte) /\ Len(src) = n /\ n \in Nat /\ Len(pending) \in Nat
  BY DEF Puts
<1>4. relative + Len(src) <= bs[i].capacity
  <2>1. relative + n <= bs[i].capacity
    <3>1. position + n <= bs[i].begin + bs[i].capacity
      OBVIOUS
    <3>2. QED BY <1>2, <1>3, <3>1
  <2>2. QED BY <1>3, <2>1
<1>5. /\ blocks' = [bs EXCEPT ![i] = b] /\ current' = i
      /\ position' = position + n
      /\ pending' = SubSeq(pending, n + 1, Len(pending))
      /\ mode' = IF n = Len(pending) THEN "idle" ELSE mode
      /\ finalized' = finalized
  BY DEF StoredAt
<1> HIDE DEF relative, src
<1>6. /\ Shape(blocks') /\ b.begin = bs[i].begin /\ b.capacity = bs[i].capacity
      /\ relative + Len(src) <= b.limit
  BY <1>1, <1>2, <1>3, <1>4, <1>5, StoreShape, ZenonT(60)
<1> HIDE DEF b
<1>7. Len(blocks') = Len(bs) /\ blocks'[i] = b
  BY <1>1, <1>5
<1>8. blocks'[Len(bs)].capacity = bs[Len(bs)].capacity
  BY <1>1, <1>5, <1>6
<1>9. CursorInBlock'
  <2>1. b.limit \in Nat
    BY <1>1, <1>6, <1>7, BlockFields DEF Shape
  <2>2. bs[i].begin <= position + n /\ position + n <= bs[i].begin + b.limit
    <3>1. relative + n <= b.limit
      BY <1>3, <1>6
    <3>2. (position - bs[i].begin) + n <= b.limit
      BY <3>1 DEF relative
    <3>3. QED BY ONLY <1>2, <1>3, <2>1, <3>2
  <2>3. QED BY <1>5, <1>6, <1>7, <2>2 DEF CursorInBlock, End
<1>10. Placed'
  BY <1>1, <1>5, <1>6, <1>7, <1>8, <1>9 DEF Placed, TailRoom
<1>11. /\ pending' \in Seq(Byte) /\ Len(pending') = Len(pending) - n
       /\ (n = Len(pending) <=> pending' = <<>>)
  <2>1. /\ pending \in Seq(Byte) /\ n + 1 \in 1..(Len(pending) + 1)
        /\ Len(pending) \in Nat
    BY <1>3 DEF Puts
  <2>2. pending' \in Seq(Byte) /\ Len(pending') = Len(pending) - n
    BY <1>5, <2>1
  <2>3. QED BY <1>3, <2>2
<1>12. pending # <<>> /\ mode # "idle"
  BY <1>3 DEF Puts, PendingMode
<1>13. Puts'
  <2>1. position + Len(pending) <= MaxLimit /\ MaxLimit \in Nat
    BY SizeAssumption DEF Puts, PendingMode
  <2>2. position' \in 0..MaxLimit /\ position' + Len(pending') <= MaxLimit
    <3>1. /\ n \in 1..Len(pending) /\ Len(pending) \in Nat /\ position \in Nat
          /\ position' = position + n /\ Len(pending') = Len(pending) - n
      BY <1>2, <1>3, <1>5, <1>11
    <3>2. QED BY ONLY <2>1, <3>1
  <2>3. mode' \in {"idle", "bytes", "array"} /\ (mode' = "idle" <=> pending' = <<>>)
    BY <1>5, <1>11, <1>12 DEF Puts
  <2>4. QED BY <1>5, <1>11, <2>2, <2>3 DEF Puts, PendingMode
<1>14. QED BY <1>10, <1>13

(* A single block that claims no more than was allocated for it.           *)
LEMMA SingleBlockShape ==
    ASSUME NEW b \in Block, b.begin = 0,
           b.limit <= b.capacity, b.capacity <= Len(b.memory)
    PROVE  Shape(<<b>>)
<1>1. <<b>> \in Seq(Block) /\ Len(<<b>>) = 1 /\ <<b>>[1] = b /\ <<b>> # <<>>
      /\ DOMAIN <<b>> = {1}
  OBVIOUS
<1>2. Tiles(<<b>>)
  BY <1>1 DEF Tiles
<1>3. Roomy(<<b>>)
  BY <1>1 DEF Roomy
<1>4. Ordered(<<b>>)
  BY <1>1 DEF Ordered
<1>5. Covering(<<b>>)
  BY <1>1 DEF Covering, ContainsPosition
<1>6. QED BY <1>1, <1>2, <1>3, <1>4, <1>5 DEF Shape

LEMMA InitInv == Init => IInv
<1> SUFFICES ASSUME Init PROVE Placed /\ Puts
  BY IInvParts
<1>1. PICK b \in Block : /\ blocks = <<b>> /\ b.begin = 0 /\ b.limit \in Nat
                         /\ b.limit <= b.capacity
                         /\ b.capacity <= Len(b.memory)
  <2>1. CASE blocks = <<NewBlock(0, HeadCapacity)>>
    <3>1. /\ NewBlock(0, HeadCapacity) \in Block
          /\ NewBlock(0, HeadCapacity).begin = 0
          /\ NewBlock(0, HeadCapacity).limit = 0
          /\ NewBlock(0, HeadCapacity).capacity = HeadCapacity
          /\ Len(NewBlock(0, HeadCapacity).memory) = HeadCapacity
          /\ HeadCapacity \in Nat
      BY NewBlockType, SizeAssumption
    <3>2. QED BY <2>1, <3>1
  <2>2. ASSUME NEW array \in Arrays(MaxArray), blocks = <<WrappedBlock(array)>>
        PROVE  \E b \in Block : /\ blocks = <<b>> /\ b.begin = 0 /\ b.limit \in Nat
                                 /\ b.limit <= b.capacity
                                 /\ b.capacity <= Len(b.memory)
    <3>1. array \in Seq(Byte \cup {Unwritten}) /\ Len(array) \in Nat
      BY SizeAssumption DEF Arrays
    <3>2. /\ WrappedBlock(array) \in Block
          /\ WrappedBlock(array).begin = 0
          /\ WrappedBlock(array).limit = Len(array)
          /\ WrappedBlock(array).capacity = Len(array)
          /\ WrappedBlock(array).memory = array
      BY <3>1 DEF WrappedBlock, Block
    <3>3. QED BY <2>2, <3>1, <3>2
  <2>3. QED BY <2>1, <2>2 DEF Init
<1>2. Shape(blocks)
  BY <1>1, SingleBlockShape
<1>3. Len(blocks) = 1 /\ current = 1 /\ position = 0 /\ blocks[1] = b
  BY <1>1 DEF Init
<1>4. Placed
  BY <1>1, <1>2, <1>3 DEF Placed, CursorInBlock, End, TailRoom
<1>5. Puts
  <2>1. pending = <<>> /\ pending \in Seq(Byte) /\ Len(pending) = 0
    BY DEF Init
  <2>2. position = 0 /\ mode = "idle" /\ finalized = FALSE /\ MaxLimit \in Nat
    BY SizeAssumption DEF Init
  <2>3. position \in 0..MaxLimit /\ position + Len(pending) <= MaxLimit
    BY ONLY <2>1, <2>2
  <2>4. QED BY <2>1, <2>2, <2>3 DEF Puts, PendingMode
<1>6. QED BY <1>4, <1>5

----------------------------------------------------------------------------
(* The steps of the codec preserve the invariant, one lemma per operation. *)

LEMMA PutUint8Inv ==
    ASSUME Placed, Puts, NEW b \in Byte, PutUint8(b)
    PROVE  Placed' /\ Puts'
<1>1. Placed'
  BY DEF Placed, PutUint8, CursorInBlock, Shape, Tiles, Roomy, Ordered,
         Covering, TailRoom
<1>2. Puts'
  BY SizeAssumption DEF PutUint8, Puts, PendingMode
<1>3. QED BY <1>1, <1>2

LEMMA PutIntegerInv ==
    ASSUME Placed, Puts, ~finalized, NEW n \in IntSizes,
           NEW bytes \in [1..n -> Byte], WithinOrAppended(n), PutInteger(bytes)
    PROVE  Placed' /\ Puts'
<1>1. n \in Nat /\ n > 0 /\ bytes \in Seq(Byte) /\ Len(bytes) = n /\ bytes # <<>>
  BY SizeAssumption
<1>2. PICK c \in BlockCapacity : blocks' = EnsuredBlocks(n, c)
  BY <1>1 DEF PutInteger
<1>3. /\ current' = EnsuredCurrent(n) /\ position' = position
      /\ pending' = bytes /\ mode' = "bytes" /\ finalized' = finalized
      /\ position + n <= MaxLimit
  BY <1>1 DEF PutInteger
<1>4. position \in Nat
  BY SizeAssumption DEF Puts
<1>5. Placed'
  BY <1>2, <1>3, <1>4, EnsuredShape DEF Placed, CursorInBlock
<1>6. Puts'
  BY <1>1, <1>3 DEF Puts, PendingMode
<1>7. QED BY <1>5, <1>6

LEMMA PutArrayInv ==
    ASSUME Placed, Puts, NEW array \in Seq(Byte), PutArray(array)
    PROVE  Placed' /\ Puts'
<1>1. PICK c \in BlockCapacity : blocks' = AllocatedBlocks(c)
  BY DEF PutArray
<1>2. /\ current' = AllocatedCurrent /\ position' = position
      /\ pending' = array /\ finalized' = finalized
      /\ mode' = IF array = <<>> THEN "idle" ELSE "array"
      /\ position + Len(array) <= MaxLimit
  BY DEF PutArray
<1>3. position \in Nat
  BY SizeAssumption DEF Puts
<1>4. Placed'
  BY <1>1, <1>2, <1>3, AllocatedReady DEF Placed, CursorInBlock, Ready
<1>5. Puts'
  BY <1>2 DEF Puts, PendingMode
<1>6. QED BY <1>4, <1>5

LEMMA StoreByteInv ==
    ASSUME Placed, Puts, StoreByte
    PROVE  Placed' /\ Puts'
<1>1. PICK c \in BlockCapacity : StoredAt(AllocatedBlocks(c), AllocatedCurrent, 1)
  BY DEF StoreByte
<1>2. position \in Nat
  BY SizeAssumption DEF Puts
<1>3. /\ Shape(AllocatedBlocks(c)) /\ Ready(AllocatedBlocks(c), AllocatedCurrent)
      /\ TailRoom(blocks) => TailRoom(AllocatedBlocks(c))
  BY <1>2, AllocatedReady DEF Placed
<1>4. AllocatedBlocks(c)[AllocatedCurrent] \in Block
  BY <1>3 DEF Shape, Ready
<1>5. position + 1 <= AllocatedBlocks(c)[AllocatedCurrent].begin
                     + AllocatedBlocks(c)[AllocatedCurrent].capacity
  BY <1>2, <1>3, <1>4, BlockFields DEF Ready
<1>6. 1 \in 1..Len(pending)
  BY DEF StoreByte, Puts, PendingMode
<1>7. QED BY <1>1, <1>3, <1>5, <1>6, StoredAtInv

LEMMA NextArrayBlockInv ==
    ASSUME Placed, Puts, NextArrayBlock
    PROVE  Placed' /\ Puts'
<1>1. PICK c \in BlockCapacity : blocks' = AllocatedBlocks(c)
  BY DEF NextArrayBlock
<1>2. /\ current' = AllocatedCurrent /\ position' = position
      /\ pending' = pending /\ finalized' = finalized /\ mode' = mode
  BY DEF NextArrayBlock
<1>3. position \in Nat
  BY SizeAssumption DEF Puts
<1>4. Placed'
  BY <1>1, <1>2, <1>3, AllocatedReady DEF Placed, CursorInBlock, Ready
<1>5. Puts'
  BY <1>2 DEF Puts, PendingMode
<1>6. QED BY <1>4, <1>5

LEMMA CopyChunkInv ==
    ASSUME Placed, Puts, CopyChunk
    PROVE  Placed' /\ Puts'
<1> DEFINE n == IF Remaining > Len(pending) THEN Len(pending) ELSE Remaining
<1>1. position \in Nat /\ Len(pending) \in Nat /\ Len(pending) > 0
  BY SizeAssumption DEF CopyChunk, Puts, PendingMode
<1>2. Remaining \in Nat /\ Remaining # 0
  BY <1>1, CursorFacts DEF CopyChunk, AtBlockEnd, Placed
<1>3. n \in 1..Len(pending) /\ n <= Remaining
  BY <1>1, <1>2
<1>4. StoredAt(blocks, current, n)
  BY DEF CopyChunk
<1> HIDE DEF n
<1>5. /\ blocks[current].begin \in Nat /\ blocks[current].capacity \in Nat
      /\ blocks[current].limit \in Nat
  BY <1>1, CursorFacts DEF Placed
<1>6. position + n <= blocks[current].begin + blocks[current].capacity
  BY <1>1, <1>3, <1>5 DEF Remaining
<1>7. Ready(blocks, current)
  BY <1>1, <1>2, <1>5 DEF Ready, Placed, CursorInBlock, Remaining
<1>8. QED BY <1>3, <1>4, <1>6, <1>7, StoredAtInv DEF Placed

LEMMA SetPositionInv ==
    ASSUME Placed, Puts, NEW p \in 0..MaxLimit, SetPosition(p)
    PROVE  Placed' /\ Puts'
<1>1. /\ blocks' = blocks /\ position' = p /\ pending' = pending
      /\ mode' = mode /\ finalized' = finalized /\ mode = "idle"
      /\ p <= Limit /\ current' = IF p = Limit THEN Len(blocks) ELSE Holding(p)
  BY DEF SetPosition, Idle
<1>2. p \in Nat /\ Len(blocks) \in Nat /\ Len(blocks) \in 1..Len(blocks)
      /\ TailBlock \in Block
  BY SizeAssumption DEF Placed, Shape, TailBlock
<1>3. TailBlock.begin \in Nat /\ TailBlock.limit \in Nat /\ Limit \in Nat
  BY <1>2, BlockFields DEF Limit
<1>4. current' \in 1..Len(blocks) /\ CursorInBlock'
  <2>1. CASE p = Limit
    BY <1>1, <1>2, <1>3, <2>1 DEF CursorInBlock, Limit, TailBlock, End
  <2>2. CASE p # Limit
    <3>1. p < Limit
      BY <1>1, <1>2, <1>3, <2>2
    <3>2. Holding(p) \in 1..Len(blocks) /\ ContainsPosition(blocks[Holding(p)], p)
      BY <1>2, <3>1, HoldingFinds DEF Placed
    <3>3. blocks[Holding(p)] \in Block
      BY <3>2 DEF Placed, Shape
    <3>4. QED BY <1>1, <1>2, <2>2, <3>2, <3>3, BlockFields
              DEF CursorInBlock, ContainsPosition
  <2>3. QED BY <2>1, <2>2
<1>5. Placed'
  BY <1>1, <1>4 DEF Placed
<1>6. Puts'
  BY <1>1, <1>2 DEF Puts, PendingMode
<1>7. QED BY <1>5, <1>6

LEMMA FinalizeInv ==
    ASSUME Placed, Puts, Finalize
    PROVE  Placed' /\ Puts'
<1>1. /\ position' = position /\ pending' = pending /\ mode' = mode
      /\ finalized' = TRUE
  BY DEF Finalize
<1>2. position \in Nat
  BY SizeAssumption DEF Puts
<1>3. CASE position < Limit
  <2> DEFINE i == Holding(position)
  <2>1. i \in 1..Len(blocks) /\ ContainsPosition(blocks[i], position)
    BY <1>2, <1>3, HoldingFinds DEF Placed
  <2>2. blocks' = Truncated(i) /\ current' = i
    BY <1>3 DEF Finalize
  <2> HIDE DEF i
  <2>3. /\ Shape(blocks') /\ Len(blocks') = i
        /\ blocks'[i].begin = blocks[i].begin
        /\ End(blocks'[i]) = position
    BY <1>2, <2>1, <2>2, TruncatedShape DEF Placed
  <2>4. CursorInBlock'
    BY <1>1, <1>2, <2>1, <2>2, <2>3 DEF CursorInBlock, ContainsPosition
  <2>5. QED BY <1>1, <2>1, <2>2, <2>3, <2>4 DEF Placed, Puts, PendingMode
<1>4. CASE ~(position < Limit)
  BY <1>1, <1>4 DEF Finalize, Placed, Puts, PendingMode, CursorInBlock
<1>5. QED BY <1>3, <1>4

LEMMA StepInv == IInv /\ [CodecNext]_netVars => IInv'
<1> SUFFICES ASSUME Placed, Puts, [CodecNext]_netVars
             PROVE  Placed' /\ Puts'
  <2>1. IInv' <=> Placed' /\ Puts'
    BY IInvParts, PTL
  <2>2. QED BY <2>1, IInvParts
<1>1. ASSUME NEW b \in Byte, PutUint8(b) PROVE Placed' /\ Puts'
  BY <1>1, PutUint8Inv
<1>2. ASSUME ~finalized, NEW n \in IntSizes, NEW bytes \in [1..n -> Byte],
             WithinOrAppended(n), PutInteger(bytes)
      PROVE  Placed' /\ Puts'
  BY <1>2, PutIntegerInv
<1>3. ASSUME NEW array \in Arrays(MaxArray), PutArray(array)
      PROVE  Placed' /\ Puts'
  <2>1. array \in Seq(Byte)
    BY DEF Arrays
  <2>2. QED BY <1>3, <2>1, PutArrayInv
<1>4. CASE Loop
  BY <1>4, StoreByteInv, NextArrayBlockInv, CopyChunkInv DEF Loop
<1>5. ASSUME NEW p \in 0..MaxLimit, SetPosition(p) PROVE Placed' /\ Puts'
  BY <1>5, SetPositionInv
<1>6. CASE Finalize
  BY <1>6, FinalizeInv
<1>7. CASE UNCHANGED netVars
  BY <1>7 DEF netVars, Placed, Puts, PendingMode, CursorInBlock
<1>8. QED BY <1>1, <1>2, <1>3, <1>4, <1>5, <1>6, <1>7 DEF CodecNext, CodecPut

(* The inductive invariant holds of every behaviour of the codec.          *)
THEOREM Invariance == CodecSpec => []IInv
<1>1. QED BY InitInv, StepInv, PTL DEF CodecSpec

(* The variables keep their types: no sequence of codec calls leaves the   *)
(* cursor outside the list of blocks.                                      *)
THEOREM TypeCorrect == CodecSpec => []TypeOK
<1>1. IInv => TypeOK
  BY DEF IInv
<1>2. QED BY <1>1, Invariance, PTL

(* Expand, the limit updates of the puts and Finalize keep the blocks one  *)
(* behind the other without gap or overlap, whatever capacities the        *)
(* allocator grants.                                                       *)
THEOREM TilingHolds == CodecSpec => []BlocksTile
<1>1. IInv => BlocksTile
  BY DEF IInv, Shape, BlocksTile
<1>2. QED BY <1>1, Invariance, PTL

(* The block AllocateIfNeeded steps to always has room.                    *)
THEOREM RoomHolds == CodecSpec => []RoomAhead
<1>1. IInv => RoomAhead
  BY DEF IInv
<1>2. QED BY <1>1, Invariance, PTL

(* The cursor is in the current block between and during all operations.   *)
THEOREM CursorHolds == CodecSpec => []CursorInBlock
<1>1. IInv => CursorInBlock
  BY DEF IInv
<1>2. QED BY <1>1, Invariance, PTL

(* No put of the codec stores a byte outside the memory of its block, for  *)
(* every block size, integer size and array length.                        *)
THEOREM MemorySafety == CodecSpec => []MemorySafe
<1>1. IInv => MemorySafe
  <2> SUFFICES ASSUME Placed, Puts, NEW c \in BlockCapacity
               PROVE  LET block == AllocatedBlocks(c)[AllocatedCurrent]
                      IN /\ block.begin <= position
                         /\ position < block.begin + block.capacity
    BY IInvParts DEF MemorySafe
  <2>1. position \in Nat
    BY SizeAssumption DEF Puts
  <2>2. QED BY <2>1, AllocatedReady DEF Ready, Placed
<1>2. QED BY <1>1, Invariance, PTL

(* No operation of the codec moves or resizes a block another one follows: *)
(* only the tail grows, and only Finalize drops blocks.                    *)
KeepsShape ==
    \A i \in 1..(Len(blocks) - 1) :
        i < Len(blocks') =>
           /\ blocks'[i].begin = blocks[i].begin
           /\ blocks'[i].limit = blocks[i].limit

(* Blocks that are as they were, or were expanded by one block.            *)
Extends(bs) ==
    /\ Len(blocks) <= Len(bs)
    /\ \A i \in 1..Len(blocks) :
          bs[i].begin = blocks[i].begin /\ bs[i].limit = blocks[i].limit

LEMMA AllocatedExtends ==
    ASSUME Placed, Puts, NEW c \in BlockCapacity
    PROVE  Extends(AllocatedBlocks(c))
<1>1. position \in Nat /\ Len(blocks) \in Nat /\ c \in Nat \ {0}
  BY SizeAssumption DEF Puts, Placed, Shape
<1>2. CASE AtBlockEnd /\ IsLast
  <2>1. Len(blocks) = 1 \/ TailBlock.limit > 0
    BY <1>1, <1>2, UsedIfFull DEF Placed
  <2>2. QED BY <1>1, <1>2, <2>1, ExpandShape
            DEF Extends, AllocatedBlocks, Placed
<1>3. CASE ~(AtBlockEnd /\ IsLast)
  BY <1>1, <1>3 DEF Extends, AllocatedBlocks
<1>4. QED BY <1>2, <1>3

LEMMA EnsuredExtends ==
    ASSUME Placed, Puts, ~finalized,
           NEW n \in IntSizes, WithinOrAppended(n), NEW c \in BlockCapacity
    PROVE  Extends(EnsuredBlocks(n, c))
<1>1. position \in Nat /\ Len(blocks) \in Nat /\ c \in Nat \ {0} /\ n \in Nat
  BY SizeAssumption DEF Puts, Placed, Shape
<1>2. CASE Freezes(n)
  <2>1. Len(blocks) = 1 \/ TailBlock.limit > 0
    BY <1>1, <1>2, UsedIfFreezes DEF Placed
  <2>2. QED BY <1>1, <1>2, <2>1, ExpandShape DEF Extends, EnsuredBlocks, Placed
<1>3. CASE ~Freezes(n) /\ Remaining < n
  BY <1>3, AllocatedExtends DEF EnsuredBlocks
<1>4. CASE ~Freezes(n) /\ ~(Remaining < n)
  BY <1>1, <1>4 DEF EnsuredBlocks, Extends
<1>5. QED BY <1>2, <1>3, <1>4

LEMMA StoredKeepsShape ==
    ASSUME Placed, Puts, NEW bs, NEW i, NEW n \in 1..Len(pending),
           Shape(bs), Ready(bs, i), Extends(bs),
           position + n <= bs[i].begin + bs[i].capacity,
           StoredAt(bs, i, n)
    PROVE  KeepsShape
<1> DEFINE relative == position - bs[i].begin
           src == SubSeq(pending, 1, n)
           b == Stored(bs[i], relative, src)
<1>1. /\ bs \in Seq(Block) /\ i \in 1..Len(bs) /\ bs[i] \in Block
      /\ Len(bs) \in Nat /\ Len(blocks) \in Nat
  BY DEF Shape, Ready, Placed
<1>2. /\ bs[i].begin \in Nat /\ bs[i].capacity \in Nat
      /\ position \in Nat /\ bs[i].begin <= position /\ relative \in Nat
  BY <1>1, BlockFields DEF Ready, Puts
<1>3. src \in Seq(Byte) /\ Len(src) = n /\ n \in Nat
  BY DEF Puts
<1>4. relative + Len(src) <= bs[i].capacity
  <2>1. relative + n <= bs[i].capacity
    <3>1. position + n <= bs[i].begin + bs[i].capacity
      OBVIOUS
    <3>2. QED BY <1>2, <1>3, <3>1
  <2>2. QED BY <1>3, <2>1
<1>5. blocks' = [bs EXCEPT ![i] = b]
  BY DEF StoredAt
<1> HIDE DEF relative, src
<1>6. b.begin = bs[i].begin /\ (i < Len(bs) => b.limit = bs[i].limit)
  BY <1>1, <1>2, <1>3, <1>4, StoreShape, ZenonT(60)
<1> HIDE DEF b
<1>7. ASSUME NEW j \in 1..(Len(blocks) - 1)
      PROVE  blocks'[j].begin = blocks[j].begin /\ blocks'[j].limit = blocks[j].limit
  <2>1. j \in 1..Len(blocks) /\ j \in 1..Len(bs) /\ j < Len(bs)
    BY <1>1 DEF Extends
  <2>2. bs[j].begin = blocks[j].begin /\ bs[j].limit = blocks[j].limit
    BY <2>1 DEF Extends
  <2>3. CASE j = i
    BY <1>1, <1>5, <1>6, <2>1, <2>2, <2>3
  <2>4. CASE j # i
    BY <1>1, <1>5, <2>1, <2>2, <2>4
  <2>5. QED BY <2>3, <2>4
<1>8. QED BY <1>7 DEF KeepsShape

LEMMA StepKeepsShape == IInv /\ [CodecNext]_netVars => [KeepsShape]_netVars
<1> SUFFICES ASSUME Placed, Puts, CodecNext PROVE KeepsShape
  BY IInvParts
<1>1. position \in Nat /\ Len(blocks) \in Nat
  BY SizeAssumption DEF Puts, Placed, Shape
<1>2. ASSUME NEW bs, Extends(bs), blocks' = bs PROVE KeepsShape
  <2>1. \A i \in 1..(Len(blocks) - 1) : i \in 1..Len(blocks)
    BY <1>1
  <2>2. QED BY <1>2, <2>1 DEF KeepsShape, Extends
<1>3. blocks' = blocks => KeepsShape
  BY DEF KeepsShape
<1>4. ASSUME NEW b \in Byte, PutUint8(b) PROVE KeepsShape
  BY <1>3, <1>4 DEF PutUint8
<1>5. ASSUME ~finalized, NEW n \in IntSizes, NEW bytes \in [1..n -> Byte],
             WithinOrAppended(n), PutInteger(bytes)
      PROVE  KeepsShape
  <2>1. Len(bytes) = n
    BY SizeAssumption
  <2>2. PICK c \in BlockCapacity : blocks' = EnsuredBlocks(n, c)
    BY <1>5, <2>1 DEF PutInteger
  <2>3. QED BY <1>2, <1>5, <2>2, EnsuredExtends
<1>6. ASSUME NEW array, PutArray(array) PROVE KeepsShape
  BY <1>2, <1>6, AllocatedExtends DEF PutArray
<1>7. CASE StoreByte
  <2>1. PICK c \in BlockCapacity : StoredAt(AllocatedBlocks(c), AllocatedCurrent, 1)
    BY <1>7 DEF StoreByte
  <2>2. /\ Shape(AllocatedBlocks(c)) /\ Ready(AllocatedBlocks(c), AllocatedCurrent)
        /\ Extends(AllocatedBlocks(c))
    BY <1>1, AllocatedReady, AllocatedExtends DEF Placed
  <2>3. AllocatedBlocks(c)[AllocatedCurrent] \in Block
    BY <2>2 DEF Shape, Ready
  <2>4. position + 1 <= AllocatedBlocks(c)[AllocatedCurrent].begin
                       + AllocatedBlocks(c)[AllocatedCurrent].capacity
    BY <1>1, <2>2, <2>3, BlockFields DEF Ready
  <2>5. 1 \in 1..Len(pending)
    BY <1>7 DEF StoreByte, Puts, PendingMode
  <2>6. QED BY <2>1, <2>2, <2>4, <2>5, StoredKeepsShape
<1>8. CASE NextArrayBlock
  BY <1>2, <1>8, AllocatedExtends DEF NextArrayBlock
<1>9. CASE CopyChunk
  <2> DEFINE n == IF Remaining > Len(pending) THEN Len(pending) ELSE Remaining
  <2>1. Len(pending) \in Nat /\ Len(pending) > 0
    BY <1>9 DEF CopyChunk, Puts, PendingMode
  <2>2. Remaining \in Nat /\ Remaining # 0
    BY <1>1, <1>9, CursorFacts DEF CopyChunk, AtBlockEnd, Placed
  <2>3. n \in 1..Len(pending) /\ n <= Remaining
    BY <2>1, <2>2
  <2>4. StoredAt(blocks, current, n)
    BY <1>9 DEF CopyChunk
  <2> HIDE DEF n
  <2>5. /\ blocks[current].begin \in Nat /\ blocks[current].capacity \in Nat
        /\ blocks[current].limit \in Nat
    BY <1>1, CursorFacts DEF Placed
  <2>6. position + n <= blocks[current].begin + blocks[current].capacity
    <3>1. position \in Nat /\ n \in Nat
      BY <1>1, <2>1, <2>3 DEF Puts
    <3>2. n <= blocks[current].begin + blocks[current].capacity - position
      BY <2>3 DEF Remaining
    <3>3. QED BY ONLY <2>5, <3>1, <3>2
  <2>7. Ready(blocks, current)
    BY <1>1, <2>2, <2>5 DEF Ready, Placed, CursorInBlock, Remaining
  <2>8. Extends(blocks)
    BY <1>1 DEF Extends
  <2>9. QED BY <2>3, <2>4, <2>6, <2>7, <2>8, StoredKeepsShape DEF Placed
<1>10. ASSUME NEW p, SetPosition(p) PROVE KeepsShape
  BY <1>3, <1>10 DEF SetPosition
<1>11. CASE Finalize
  <2>1. CASE position < Limit
    <3> DEFINE i == Holding(position)
    <3>1. i \in 1..Len(blocks) /\ ContainsPosition(blocks[i], position)
      BY <1>1, <2>1, HoldingFinds DEF Placed
    <3>2. blocks' = Truncated(i)
      BY <1>11, <2>1 DEF Finalize
    <3> HIDE DEF i
    <3>3. /\ Len(blocks') = i
          /\ \A j \in 1..(i - 1) : blocks'[j] = blocks[j]
      BY <1>1, <3>1, <3>2, TruncatedShape DEF Placed
    <3>4. QED BY <1>1, <3>1, <3>3 DEF KeepsShape
  <2>2. CASE ~(position < Limit)
    BY <1>3, <1>11, <2>2 DEF Finalize
  <2>3. QED BY <2>1, <2>2
<1>12. QED BY <1>4, <1>5, <1>6, <1>7, <1>8, <1>9, <1>10, <1>11
           DEF CodecNext, CodecPut, Loop

(* A position a client keeps stays an offset into the same block until     *)
(* Finalize drops the block.                                               *)
THEOREM OnlyTailGrows == CodecSpec => FullBlocksKeepShape
<1>1. [][KeepsShape]_netVars <=> FullBlocksKeepShape
  BY DEF KeepsShape, FullBlocksKeepShape
<1>2. QED BY <1>1, StepKeepsShape, Invariance, PTL DEF CodecSpec

----------------------------------------------------------------------------
(* The list of blocks implements the linear array of bytes the header      *)
(* promises (FlatBuffer): what each operation does to the content.         *)

(* Byte b is stored for position p in the blocks bs.                       *)
Holds(bs, p, b) ==
    \E i \in 1..Len(bs) :
        /\ ContainsPosition(bs[i], p)
        /\ b = bs[i].memory[p - bs[i].begin + 1]

ReadsHeld ==
    /\ Limit \in Nat
    /\ \A p \in Nat : p < Limit => Holds(blocks, p, GetUint8(p))
    /\ \A p \in Nat : \A b : Holds(blocks, p, b) => b = GetUint8(p)

LEMMA ReadsWhatIsHeld == Shape(blocks) => ReadsHeld
<1> SUFFICES ASSUME Shape(blocks) PROVE ReadsHeld
  OBVIOUS
<1>1. TailBlock \in Block /\ Len(blocks) \in Nat
  BY DEF Shape, TailBlock
<1>2. Limit \in Nat
  BY <1>1, BlockFields DEF Limit
<1>3. ASSUME NEW p \in Nat, p < Limit PROVE Holds(blocks, p, GetUint8(p))
  BY <1>3, FirstHoldingFinds DEF Holds, GetUint8
<1>4. ASSUME NEW p \in Nat, NEW b, Holds(blocks, p, b) PROVE b = GetUint8(p)
  <2>1. PICK i \in 1..Len(blocks) : /\ ContainsPosition(blocks[i], p)
                                    /\ b = blocks[i].memory[p - blocks[i].begin + 1]
    BY <1>4 DEF Holds
  <2>2. p < Limit
    <3>1. blocks[i] \in Block /\ blocks[i].begin \in Nat /\ End(blocks[i]) \in Nat
          /\ p < End(blocks[i])
      BY <2>1, BlockFields DEF Shape, ContainsPosition
    <3>2. CASE i = Len(blocks)
      BY <3>1, <3>2 DEF Limit, TailBlock
    <3>3. CASE i # Len(blocks)
      <4>1. Len(blocks) \in 1..Len(blocks) /\ i < Len(blocks)
        BY <1>1, <3>3
      <4>2. End(blocks[i]) <= TailBlock.begin
        BY <4>1 DEF Shape, Ordered, TailBlock
      <4>3. TailBlock.begin \in Nat /\ TailBlock.limit \in Nat
        BY <1>1, BlockFields
      <4>4. QED BY <3>1, <4>2, <4>3 DEF Limit, End
    <3>4. QED BY <3>2, <3>3
  <2>3. FirstHolding(p) = i
    BY <2>1, <2>2, FirstHoldingFinds, UniqueHolder
  <2>4. QED BY <2>1, <2>3 DEF GetUint8
<1>5. QED BY <1>2, <1>3, <1>4 DEF ReadsHeld

LEMMA ReadsHeldNext == Shape(blocks)' => ReadsHeld'
BY ReadsWhatIsHeld, PTL

(* Blocks that hold the same bytes up to the same limit.                   *)
SameBytes(bs) ==
    /\ End(bs[Len(bs)]) = Limit
    /\ \A p \in Nat : p < Limit => Holds(bs, p, GetUint8(p))

LEMMA ExpandedSame ==
    ASSUME Shape(blocks), NEW c \in Nat \ {0},
           Len(blocks) = 1 \/ TailBlock.limit > 0
    PROVE  SameBytes(Expanded(c))
<1> DEFINE after == Expanded(c)
<1>1. /\ Len(after) = Len(blocks) + 1 /\ Len(blocks) \in Nat /\ Limit \in Nat
      /\ after[Len(blocks) + 1] = NewBlock(Limit, c)
      /\ \A j \in 1..Len(blocks) : /\ after[j].begin = blocks[j].begin
                                   /\ after[j].limit = blocks[j].limit
                                   /\ after[j].memory = blocks[j].memory
  BY ExpandShape, ReadsWhatIsHeld DEF Shape, ReadsHeld
<1> HIDE DEF after
<1>2. End(after[Len(after)]) = Limit
  <2>1. NewBlock(Limit, c).begin = Limit /\ NewBlock(Limit, c).limit = 0
    BY <1>1, NewBlockType
  <2>2. QED BY <1>1, <2>1 DEF End
<1>3. ASSUME NEW p \in Nat, p < Limit PROVE Holds(after, p, GetUint8(p))
  <2>1. PICK i \in 1..Len(blocks) :
           /\ ContainsPosition(blocks[i], p)
           /\ GetUint8(p) = blocks[i].memory[p - blocks[i].begin + 1]
    BY <1>3, ReadsWhatIsHeld DEF Holds, ReadsHeld
  <2>2. i \in 1..Len(after) /\ ContainsPosition(after[i], p)
    BY <1>1, <2>1 DEF ContainsPosition, End
  <2>3. QED BY <1>1, <2>1, <2>2 DEF Holds
<1>4. QED BY <1>2, <1>3 DEF SameBytes, after

LEMMA BlocksSame == Shape(blocks) => SameBytes(blocks)
BY ReadsWhatIsHeld DEF ReadsHeld, SameBytes, Limit, TailBlock

(* Making room stores nothing.                                             *)
LEMMA AllocatedSame ==
    ASSUME Placed, Puts, NEW c \in BlockCapacity
    PROVE  SameBytes(AllocatedBlocks(c))
<1>1. position \in Nat /\ c \in Nat \ {0}
  BY SizeAssumption DEF Puts
<1>2. CASE AtBlockEnd /\ IsLast
  BY <1>1, <1>2, UsedIfFull, ExpandedSame DEF AllocatedBlocks, Placed
<1>3. CASE ~(AtBlockEnd /\ IsLast)
  BY <1>3, BlocksSame DEF AllocatedBlocks, Placed
<1>4. QED BY <1>2, <1>3

LEMMA EnsuredSame ==
    ASSUME Placed, Puts, ~finalized,
           NEW n \in IntSizes, WithinOrAppended(n), NEW c \in BlockCapacity
    PROVE  SameBytes(EnsuredBlocks(n, c))
<1>1. position \in Nat /\ c \in Nat \ {0}
  BY SizeAssumption DEF Puts
<1>2. CASE Freezes(n)
  BY <1>1, <1>2, UsedIfFreezes, ExpandedSame DEF EnsuredBlocks, Placed
<1>3. CASE ~Freezes(n) /\ Remaining < n
  BY <1>3, AllocatedSame DEF EnsuredBlocks
<1>4. CASE ~Freezes(n) /\ ~(Remaining < n)
  BY <1>4, BlocksSame DEF EnsuredBlocks, Placed
<1>5. QED BY <1>2, <1>3, <1>4

(* Blocks that still hold the same bytes leave the content as it is.       *)
LEMMA SameContent ==
    ASSUME Shape(blocks'), NEW bs, blocks' = bs, SameBytes(bs)
    PROVE  Limit' = Limit /\ Content' = Content
<1>1. /\ Limit' \in Nat
      /\ \A p \in Nat : \A b : Holds(blocks', p, b) => b = GetUint8(p)'
  BY ReadsHeldNext DEF ReadsHeld
<1>2. Limit' = Limit
  BY DEF SameBytes, Limit, TailBlock
<1>3. \A p \in 0..(Limit - 1) : GetUint8(p)' = GetUint8(p)
  BY <1>1, <1>2 DEF SameBytes
<1>4. QED BY <1>2, <1>3 DEF Content

LEMMA EndBeforeLimit ==
    ASSUME Shape(blocks), NEW i \in 1..Len(blocks)
    PROVE  End(blocks[i]) <= Limit
<1>1. Len(blocks) \in 1..Len(blocks) /\ Len(blocks) \in Nat /\ blocks[i] \in Block
      /\ TailBlock \in Block
  BY DEF Shape, TailBlock
<1>2. CASE i = Len(blocks)
  BY <1>1, <1>2, BlockFields DEF Limit, TailBlock
<1>3. CASE i # Len(blocks)
  <2>1. i < Len(blocks)
    BY <1>1, <1>3
  <2>2. End(blocks[i]) <= TailBlock.begin
    BY <1>1, <2>1 DEF Shape, Ordered, TailBlock
  <2>3. TailBlock.begin \in Nat /\ TailBlock.limit \in Nat /\ End(blocks[i]) \in Nat
    BY <1>1, BlockFields
  <2>4. QED BY <2>2, <2>3 DEF Limit, End
<1>4. QED BY <1>2, <1>3

LEMMA CursorBeforeLimit ==
    ASSUME Placed, Puts
    PROVE  position <= Limit
<1>1. blocks[current] \in Block
  BY DEF Placed, Shape
<1>2. position <= End(blocks[current]) /\ End(blocks[current]) \in Nat
  BY <1>1, BlockFields DEF Placed, CursorInBlock
<1>3. End(blocks[current]) <= Limit
  BY EndBeforeLimit DEF Placed
<1>4. position \in Nat /\ Limit \in Nat
  BY SizeAssumption, ReadsWhatIsHeld DEF Puts, Placed, ReadsHeld
<1>5. QED BY <1>2, <1>3, <1>4

(* A store puts the first n pending bytes at the cursor, moves the limit   *)
(* up if it ends behind it, and touches no other byte.                     *)
StoresFirst(n) ==
    /\ Limit' = IF position + n > Limit THEN position + n ELSE Limit
    /\ Content' = [p \in 0..(Limit' - 1) |->
                     IF p \in position..(position + n - 1)
                     THEN pending[p - position + 1] ELSE Content[p]]

LEMMA StoredContent ==
    ASSUME Placed, Puts, NEW bs, NEW i, NEW n \in 1..Len(pending),
           Shape(bs), Ready(bs, i), SameBytes(bs), Shape(blocks'),
           position + n <= bs[i].begin + bs[i].capacity,
           StoredAt(bs, i, n)
    PROVE  StoresFirst(n)
<1> DEFINE begin == bs[i].begin
           limit == bs[i].limit
           capacity == bs[i].capacity
           memory == bs[i].memory
           relative == position - begin
           src == SubSeq(pending, 1, n)
           b == Stored(bs[i], relative, src)
<1>1. /\ bs \in Seq(Block) /\ i \in 1..Len(bs) /\ bs[i] \in Block
      /\ Len(bs) \in Nat /\ Len(bs) \in 1..Len(bs)
  BY DEF Shape, Ready
<1>2. /\ begin \in Nat /\ capacity \in Nat /\ limit \in Nat
      /\ memory \in Seq(Byte \cup {Unwritten}) /\ Len(memory) \in Nat
      /\ position \in Nat /\ begin <= position /\ relative \in Nat
      /\ limit <= capacity /\ capacity <= Len(memory)
  <2>1. /\ begin \in Nat /\ capacity \in Nat /\ limit \in Nat
        /\ memory \in Seq(Byte \cup {Unwritten}) /\ Len(memory) \in Nat
    BY <1>1, BlockFields
  <2>2. limit <= capacity /\ capacity <= Len(memory)
    BY <1>1 DEF Shape, Tiles
  <2>3. begin <= position /\ position \in Nat
    BY DEF Ready, Puts
  <2>4. QED BY <2>1, <2>2, <2>3
<1>3. /\ src \in Seq(Byte) /\ Len(src) = n /\ n \in Nat /\ n >= 1
      /\ \A o \in 1..n : src[o] = pending[o]
  BY DEF Puts
<1>4. relative + n <= capacity
  <2>1. position + n <= begin + capacity
    OBVIOUS
  <2> HIDE DEF begin, capacity
  <2>2. QED BY <1>2, <1>3, <2>1
<1>5. blocks' = [bs EXCEPT ![i] = b]
  BY DEF StoredAt
<1>6. /\ b.begin = begin
      /\ b.limit = IF relative + n > limit THEN relative + n ELSE limit
      /\ (i < Len(bs) => b.limit = limit)
  <2>1. relative + Len(src) <= capacity
    BY <1>3, <1>4
  <2> HIDE DEF relative, src
  <2>2. i < Len(bs) => b.limit = limit
    BY <1>1, <1>2, <1>3, <2>1, StoreShape
  <2>3. QED BY <1>1, <1>2, <1>3, <2>2, StoredBlock
<1>7. \A o \in 1..Len(memory) :
         b.memory[o] = IF o \in (relative + 1)..(relative + n)
                       THEN pending[o - relative] ELSE memory[o]
  <2>1. b.memory = Overlaid(memory, relative, src)
    BY <1>1 DEF Stored, Block
  <2> HIDE DEF b, relative, memory
  <2>2. ASSUME NEW o \in (relative + 1)..(relative + n)
        PROVE  src[o - relative] = pending[o - relative]
    <3>1. o - relative \in 1..n
      BY ONLY <1>2, <1>3
    <3>2. QED BY <1>3, <3>1
  <2> HIDE DEF src
  <2>3. QED BY <1>3, <2>1, <2>2 DEF Overlaid
<1> HIDE DEF b
<1>8. /\ Len(blocks') = Len(bs) /\ blocks'[i] = b
      /\ \A j \in 1..Len(bs) : j # i => blocks'[j] = bs[j]
  BY <1>1, <1>5
<1>9. /\ Limit' \in Nat /\ Limit \in Nat
      /\ \A p \in Nat : \A x : Holds(blocks', p, x) => x = GetUint8(p)'
  BY ReadsHeldNext, ReadsWhatIsHeld DEF ReadsHeld, Placed
<1>10. End(bs[Len(bs)]) = Limit
  BY DEF SameBytes
<1>11. Limit' = IF position + n > Limit THEN position + n ELSE Limit
  <2>1. Limit' = End(blocks'[Len(bs)])
    BY <1>8 DEF Limit, TailBlock
  <2>2. CASE i = Len(bs)
    <3>1. Limit' = begin + b.limit /\ Limit = begin + limit
      BY <1>6, <1>8, <1>10, <2>1, <2>2 DEF End
    <3> HIDE DEF begin, limit, relative
    <3>2. relative = position - begin
      BY DEF relative
    <3>3. QED BY ONLY <1>2, <1>3, <1>6, <3>1, <3>2
  <2>3. CASE i # Len(bs)
    <3>1. i < Len(bs) /\ Limit' = Limit
      BY <1>1, <1>8, <1>10, <2>1, <2>3
    <3>3. begin + limit <= bs[Len(bs)].begin
      BY <1>1, <3>1 DEF Shape, Ordered, End
    <3>4. bs[Len(bs)].begin \in Nat /\ bs[Len(bs)].begin <= Limit
      <4>1. bs[Len(bs)] \in Block
        BY <1>1
      <4>2. bs[Len(bs)].begin \in Nat /\ bs[Len(bs)].limit \in Nat
        BY <4>1, BlockFields
      <4>3. QED BY <1>10, <4>2 DEF End
    <3>5. position + n <= Limit
      <4> HIDE DEF begin, limit, relative
      <4>1. relative + n <= limit
        BY <1>2, <1>3, <1>6, <3>1
      <4>2. relative = position - begin
        BY DEF relative
      <4>3. QED BY ONLY <1>2, <1>3, <1>9, <3>3, <3>4, <4>1, <4>2
    <3>6. QED BY ONLY <1>2, <1>3, <1>9, <3>1, <3>5
  <2>4. QED BY <2>2, <2>3
<1>12. ASSUME NEW p \in position..(position + n - 1)
       PROVE  GetUint8(p)' = pending[p - position + 1]
  <2>1. /\ p \in Nat
        /\ p - begin + 1 \in (relative + 1)..(relative + n)
        /\ p - begin + 1 \in 1..Len(memory)
        /\ (p - begin + 1) - relative = p - position + 1
        /\ begin <= p /\ p < begin + (relative + n)
    <3> HIDE DEF begin, capacity, memory, relative
    <3>1. relative = position - begin /\ p \in position..(position + n - 1)
      BY DEF relative
    <3>2. QED BY ONLY <1>2, <1>3, <1>4, <3>1
  <2> HIDE DEF begin, limit, memory, relative
  <2>2. ContainsPosition(b, p)
    <3>1. b.limit \in Nat /\ relative + n <= b.limit
      BY ONLY <1>2, <1>3, <1>6
    <3>2. begin <= p /\ p < begin + b.limit
      BY ONLY <1>2, <1>3, <2>1, <3>1
    <3>3. QED BY <1>6, <3>2 DEF ContainsPosition, End
  <2>3. b.memory[p - b.begin + 1] = pending[p - position + 1]
    BY <1>6, <1>7, <2>1
  <2>4. Holds(blocks', p, pending[p - position + 1])
    BY <1>1, <1>8, <2>2, <2>3 DEF Holds
  <2>5. QED BY <1>9, <2>1, <2>4
<1>13. ASSUME NEW p \in 0..(Limit - 1), p \notin position..(position + n - 1)
       PROVE  GetUint8(p)' = GetUint8(p)
  <2>1. p \in Nat /\ p < Limit
    BY <1>9
  <2>2. PICK j \in 1..Len(bs) :
           /\ ContainsPosition(bs[j], p)
           /\ GetUint8(p) = bs[j].memory[p - bs[j].begin + 1]
    BY <2>1 DEF SameBytes, Holds
  <2>3. CASE j # i
    <3>1. Holds(blocks', p, GetUint8(p))
      BY <1>8, <2>2, <2>3 DEF Holds
    <3>2. QED BY <1>9, <2>1, <3>1
  <2>4. CASE j = i
    <3>1. begin <= p /\ p < begin + limit
      BY <2>2, <2>4 DEF ContainsPosition, End
    <3>2. GetUint8(p) = memory[p - begin + 1]
      BY <2>2, <2>4
    <3> HIDE DEF begin, limit, capacity, memory, relative
    <3>3. /\ p - begin + 1 \in 1..Len(memory)
          /\ p - begin + 1 \notin (relative + 1)..(relative + n)
      <4>1. relative = position - begin
        BY DEF relative
      <4>2. QED BY ONLY <1>2, <1>3, <1>13, <2>1, <3>1, <4>1
    <3>4. ContainsPosition(b, p)
      <4>1. b.limit \in Nat /\ limit <= b.limit
        BY ONLY <1>2, <1>3, <1>6
      <4>2. begin <= p /\ p < begin + b.limit
        BY ONLY <1>2, <2>1, <3>1, <4>1
      <4>3. QED BY <1>6, <4>2 DEF ContainsPosition, End
    <3>5. b.memory[p - b.begin + 1] = GetUint8(p)
      BY <1>6, <1>7, <3>2, <3>3
    <3>6. Holds(blocks', p, GetUint8(p))
      BY <1>1, <1>8, <3>4, <3>5 DEF Holds
    <3>7. QED BY <1>9, <2>1, <3>6
  <2>5. QED BY <2>3, <2>4
<1>14. ASSUME NEW p \in 0..(Limit' - 1)
       PROVE  GetUint8(p)' = IF p \in position..(position + n - 1)
                             THEN pending[p - position + 1] ELSE Content[p]
  <2>1. CASE p \in position..(position + n - 1)
    BY <1>12, <2>1
  <2>2. CASE p \notin position..(position + n - 1)
    <3>1. position <= Limit
      BY CursorBeforeLimit
    <3>2. p \in 0..(Limit - 1)
      BY <1>2, <1>3, <1>9, <1>11, <2>2, <3>1
    <3>3. QED BY <1>13, <2>2, <3>2 DEF Content
  <2>3. QED BY <2>1, <2>2
<1>15. Content' = [p \in 0..(Limit' - 1) |-> GetUint8(p)']
  BY DEF Content
<1>16. QED BY <1>11, <1>14, <1>15 DEF StoresFirst

(* Finalize keeps the bytes before the cursor and no other.                *)
LEMMA FinalizedContent ==
    ASSUME Placed, Puts, Finalize, Shape(blocks')
    PROVE  Limit' = position /\ Content' = [p \in 0..(position - 1) |-> Content[p]]
<1>1. position \in Nat /\ Limit \in Nat /\ ReadsHeld
  BY SizeAssumption, ReadsWhatIsHeld DEF Puts, Placed, ReadsHeld
<1>2. CASE position < Limit
  <2> DEFINE i == Holding(position)
             used == position - blocks[i].begin
  <2>1. i \in 1..Len(blocks) /\ ContainsPosition(blocks[i], position)
    BY <1>1, <1>2, HoldingFinds DEF Placed
  <2>2. blocks' = Truncated(i)
    BY <1>2 DEF Finalize
  <2> HIDE DEF i
  <2>3. /\ Len(blocks') = i /\ End(blocks'[i]) = position
        /\ blocks'[i].begin = blocks[i].begin
        /\ \A j \in 1..(i - 1) : blocks'[j] = blocks[j]
        /\ Len(blocks) \in Nat /\ blocks[i] \in Block
    <3>1. i \in 1..i
      BY <2>1
    <3>2. Len(blocks) \in Nat /\ blocks[i] \in Block
      BY <2>1 DEF Placed, Shape
    <3>3. QED BY <1>1, <2>1, <2>2, <3>1, <3>2, TruncatedShape DEF Placed
  <2>4. blocks'[i].memory = blocks[i].memory
    <3> DEFINE kept == SubSeq(blocks, 1, i)
    <3>1. kept \in Seq(Block) /\ Len(kept) = i /\ kept[i] = blocks[i]
          /\ i \in DOMAIN kept
      BY <2>1 DEF Placed, Shape
    <3>2. blocks' = [kept EXCEPT ![i].limit = position - blocks[i].begin]
      BY <2>2 DEF Truncated
    <3> HIDE DEF kept
    <3>3. blocks'[i] = [blocks[i] EXCEPT !.limit = position - blocks[i].begin]
      BY <3>1, <3>2
    <3>4. QED BY <2>3, <3>3 DEF Block
  <2>5. Limit' = position
    BY <2>3 DEF Limit, TailBlock
  <2>6. ASSUME NEW p \in 0..(position - 1)
        PROVE  GetUint8(p)' = Content[p]
    <3>1. p \in Nat /\ p < position /\ p < Limit
      BY <1>1, <1>2
    <3>2. PICK j \in 1..Len(blocks) :
             /\ ContainsPosition(blocks[j], p)
             /\ GetUint8(p) = blocks[j].memory[p - blocks[j].begin + 1]
      BY <1>1, <3>1 DEF ReadsHeld, Holds
    <3>3. j <= i
      <4> SUFFICES ASSUME i < j PROVE FALSE
        BY <2>1, <2>3, <3>2
      <4>1. End(blocks[i]) <= blocks[j].begin
        BY <2>1, <3>2 DEF Placed, Shape, Ordered
      <4>2. position < End(blocks[i]) /\ blocks[j].begin <= p
        BY <2>1, <3>2 DEF ContainsPosition
      <4>3. End(blocks[i]) \in Nat /\ blocks[j].begin \in Nat
        <5>1. blocks[j] \in Block
          BY <3>2 DEF Placed, Shape
        <5>2. QED BY <2>3, <5>1, BlockFields
      <4>4. QED BY <1>1, <3>1, <4>1, <4>2, <4>3
    <3>4. Holds(blocks', p, GetUint8(p))
      <4>1. CASE j = i
        <5>1. ContainsPosition(blocks'[i], p)
          BY <2>3, <3>1, <3>2, <4>1 DEF ContainsPosition
        <5>2. QED BY <2>1, <2>3, <2>4, <3>2, <4>1, <5>1 DEF Holds
      <4>2. CASE j # i
        <5>1. j \in 1..(i - 1) /\ j \in 1..i
          BY <2>1, <3>2, <3>3, <4>2
        <5>2. QED BY <2>3, <3>2, <5>1 DEF Holds
      <4>3. QED BY <4>1, <4>2
    <3>5. GetUint8(p)' = GetUint8(p)
      BY <3>1, <3>4, ReadsHeldNext DEF ReadsHeld
    <3>6. p \in 0..(Limit - 1)
      BY <1>1, <3>1
    <3>7. QED BY <3>5, <3>6 DEF Content
  <2>7. QED BY <2>5, <2>6 DEF Content
<1>3. CASE ~(position < Limit)
  <2>1. blocks' = blocks
    BY <1>3 DEF Finalize
  <2>2. Limit' = Limit /\ Content' = Content
    BY <2>1, BlocksSame, SameContent DEF Placed
  <2>3. position = Limit
    <3>1. position <= Limit
      BY CursorBeforeLimit
    <3>2. QED BY <1>1, <1>3, <3>1
  <2>4. QED BY <2>2, <2>3 DEF Content
<1>4. QED BY <1>2, <1>3

LEMMA FlatInitial == Init => Flat!FlatInit
<1> SUFFICES ASSUME Init PROVE Flat!FlatInit
  OBVIOUS
<1>1. IInv
  BY InitInv
<1>2. ReadsHeld /\ Limit \in Nat
  BY <1>1, ReadsWhatIsHeld DEF IInv, ReadsHeld
<1>3. CASE blocks = <<NewBlock(0, HeadCapacity)>>
  <2>1. Limit = 0
    <3>1. NewBlock(0, HeadCapacity).begin = 0 /\ NewBlock(0, HeadCapacity).limit = 0
      BY SizeAssumption, NewBlockType
    <3>2. QED BY <1>3, <3>1 DEF Limit, TailBlock, End
  <2>2. 0..(0 - 1) = {}
    OBVIOUS
  <2>3. Limit \in 0..MaxLimit /\ Content \in [0..(Limit - 1) -> Byte]
    BY <2>1, <2>2, SizeAssumption DEF Content
  <2>4. QED BY <2>3 DEF Init, Flat!FlatInit
<1>4. ASSUME NEW array \in Arrays(MaxArray) \ {<<>>},
             Len(array) <= MaxLimit, blocks = <<WrappedBlock(array)>>
      PROVE  Flat!FlatInit
  <2>1. array \in Seq(Byte)
    BY SizeAssumption DEF Arrays
  <2>2. Limit = Len(array) /\ Len(array) \in Nat
    BY <1>4, <2>1 DEF Limit, TailBlock, End, WrappedBlock
  <2>3. ASSUME NEW p \in 0..(Limit - 1) PROVE GetUint8(p) \in Byte
    <3>1. p \in Nat /\ p < Limit
      BY <1>2
    <3>2. PICK i \in 1..Len(blocks) :
             GetUint8(p) = blocks[i].memory[p - blocks[i].begin + 1]
      BY <1>2, <3>1 DEF ReadsHeld, Holds
    <3>3. blocks[i] = WrappedBlock(array)
      BY <1>4, <3>2
    <3>4. GetUint8(p) = array[p + 1]
      BY <3>1, <3>2, <3>3 DEF WrappedBlock
    <3>5. QED BY <2>1, <2>2, <3>1, <3>4
  <2>4. Limit \in 0..MaxLimit /\ Content \in [0..(Limit - 1) -> Byte]
    BY <1>4, <2>2, <2>3, SizeAssumption DEF Content
  <2>5. QED BY <2>4 DEF Init, Flat!FlatInit
<1>5. QED BY <1>3, <1>4 DEF Init

LEMMA FlatStep == IInv /\ [CodecNext]_netVars => [Flat!FlatNext]_(Flat!flatVars)
<1> SUFFICES ASSUME IInv, [CodecNext]_netVars
             PROVE  [Flat!FlatNext]_(Flat!flatVars)
  OBVIOUS
<1> USE DEF Flat!flatVars
<1>1. Placed /\ Puts /\ Shape(blocks') /\ Shape(blocks)
  BY IInvParts, StepInv DEF IInv
<1>2. position \in Nat /\ Limit \in Nat
  BY <1>1, SizeAssumption, ReadsWhatIsHeld DEF Puts, ReadsHeld
<1>3. ASSUME NEW array \in Seq(Byte), NEW bs, blocks' = bs, SameBytes(bs),
             pending = <<>>, pending' = array,
             position + Len(array) <= MaxLimit,
             position' = position, finalized' = finalized
      PROVE  Flat!FlatNext
  <2>1. Limit' = Limit /\ Content' = Content
    BY <1>1, <1>3, SameContent
  <2>2. QED BY <1>3, <2>1 DEF Flat!FlatNext, Flat!Request
<1>4. mode = "idle" => pending = <<>>
  BY <1>1 DEF Puts, PendingMode
<1>5. ASSUME NEW b \in Byte, PutUint8(b) PROVE Flat!FlatNext
  <2>1. <<b>> \in Seq(Byte) /\ Len(<<b>>) = 1
    OBVIOUS
  <2>2. position + 1 <= MaxLimit
    BY <1>2, <1>5, SizeAssumption DEF PutUint8
  <2>3. SameBytes(blocks)
    BY <1>1, BlocksSame
  <2>4. QED BY <1>3, <1>4, <1>5, <2>1, <2>2, <2>3 DEF PutUint8, Idle
<1>6. ASSUME ~finalized, NEW n \in IntSizes, NEW bytes \in [1..n -> Byte],
             WithinOrAppended(n), PutInteger(bytes)
      PROVE  Flat!FlatNext
  <2>1. bytes \in Seq(Byte) /\ Len(bytes) = n
    BY SizeAssumption
  <2>2. PICK c \in BlockCapacity : blocks' = EnsuredBlocks(n, c)
    BY <1>6, <2>1 DEF PutInteger
  <2>3. SameBytes(EnsuredBlocks(n, c))
    BY <1>1, <1>6, EnsuredSame
  <2>4. QED BY <1>3, <1>4, <1>6, <2>1, <2>2, <2>3 DEF PutInteger, Idle
<1>7. ASSUME NEW array \in Arrays(MaxArray), PutArray(array) PROVE Flat!FlatNext
  <2>1. array \in Seq(Byte)
    BY SizeAssumption DEF Arrays
  <2>2. PICK c \in BlockCapacity : blocks' = AllocatedBlocks(c)
    BY <1>7 DEF PutArray
  <2>3. SameBytes(AllocatedBlocks(c))
    BY <1>1, AllocatedSame
  <2>4. QED BY <1>3, <1>4, <1>7, <2>1, <2>2, <2>3 DEF PutArray, Idle
<1>8. ASSUME NEW bs, NEW i, NEW n \in 1..Len(pending),
             Shape(bs), Ready(bs, i), SameBytes(bs),
             position + n <= bs[i].begin + bs[i].capacity,
             StoredAt(bs, i, n)
      PROVE  Flat!FlatNext
  <2>1. StoresFirst(n)
    BY <1>1, <1>8, StoredContent
  <2>2. /\ pending' = SubSeq(pending, n + 1, Len(pending))
        /\ position' = position + n /\ finalized' = finalized
    BY <1>8 DEF StoredAt
  <2>3. Flat!Store(n)
    BY <2>1, <2>2 DEF Flat!Store, StoresFirst
  <2>4. QED BY <2>3 DEF Flat!FlatNext
<1>9. CASE StoreByte
  <2>1. PICK c \in BlockCapacity : StoredAt(AllocatedBlocks(c), AllocatedCurrent, 1)
    BY <1>9 DEF StoreByte
  <2>2. /\ Shape(AllocatedBlocks(c)) /\ Ready(AllocatedBlocks(c), AllocatedCurrent)
        /\ SameBytes(AllocatedBlocks(c))
    BY <1>1, <1>2, AllocatedReady, AllocatedSame DEF Placed
  <2>3. AllocatedBlocks(c)[AllocatedCurrent] \in Block
    BY <2>2 DEF Shape, Ready
  <2>4. position + 1 <= AllocatedBlocks(c)[AllocatedCurrent].begin
                       + AllocatedBlocks(c)[AllocatedCurrent].capacity
    BY <1>2, <2>2, <2>3, BlockFields DEF Ready
  <2>5. 1 \in 1..Len(pending)
    BY <1>1, <1>9 DEF StoreByte, Puts, PendingMode
  <2>6. QED BY <1>8, <2>1, <2>2, <2>4, <2>5
<1>10. CASE NextArrayBlock
  <2>1. PICK c \in BlockCapacity : blocks' = AllocatedBlocks(c)
    BY <1>10 DEF NextArrayBlock
  <2>2. Limit' = Limit /\ Content' = Content
    BY <1>1, <2>1, AllocatedSame, SameContent
  <2>3. QED BY <1>10, <2>2 DEF NextArrayBlock
<1>11. CASE CopyChunk
  <2> DEFINE n == IF Remaining > Len(pending) THEN Len(pending) ELSE Remaining
  <2>1. Len(pending) \in Nat /\ Len(pending) > 0
    BY <1>1, <1>11 DEF CopyChunk, Puts, PendingMode
  <2>2. Remaining \in Nat /\ Remaining # 0
    BY <1>1, <1>2, <1>11, CursorFacts DEF CopyChunk, AtBlockEnd, Placed
  <2>3. n \in 1..Len(pending) /\ n <= Remaining
    BY <2>1, <2>2
  <2>4. StoredAt(blocks, current, n)
    BY <1>11 DEF CopyChunk
  <2> HIDE DEF n
  <2>5. blocks[current].begin \in Nat /\ blocks[current].capacity \in Nat
    BY <1>1, <1>2, CursorFacts DEF Placed
  <2>6. position + n <= blocks[current].begin + blocks[current].capacity
        /\ position < blocks[current].begin + blocks[current].capacity
    <3>1. Remaining = blocks[current].begin + blocks[current].capacity - position
      BY DEF Remaining
    <3>2. QED BY ONLY SMTT(30), <1>2, <2>1, <2>2, <2>3, <2>5, <3>1
  <2>7. Ready(blocks, current) /\ SameBytes(blocks)
    BY <1>1, <2>6, BlocksSame DEF Ready, Placed, CursorInBlock
  <2>8. QED BY <1>1, <1>8, <2>3, <2>4, <2>6, <2>7
<1>12. ASSUME NEW p \in 0..MaxLimit, SetPosition(p) PROVE Flat!FlatNext
  <2>1. Limit' = Limit /\ Content' = Content
    BY <1>1, <1>12, BlocksSame, SameContent DEF SetPosition
  <2>2. position' \in 0..Limit
    BY <1>2, <1>12, SizeAssumption DEF SetPosition
  <2>3. QED BY <1>4, <1>12, <2>1, <2>2 DEF SetPosition, Idle, Flat!FlatNext, Flat!SetCursor
<1>13. CASE Finalize
  <2>1. Limit' = position /\ Content' = [p \in 0..(position - 1) |-> Content[p]]
    BY <1>1, <1>13, FinalizedContent
  <2>2. QED BY <1>4, <1>13, <2>1 DEF Finalize, Idle, Flat!FlatNext, Flat!Truncate
<1>14. CASE UNCHANGED netVars
  <2>1. Limit' = Limit /\ Content' = Content
    BY <1>1, <1>14, BlocksSame, SameContent DEF netVars
  <2>2. QED BY <1>14, <2>1 DEF netVars
<1>15. QED BY <1>5, <1>6, <1>7, <1>9, <1>10, <1>11, <1>12, <1>13, <1>14
           DEF CodecNext, CodecPut, Loop

(* The scatter/gather list is a linear array: for every block size the     *)
(* allocator grants, every sequence of puts, SetPosition and Finalize does *)
(* to the bytes what the header says, with no byte moved, lost or doubled  *)
(* where a put is split over blocks.                                       *)
THEOREM LinearArray == CodecSpec => ImplementsFlatBuffer
<1>1. QED BY FlatInitial, FlatStep, Invariance, PTL
          DEF CodecSpec, ImplementsFlatBuffer, Flat!FlatSpec

----------------------------------------------------------------------------
(* Loops over the blocks *)

(* Induction on a number: a set that holds 0, and with every number the    *)
(* next one, holds all.                                                    *)
LEMMA Induction ==
    ASSUME NEW S, 0 \in S, \A n \in Nat : n \in S => n + 1 \in S
    PROVE  Nat \subseteq S
<1> DEFINE T == Nat \ S
<1> SUFFICES ASSUME T # {} PROVE FALSE
  OBVIOUS
<1>1. PICK m \in T : \A k \in T : <<k, m>> \notin OpToRel(<, Nat)
  BY WFMin, NatLessThanWellFounded, Zenon
<1>2. \A k \in T : ~(k < m)
  BY <1>1 DEF OpToRel
<1>3. m \in Nat /\ m # 0 /\ m - 1 \in Nat
  OBVIOUS
<1>4. m - 1 \in S
  BY <1>2, <1>3
<1>5. QED BY <1>3, <1>4

(* The bytes of positions 0 to k - 1.                                      *)
Upto(k) == [p \in 1..k |-> GetUint8(p - 1)]

StoredByte == Byte \cup {Unwritten}

LEMMA UptoType ==
    ASSUME Shape(blocks), NEW k \in 0..Limit
    PROVE  Upto(k) \in Seq(StoredByte) /\ Len(Upto(k)) = k
<1>1. Limit \in Nat /\ k \in Nat /\ ReadsHeld
  BY ReadsWhatIsHeld DEF ReadsHeld
<1>2. ASSUME NEW p \in 1..k PROVE GetUint8(p - 1) \in StoredByte
  <2>1. p - 1 \in Nat /\ p - 1 < Limit
    BY <1>1
  <2>2. PICK i \in 1..Len(blocks) :
           /\ ContainsPosition(blocks[i], p - 1)
           /\ GetUint8(p - 1) = blocks[i].memory[(p - 1) - blocks[i].begin + 1]
    BY <1>1, <2>1 DEF ReadsHeld, Holds
  <2> DEFINE begin == blocks[i].begin
             limit == blocks[i].limit
             memory == blocks[i].memory
  <2>3. /\ begin \in Nat /\ limit \in Nat /\ memory \in Seq(StoredByte)
        /\ Len(memory) \in Nat /\ limit <= Len(memory)
        /\ begin <= p - 1 /\ p - 1 < begin + limit
    <3>1. blocks[i] \in Block
      BY DEF Shape
    <3>2. /\ begin \in Nat /\ limit \in Nat /\ blocks[i].capacity \in Nat
          /\ memory \in Seq(StoredByte) /\ Len(memory) \in Nat
      BY <3>1, BlockFields DEF StoredByte
    <3>3. limit <= blocks[i].capacity /\ blocks[i].capacity <= Len(memory)
      BY DEF Shape, Tiles
    <3>4. QED BY <2>2, <3>2, <3>3 DEF ContainsPosition, End
  <2>4. GetUint8(p - 1) = memory[(p - 1) - begin + 1]
    BY <2>2
  <2> HIDE DEF begin, limit, memory
  <2>5. (p - 1) - begin + 1 \in 1..Len(memory)
    BY ONLY <1>1, <2>1, <2>3
  <2>6. QED BY <2>3, <2>4, <2>5
<1>3. QED BY <1>1, <1>2 DEF Upto

(* The beginning of the used part of block i continues the bytes that lie  *)
(* before it.                                                              *)
LEMMA UptoBlock ==
    ASSUME Shape(blocks), NEW i \in 1..Len(blocks), NEW m \in 0..blocks[i].limit
    PROVE  /\ blocks[i].begin + m <= Limit
           /\ Upto(blocks[i].begin) \o SubSeq(blocks[i].memory, 1, m)
                = Upto(blocks[i].begin + m)
<1> DEFINE begin == blocks[i].begin
           limit == blocks[i].limit
           memory == blocks[i].memory
<1>1. /\ blocks[i] \in Block /\ begin \in Nat /\ limit \in Nat
      /\ memory \in Seq(Byte \cup {Unwritten}) /\ Len(memory) \in Nat
      /\ limit <= Len(memory)
  <2>1. blocks[i] \in Block
    BY DEF Shape
  <2>2. /\ begin \in Nat /\ limit \in Nat /\ blocks[i].capacity \in Nat
        /\ memory \in Seq(Byte \cup {Unwritten}) /\ Len(memory) \in Nat
    BY <2>1, BlockFields
  <2>3. limit <= blocks[i].capacity /\ blocks[i].capacity <= Len(memory)
    BY DEF Shape, Tiles
  <2>4. QED BY <2>1, <2>2, <2>3
<1>2. \A p \in Nat : begin <= p /\ p < begin + limit =>
         /\ GetUint8(p) = memory[p - begin + 1]
  <2> SUFFICES ASSUME NEW p \in Nat, begin <= p, p < begin + limit
               PROVE  GetUint8(p) = memory[p - begin + 1]
    OBVIOUS
  <2>1. Holds(blocks, p, memory[p - begin + 1])
    BY DEF Holds, ContainsPosition, End
  <2>2. QED BY <2>1, ReadsWhatIsHeld DEF ReadsHeld
<1> HIDE DEF begin, limit, memory
<1>3. m \in Nat /\ m <= limit
  BY <1>1 DEF limit
<1>4. Limit \in Nat /\ begin + m <= Limit
  <2>1. Limit \in Nat
    BY ReadsWhatIsHeld DEF ReadsHeld
  <2>2. begin + limit <= Limit
    BY EndBeforeLimit DEF End, begin, limit
  <2>3. QED BY <1>1, <1>3, <2>1, <2>2
<1> DEFINE left == Upto(begin)
           right == SubSeq(memory, 1, m)
<1>5. /\ left \in Seq(StoredByte) /\ Len(left) = begin
      /\ \A p \in 1..begin : left[p] = GetUint8(p - 1)
  BY <1>1, <1>3, <1>4, UptoType DEF Upto
<1>6. /\ right \in Seq(StoredByte) /\ Len(right) = m
      /\ \A o \in 1..m : right[o] = memory[o]
  BY <1>1, <1>3 DEF StoredByte
<1> HIDE DEF left, right
<1>7. /\ left \o right \in Seq(StoredByte) /\ Len(left \o right) = begin + m
      /\ \A p \in 1..(begin + m) :
            (left \o right)[p] = IF p <= begin THEN left[p] ELSE right[p - begin]
  BY <1>5, <1>6, ConcatProperties
<1> DEFINE joined == left \o right
<1> HIDE DEF joined
<1>8. ASSUME NEW p \in 1..(begin + m)
      PROVE  joined[p] = GetUint8(p - 1)
  <2>1. CASE p <= begin
    <3>1. p \in 1..begin
      BY <1>1, <2>1
    <3>2. QED BY <1>5, <1>7, <2>1, <3>1 DEF joined
  <2>2. CASE ~(p <= begin)
    <3>1. p - begin \in 1..m /\ p - 1 \in Nat /\ begin <= p - 1
          /\ p - 1 < begin + limit /\ (p - 1) - begin + 1 = p - begin
      BY <1>1, <1>3, <2>2
    <3>2. joined[p] = right[p - begin]
      BY <1>7, <2>2 DEF joined
    <3>3. QED BY <1>2, <1>6, <3>1, <3>2
  <2>3. QED BY <2>1, <2>2
<1>9. joined = Upto(begin + m)
  <2>1. DOMAIN joined = 1..(begin + m) /\ joined = [p \in DOMAIN joined |-> joined[p]]
    BY <1>7, LenProperties DEF joined
  <2>2. QED BY <1>8, <2>1 DEF Upto
<1>10. QED BY <1>4, <1>9 DEF begin, memory, left, right, joined

(* Before the first block the loop has copied nothing, after block i it    *)
(* has copied the bytes up to its end.                                     *)
EndsAt(i) == IF i = 0 THEN 0 ELSE End(blocks[i])

LEMMA EndsFollow ==
    ASSUME Shape(blocks)
    PROVE  /\ Len(blocks) \in Nat /\ Len(blocks) >= 1
           /\ EndsAt(0) = 0 /\ EndsAt(Len(blocks)) = Limit
           /\ \A i \in 0..Len(blocks) : EndsAt(i) \in Nat /\ EndsAt(i) <= Limit
           /\ \A i \in 1..Len(blocks) :
                 /\ i - 1 \in 0..Len(blocks)
                 /\ EndsAt(i - 1) = blocks[i].begin
                 /\ EndsAt(i) = EndsAt(i - 1) + blocks[i].limit
                 /\ blocks[i].limit \in Nat
<1>1. Len(blocks) \in Nat /\ Len(blocks) >= 1 /\ Limit \in Nat
      /\ \A i \in 1..Len(blocks) : blocks[i] \in Block
  BY ReadsWhatIsHeld DEF Shape, ReadsHeld
<1>2. ASSUME NEW i \in 1..Len(blocks)
      PROVE  /\ End(blocks[i]) \in Nat /\ End(blocks[i]) <= Limit
             /\ blocks[i].limit \in Nat
             /\ i - 1 \in 0..Len(blocks)
             /\ EndsAt(i - 1) = blocks[i].begin
  <2>1. End(blocks[i]) \in Nat /\ End(blocks[i]) <= Limit /\ blocks[i].limit \in Nat
    BY <1>1, BlockFields, EndBeforeLimit
  <2>2. CASE i = 1
    BY <1>1, <2>1, <2>2 DEF EndsAt, Shape, Tiles
  <2>3. CASE i # 1
    <3>1. i - 1 \in 1..(Len(blocks) - 1) /\ i - 1 # 0 /\ (i - 1) + 1 = i
      BY <1>1, <2>3
    <3>2. blocks[(i - 1) + 1].begin = End(blocks[i - 1])
      BY <3>1 DEF Shape, Tiles
    <3>3. QED BY <1>1, <2>1, <3>1, <3>2 DEF EndsAt
  <2>4. QED BY <2>2, <2>3
<1>3. \A i \in 1..Len(blocks) : i # 0 /\ EndsAt(i) = End(blocks[i])
  BY <1>1 DEF EndsAt
<1>4. \A i \in 0..Len(blocks) : EndsAt(i) \in Nat /\ EndsAt(i) <= Limit
  BY <1>1, <1>2 DEF EndsAt
<1>5. QED BY <1>1, <1>2, <1>3, <1>4 DEF End, Limit, TailBlock, EndsAt

(* CreateParcBuffer returns the bytes that GetUint8 reads, in order.       *)
LEMMA Linearized ==
    ASSUME Shape(blocks)
    PROVE  CreateParcBuffer = Upto(Limit)
<1> DEFINE n == Len(blocks)
           Step(f) == f = [i \in 0..n |->
                             IF i = 0 THEN [length |-> Limit, output |-> <<>>]
                             ELSE Copied(f[i - 1], blocks[i])]
           put == CHOOSE f : Step(f)
           At(i) == [length |-> Limit - EndsAt(i), output |-> Upto(EndsAt(i))]
           copied == [i \in 0..n |-> At(i)]
<1>1. Limit \in Nat /\ n \in Nat
  BY EndsFollow
<1>2. At(0) = [length |-> Limit, output |-> <<>>]
  <2>1. Upto(0) = <<>>
    BY <1>1, UptoType
  <2>2. QED BY <1>1, <2>1, EndsFollow
<1>3. ASSUME NEW i \in 1..n PROVE At(i) = Copied(At(i - 1), blocks[i])
  <2>1. /\ EndsAt(i - 1) = blocks[i].begin /\ EndsAt(i - 1) \in Nat
        /\ EndsAt(i) = EndsAt(i - 1) + blocks[i].limit /\ EndsAt(i) <= Limit
        /\ blocks[i].limit \in Nat
    BY EndsFollow
  <2> DEFINE length == Limit - EndsAt(i - 1)
             available == IF length > blocks[i].limit THEN blocks[i].limit ELSE length
  <2>2. available = blocks[i].limit /\ length - available = Limit - EndsAt(i)
    BY <1>1, <2>1
  <2>3. Upto(EndsAt(i - 1)) \o SubSeq(blocks[i].memory, 1, blocks[i].limit)
          = Upto(EndsAt(i))
    <3>1. blocks[i].limit \in 0..blocks[i].limit
      BY <2>1
    <3>2. Upto(blocks[i].begin) \o SubSeq(blocks[i].memory, 1, blocks[i].limit)
            = Upto(blocks[i].begin + blocks[i].limit)
      BY <3>1, UptoBlock
    <3>3. QED BY <2>1, <3>2
  <2>4. Copied(At(i - 1), blocks[i]) =
          [length |-> length - available,
           output |-> Upto(EndsAt(i - 1)) \o SubSeq(blocks[i].memory, 1, available)]
    BY DEF Copied
  <2> HIDE DEF available, length
  <2>5. QED BY <2>2, <2>3, <2>4
<1>4. CreateParcBuffer = put[n].output
  BY DEF CreateParcBuffer
<1> HIDE DEF At
<1>5. Step(copied)
  <2>1. \A i \in 0..n : copied[i] = IF i = 0 THEN [length |-> Limit, output |-> <<>>]
                                    ELSE Copied(copied[i - 1], blocks[i])
    <3> SUFFICES ASSUME NEW i \in 0..n
                 PROVE  copied[i] = IF i = 0 THEN [length |-> Limit, output |-> <<>>]
                                    ELSE Copied(copied[i - 1], blocks[i])
      OBVIOUS
    <3>1. CASE i = 0
      BY <1>2, <3>1
    <3>2. CASE i # 0
      <4>1. i \in 1..n /\ i - 1 \in 0..n
        BY <1>1, <3>2
      <4>2. QED BY <1>3, <3>2, <4>1
    <3>3. QED BY <3>1, <3>2
  <2>2. QED BY <2>1
<1>6. Step(put)
  BY <1>5
<1> HIDE DEF put
<1>7. \A i \in Nat : i <= n => put[i] = At(i)
  <2> DEFINE S == {i \in Nat : i <= n => put[i] = At(i)}
  <2>1. 0 \in S
    BY <1>1, <1>2, <1>6
  <2>2. ASSUME NEW i \in Nat, i \in S PROVE i + 1 \in S
    <3> SUFFICES ASSUME i + 1 <= n PROVE put[i + 1] = At(i + 1)
      OBVIOUS
    <3>1. i + 1 \in 1..n /\ i + 1 \in 0..n /\ (i + 1) - 1 = i /\ i <= n /\ i + 1 # 0
      BY <1>1
    <3>2. put[i + 1] = Copied(put[i], blocks[i + 1])
      BY <1>6, <3>1
    <3>3. At(i + 1) = Copied(At(i), blocks[i + 1])
      BY <1>3, <3>1
    <3>4. QED BY <2>2, <3>1, <3>2, <3>3
  <2>3. QED BY <2>1, <2>2, Induction
<1>8. put[n].output = Upto(Limit)
  <2>1. put[n] = At(n) /\ EndsAt(n) = Limit
    BY <1>1, <1>7, EndsFollow
  <2>2. At(n).output = Upto(EndsAt(n))
    BY DEF At
  <2>3. QED BY <2>1, <2>2
<1>9. QED BY <1>4, <1>8

(* A region of the head block is hashed when the loop is at the head; the  *)
(* blocks behind it add nothing and let nothing overrun.                   *)
LEMMA SignedInHead ==
    ASSUME Shape(blocks), NEW end \in 0..blocks[1].limit, NEW start \in 0..end
    PROVE  SignsExactly(start, end)
<1> DEFINE n == Len(blocks)
           head == blocks[1]
           Step(f) == f = [i \in 0..n |->
                             IF i = 0 THEN [position |-> start, hashed |-> <<>>,
                                            stopped |-> FALSE, overrun |-> FALSE]
                             ELSE Signed(f[i - 1], blocks[i], end)]
           hash == CHOOSE f : Step(f)
           region == SubSeq(head.memory, start + 1, end)
           Passed(i) == start >= End(head) \/ \E j \in 2..i : end >= End(blocks[j])
           With(stopped) == [position |-> end, hashed |-> region,
                             stopped |-> stopped, overrun |-> FALSE]
           First == [position |-> start, hashed |-> <<>>,
                     stopped |-> FALSE, overrun |-> FALSE]
           At(i) == IF i = 0 THEN First
                    ELSE IF Passed(i) THEN With(TRUE) ELSE With(FALSE)
           hashes == [i \in 0..n |-> At(i)]
<1>1. /\ n \in Nat /\ n >= 1 /\ head \in Block /\ head.begin = 0
      /\ head.limit \in Nat /\ End(head) = head.limit /\ Limit \in Nat
      /\ head.memory \in Seq(StoredByte) /\ Len(head.memory) \in Nat
      /\ head.limit <= Len(head.memory) /\ head.limit <= Limit
  <2>1. n \in Nat /\ n >= 1 /\ Limit \in Nat /\ head \in Block /\ 1 \in 1..n
    BY EndsFollow DEF Shape
  <2>2. head.limit \in Nat /\ head.memory \in Seq(StoredByte) /\ Len(head.memory) \in Nat
        /\ head.capacity \in Nat
    BY <2>1, BlockFields DEF StoredByte
  <2>3. head.begin = 0 /\ head.limit <= head.capacity
        /\ head.capacity <= Len(head.memory)
    BY <2>1 DEF Shape, Tiles
  <2>4. End(head) <= Limit
    BY <2>1, EndBeforeLimit
  <2>5. QED BY <2>1, <2>2, <2>3, <2>4 DEF End
<1>2. start \in Nat /\ end \in Nat /\ start <= end /\ end <= head.limit
  BY <1>1
<1>3. region \in Seq(StoredByte)
  BY <1>1, <1>2
<1>4. At(1) = Signed(At(0), blocks[1], end)
  <2>1. At(0) = First
    OBVIOUS
  <2>2. Passed(1) <=> start >= End(head)
    OBVIOUS
  <2>3. CASE start >= End(head)
    <3>1. start = end /\ region = <<>>
      BY <1>1, <1>2, <2>3
    <3>2. Signed(First, head, end) = [First EXCEPT !.stopped = TRUE]
      BY <2>3 DEF Signed
    <3> HIDE DEF region
    <3> DEFINE yes == TRUE
               no == FALSE
    <3> HIDE DEF yes, no
    <3>3. [First EXCEPT !.stopped = TRUE] = With(TRUE)
      <4>1. [[position |-> start, hashed |-> <<>>, stopped |-> no, overrun |-> no]
               EXCEPT !.stopped = yes]
              = [position |-> start, hashed |-> <<>>, stopped |-> yes, overrun |-> no]
        OBVIOUS
      <4>2. QED BY <3>1, <4>1 DEF yes, no
    <3>4. QED BY <2>1, <2>2, <2>3, <3>2, <3>3
  <2>4. CASE ~(start >= End(head))
    <3>1. Roof(head, end) = end /\ ContainsPosition(head, start) /\ ~(end < start)
      BY <1>1, <1>2, <2>4 DEF Roof, ContainsPosition
    <3>2. Signed(First, head, end) =
            [First EXCEPT !.position = end,
                          !.hashed = @ \o SubSeq(head.memory, start - 0 + 1, end - 0)]
      BY <1>1, <2>4, <3>1 DEF Signed
    <3>3. SubSeq(head.memory, start - 0 + 1, end - 0) = region /\ <<>> \o region = region
      BY <1>2, <1>3, ConcatEmptySeq
    <3> HIDE DEF region
    <3>4. Signed(First, head, end) = With(FALSE)
      BY <3>2, <3>3
    <3>5. QED BY <2>1, <2>2, <2>4, <3>4
  <2>5. QED BY <2>3, <2>4
<1>5. ASSUME NEW i \in 2..n PROVE At(i) = Signed(At(i - 1), blocks[i], end)
  <2>1. i # 0 /\ i - 1 # 0 /\ i \in 1..n /\ blocks[i] \in Block /\ i \in Nat
    BY <1>1 DEF Shape
  <2>2. Passed(i) <=> Passed(i - 1) \/ end >= End(blocks[i])
    <3>1. 2..i = (2..(i - 1)) \cup {i}
      BY <2>1
    <3>2. QED BY <3>1
  <2>3. /\ blocks[i].begin \in Nat /\ End(blocks[i]) \in Nat
        /\ blocks[i].memory \in Seq(StoredByte)
    BY <2>1, BlockFields DEF StoredByte
  <2>4. /\ At(i - 1) = IF Passed(i - 1) THEN With(TRUE) ELSE With(FALSE)
        /\ At(i) = IF Passed(i) THEN With(TRUE) ELSE With(FALSE)
    BY <2>1
  <2> HIDE DEF region, Passed, At
  <2>5. CASE Passed(i - 1)
    <3>1. Signed(With(TRUE), blocks[i], end) = With(TRUE)
      BY DEF Signed
    <3>2. QED BY <2>2, <2>4, <2>5, <3>1
  <2>6. CASE ~Passed(i - 1) /\ end >= End(blocks[i])
    <3>1. Signed(With(FALSE), blocks[i], end) = With(TRUE)
      BY <2>6 DEF Signed
    <3>2. QED BY <2>2, <2>4, <2>6, <3>1
  <2>7. CASE ~Passed(i - 1) /\ ~(end >= End(blocks[i]))
    <3>1. At(i) = With(FALSE) /\ At(i - 1) = With(FALSE)
      BY <2>2, <2>4, <2>7
    <3>2. CASE ~ContainsPosition(blocks[i], end)
      BY <2>7, <3>1, <3>2 DEF Signed
    <3>3. CASE ContainsPosition(blocks[i], end)
      <4>1. Roof(blocks[i], end) = end /\ ~(end < end)
        BY <1>2, <2>3, <2>7 DEF Roof
      <4>2. Signed(With(FALSE), blocks[i], end) =
              [With(FALSE) EXCEPT !.position = end,
                          !.hashed = @ \o SubSeq(blocks[i].memory,
                              end - blocks[i].begin + 1, end - blocks[i].begin)]
        BY <2>7, <3>3, <4>1 DEF Signed
      <4>3. SubSeq(blocks[i].memory, end - blocks[i].begin + 1,
                   end - blocks[i].begin) = <<>>
        BY <1>2, <2>3
      <4>4. region \o <<>> = region
        BY <1>3, ConcatEmptySeq
      <4>5. QED BY <3>1, <4>2, <4>3, <4>4
    <3>4. QED BY <3>2, <3>3
  <2>8. QED BY <2>5, <2>6, <2>7
<1>6. SignedBytes(start, end) = hash[n]
  BY DEF SignedBytes
<1>7. At(0) = First
  OBVIOUS
<1> HIDE DEF At
<1>8. ASSUME NEW i \in 1..n PROVE At(i) = Signed(At(i - 1), blocks[i], end)
  <2>1. CASE i = 1
    BY <1>4, <2>1
  <2>2. CASE i # 1
    <3>1. i \in 2..n
      BY <1>1, <2>2
    <3>2. QED BY <1>5, <3>1
  <2>3. QED BY <2>1, <2>2
<1>9. Step(hashes)
  <2>1. ASSUME NEW i \in 0..n
        PROVE  hashes[i] = IF i = 0 THEN First ELSE Signed(hashes[i - 1], blocks[i], end)
    <3>1. CASE i = 0
      BY <1>7, <3>1
    <3>2. CASE i # 0
      <4>1. i \in 1..n /\ i - 1 \in 0..n
        BY <1>1, <3>2
      <4>2. QED BY <1>8, <3>2, <4>1
    <3>3. QED BY <3>1, <3>2
  <2>2. QED BY <2>1
<1>10. Step(hash)
  BY <1>9
<1> HIDE DEF hash
<1>11. \A i \in Nat : i <= n => hash[i] = At(i)
  <2> DEFINE S == {i \in Nat : i <= n => hash[i] = At(i)}
  <2>1. 0 \in S
    BY <1>1, <1>7, <1>10
  <2>2. ASSUME NEW i \in Nat, i \in S PROVE i + 1 \in S
    <3> SUFFICES ASSUME i + 1 <= n PROVE hash[i + 1] = At(i + 1)
      OBVIOUS
    <3>1. i + 1 \in 1..n /\ i + 1 \in 0..n /\ (i + 1) - 1 = i /\ i <= n /\ i + 1 # 0
      BY <1>1
    <3>2. hash[i + 1] = Signed(hash[i], blocks[i + 1], end)
      BY <1>10, <3>1
    <3>3. At(i + 1) = Signed(At(i), blocks[i + 1], end)
      BY <1>8, <3>1
    <3>4. QED BY <2>2, <3>1, <3>2, <3>3
  <2>3. QED BY <2>1, <2>2, Induction
<1>12. ~SignedBytes(start, end).overrun /\ SignedBytes(start, end).hashed = region
  <2>1. hash[n] = At(n) /\ n # 0
    BY <1>1, <1>11
  <2>2. QED BY <1>6, <2>1 DEF At
<1>13. SubSeq(Upto(Limit), start + 1, end) = region
  <2>1. ASSUME NEW o \in 1..(end - start)
        PROVE  Upto(Limit)[(start + 1) + o - 1] = head.memory[(start + 1) + o - 1]
    <3>0. /\ start \in Nat /\ end \in Nat /\ Limit \in Nat /\ head.limit \in Nat
          /\ end <= Limit /\ end <= head.limit
      BY <1>1, <1>2
    <3>1. /\ start + o \in 1..Limit /\ (start + 1) + o - 1 = start + o
          /\ start + o - 1 \in Nat /\ start + o - 1 < head.limit
          /\ (start + o - 1) - 0 + 1 = start + o
      <4> HIDE DEF head
      <4> QED BY ONLY <3>0, o \in 1..(end - start)
    <3>2. Holds(blocks, start + o - 1, head.memory[(start + o - 1) - head.begin + 1])
      BY <1>1, <3>1 DEF Holds, ContainsPosition
    <3>3. head.memory[(start + o - 1) - head.begin + 1] = GetUint8(start + o - 1)
      BY <3>1, <3>2, ReadsWhatIsHeld DEF ReadsHeld
    <3>4. QED BY <1>1, <3>1, <3>3 DEF Upto
  <2>2. QED BY <1>1, <1>2, <2>1
<1>14. QED BY <1>12, <1>13, Linearized DEF SignsExactly

(* What ComputeSignature hashes for a region that lies in the head block   *)
(* is the bytes of the region, for every size of the head and whatever     *)
(* blocks follow it.                                                       *)
THEOREM HeadSignaturesExact == CodecSpec => []SignatureInHead
<1>1. IInv => SignatureInHead
  BY SignedInHead DEF IInv, SignatureInHead
<1>2. QED BY <1>1, Invariance, PTL

----------------------------------------------------------------------------
(* Whatever a client of handles and IoVecs does, to the buffer it is a     *)
(* step of the codec or nothing at all: what holds of CodecSpec holds with *)
(* reference counts and IoVecs too.                                        *)
LEMMA IoStepIsCodecStep == [IoNext]_ioVars => [CodecNext]_netVars
<1> SUFFICES ASSUME [IoNext]_ioVars PROVE [CodecNext]_netVars
  OBVIOUS
<1>1. CASE BufferStep
  BY <1>1 DEF BufferStep, CodecNext
<1>2. CASE Acquire \/ Release
  BY <1>2 DEF Acquire, Release
<1>3. ASSUME NEW v \in Vec, CreateIoVec(v) \/ IoVecAcquire(v) \/ IoVecRelease(v)
      PROVE  [CodecNext]_netVars
  BY <1>3 DEF CreateIoVec, IoVecAcquire, IoVecRelease
<1>4. CASE UNCHANGED ioVars
  BY <1>4 DEF ioVars
<1>5. QED BY <1>1, <1>2, <1>3, <1>4 DEF IoNext

(* The inductive invariant of the buffer is one of the whole system.       *)
THEOREM IoInvariance == IoSpec => []IInv
<1>1. IoInit => IInv
  BY InitInv DEF IoInit
<1>2. IInv /\ [IoNext]_ioVars => IInv'
  BY IoStepIsCodecStep, StepInv
<1>3. QED BY <1>1, <1>2, PTL DEF IoSpec

----------------------------------------------------------------------------
(* Loops over the blocks *)

(* Before block i + 1 the loop of CreateIoVec has counted the bytes up to  *)
(* the end of block i; behind the tail it has counted the limit.           *)
LEMMA TotalIsLimit ==
    ASSUME Shape(blocks)
    PROVE  TotalBytes = Limit
<1> DEFINE n == Len(blocks)
           Step(f) == f = [i \in 0..n |->
                             IF i = 0 THEN 0 ELSE f[i - 1] + blocks[i].limit]
           total == CHOOSE f : Step(f)
           ends == [i \in 0..n |-> IF i = 0 THEN 0 ELSE End(blocks[i])]
<1>1. n \in Nat /\ n >= 1 /\ \A i \in 1..n : blocks[i] \in Block
  BY DEF Shape
<1>2. \A i \in 1..n : ends[i - 1] = blocks[i].begin
  <2> SUFFICES ASSUME NEW i \in 1..n PROVE ends[i - 1] = blocks[i].begin
    OBVIOUS
  <2>1. CASE i = 1
    BY <1>1, <2>1 DEF Shape, Tiles
  <2>2. CASE i # 1
    <3>1. i - 1 \in 1..(n - 1) /\ i - 1 \in 0..n /\ i - 1 # 0
      BY <1>1, <2>2
    <3>2. blocks[(i - 1) + 1].begin = End(blocks[i - 1])
      BY <3>1 DEF Shape, Tiles
    <3>3. QED BY <1>1, <3>1, <3>2
  <2>3. QED BY <2>1, <2>2
<1>3. /\ \A i \in 1..n : ends[i] = ends[i - 1] + blocks[i].limit
      /\ ends[0] = 0 /\ ends[n] = Limit
  BY <1>1, <1>2 DEF End, Limit, TailBlock
<1>4. ends = [i \in 0..n |-> ends[i]]
  OBVIOUS
<1> HIDE DEF ends
<1>5. Step(ends)
  <2>1. \A i \in 0..n : ends[i] = IF i = 0 THEN 0 ELSE ends[i - 1] + blocks[i].limit
    <3> SUFFICES ASSUME NEW i \in 0..n
                 PROVE  ends[i] = IF i = 0 THEN 0 ELSE ends[i - 1] + blocks[i].limit
      OBVIOUS
    <3>1. CASE i = 0
      BY <1>3, <3>1
    <3>2. CASE i # 0
      <4>1. i \in 1..n
        BY <1>1, <3>2
      <4>2. QED BY <1>3, <3>2, <4>1
    <3>3. QED BY <3>1, <3>2
  <2>2. QED BY <1>4, <2>1
<1>6. Step(total)
  BY <1>5
<1>7. TotalBytes = total[n]
  BY DEF TotalBytes
<1> HIDE DEF total
<1>8. \A i \in Nat : i <= n => total[i] = ends[i]
  <2> DEFINE S == {i \in Nat : i <= n => total[i] = ends[i]}
  <2>1. 0 \in S
    BY <1>1, <1>3, <1>6
  <2>2. ASSUME NEW i \in Nat, i \in S PROVE i + 1 \in S
    <3>1. i + 1 <= n => total[i + 1] = total[i] + blocks[i + 1].limit
      BY <1>1, <1>6
    <3>2. i + 1 <= n => ends[i + 1] = ends[i] + blocks[i + 1].limit
      BY <1>1, <1>3
    <3>3. QED BY <1>1, <2>2, <3>1, <3>2
  <2>3. QED BY <2>1, <2>2, Induction
<1>9. QED BY <1>1, <1>3, <1>7, <1>8

----------------------------------------------------------------------------
(* Reference counts *)

IoVecObject ==
    [refcount : Nat, array : Seq([block : Nat, length : Nat]), totalBytes : Nat]

(* The count is exact; IoVecs are records, and as every step creates at    *)
(* most one, finitely many are alive however many there may be.            *)
RefInv ==
    /\ vecs \in [Vec -> IoVecObject]
    /\ IsFiniteSet(Live)
    /\ handles \in Nat
    /\ RefcountExact

LEMMA SnapshotType ==
    ASSUME Shape(blocks)
    PROVE  [refcount |-> 1, array |-> Snapshot, totalBytes |-> TotalBytes]
              \in IoVecObject
<1>1. Len(blocks) \in Nat /\ DOMAIN blocks = 1..Len(blocks)
      /\ \A i \in 1..Len(blocks) : blocks[i] \in Block
  BY DEF Shape
<1>2. \A i \in 1..Len(blocks) : blocks[i].limit \in Nat
  BY <1>1, BlockFields
<1>3. Snapshot \in Seq([block : Nat, length : Nat])
  <2>1. \A i \in 1..Len(blocks) :
           [block |-> i, length |-> blocks[i].limit] \in [block : Nat, length : Nat]
    BY <1>1, <1>2
  <2>2. QED BY <1>1, <2>1 DEF Snapshot
<1>4. TotalBytes \in Nat
  <2>1. TailBlock \in Block
    BY <1>1 DEF Shape, TailBlock
  <2>2. QED BY <2>1, TotalIsLimit, BlockFields DEF Limit
<1>5. QED BY <1>3, <1>4 DEF IoVecObject

(* Another number of references leaves an IoVec what it is.               *)
LEMMA RecountType ==
    ASSUME vecs \in [Vec -> IoVecObject], NEW v \in Vec, NEW n \in Nat
    PROVE  /\ [vecs EXCEPT ![v].refcount = n] \in [Vec -> IoVecObject]
           /\ [vecs EXCEPT ![v].refcount = n][v].refcount = n
<1>1. [vecs[v] EXCEPT !.refcount = n] \in IoVecObject
      /\ [vecs[v] EXCEPT !.refcount = n].refcount = n
  BY DEF IoVecObject
<1>2. QED BY <1>1

LEMMA RefInit == IoInit => RefInv
<1> SUFFICES ASSUME IoInit PROVE RefInv
  OBVIOUS
<1>1. NoVec \in IoVecObject
  BY DEF NoVec, IoVecObject
<1>2. Live = {}
  BY DEF IoInit, Live, NoVec
<1>3. QED BY <1>1, <1>2, FS_EmptySet DEF IoInit, RefInv, RefcountExact

LEMMA RefStep == IInv /\ RefInv /\ [IoNext]_ioVars => RefInv'
<1> SUFFICES ASSUME IInv, RefInv, [IoNext]_ioVars PROVE RefInv'
  OBVIOUS
<1>1. Cardinality(Live) \in Nat
  BY FS_CardinalityType DEF RefInv
<1>2. CASE BufferStep \/ UNCHANGED ioVars
  BY <1>2 DEF BufferStep, ioVars, refVars, RefInv, RefcountExact, Live
<1>3. CASE Acquire
  BY <1>1, <1>3 DEF Acquire, RefInv, RefcountExact, Live
<1>4. CASE Release
  BY <1>1, <1>4 DEF Release, RefInv, RefcountExact, Live
<1>5. ASSUME NEW v \in Vec, CreateIoVec(v) PROVE RefInv'
  <2> DEFINE object == [refcount |-> 1, array |-> Snapshot, totalBytes |-> TotalBytes]
  <2>1. object \in IoVecObject
    BY SnapshotType DEF IInv
  <2>2. vecs' = [vecs EXCEPT ![v] = object] /\ v \notin Live
        /\ refcount' = refcount + 1 /\ handles' = handles
    BY <1>5 DEF CreateIoVec
  <2>3. object.refcount = 1
    OBVIOUS
  <2> HIDE DEF object
  <2>4. Live' = Live \cup {v}
    BY <2>2, <2>3 DEF Live, RefInv
  <2>5. IsFiniteSet(Live') /\ Cardinality(Live') = Cardinality(Live) + 1
    BY <2>2, <2>4, FS_AddElement DEF RefInv
  <2>6. vecs' \in [Vec -> IoVecObject]
    BY <2>1, <2>2 DEF RefInv
  <2>7. QED BY <1>1, <2>2, <2>5, <2>6 DEF RefInv, RefcountExact
<1>6. ASSUME NEW v \in Vec, IoVecAcquire(v) PROVE RefInv'
  <2>1. vecs' = [vecs EXCEPT ![v].refcount = @ + 1] /\ v \in Live
        /\ refcount' = refcount /\ handles' = handles
    BY <1>6 DEF IoVecAcquire
  <2>2. vecs' \in [Vec -> IoVecObject] /\ vecs'[v].refcount > 0
    <3>1. vecs[v].refcount \in Nat /\ vecs[v].refcount > 0
      BY <2>1 DEF RefInv, IoVecObject, Live
    <3>2. vecs' = [vecs EXCEPT ![v].refcount = vecs[v].refcount + 1]
      BY <2>1
    <3>3. QED BY <3>1, <3>2, RecountType DEF RefInv
  <2>3. Live' = Live
    BY <2>1, <2>2 DEF Live, RefInv
  <2>4. QED BY <2>1, <2>2, <2>3 DEF RefInv, RefcountExact
<1>7. ASSUME NEW v \in Vec, IoVecRelease(v) PROVE RefInv'
  <2>1. v \in Live /\ handles' = handles
    BY <1>7 DEF IoVecRelease
  <2>2. CASE vecs[v].refcount = 1
    <3>1. vecs' = [vecs EXCEPT ![v] = NoVec] /\ refcount' = refcount - 1
      BY <1>7, <2>2 DEF IoVecRelease
    <3>2. vecs' \in [Vec -> IoVecObject] /\ NoVec.refcount = 0
      BY <3>1 DEF RefInv, IoVecObject, NoVec
    <3>3. Live' = Live \ {v}
      BY <3>1, <3>2 DEF Live, RefInv
    <3>4. IsFiniteSet(Live') /\ Cardinality(Live') = Cardinality(Live) - 1
      BY <2>1, <3>3, FS_RemoveElement DEF RefInv
    <3>5. QED BY <1>1, <2>1, <3>1, <3>2, <3>4 DEF RefInv, RefcountExact
  <2>3. CASE vecs[v].refcount # 1
    <3>1. vecs' = [vecs EXCEPT ![v].refcount = @ - 1] /\ refcount' = refcount
      BY <1>7, <2>3 DEF IoVecRelease
    <3>2. vecs[v] \in IoVecObject /\ vecs[v].refcount \in Nat /\ vecs[v].refcount > 1
      BY <2>1, <2>3 DEF RefInv, IoVecObject, Live
    <3>3. vecs' \in [Vec -> IoVecObject] /\ vecs'[v].refcount > 0
      <4>1. vecs' = [vecs EXCEPT ![v].refcount = vecs[v].refcount - 1]
        BY <3>1
      <4>2. QED BY <3>2, <4>1, RecountType DEF RefInv
    <3>4. Live' = Live
      BY <2>1, <3>1, <3>3 DEF Live, RefInv
    <3>5. QED BY <2>1, <3>1, <3>3, <3>4 DEF RefInv, RefcountExact
  <2>4. QED BY <2>2, <2>3
<1>8. QED BY <1>2, <1>3, <1>4, <1>5, <1>6, <1>7 DEF IoNext

(* The buffer's memory is returned when the last handle and the last IoVec *)
(* that holds it are gone, not before and not later.                       *)
THEOREM RefcountIsExact == IoSpec => []RefcountExact
<1>1. IoInit => RefInv
  BY RefInit
<1>2. RefInv => RefcountExact
  BY DEF RefInv
<1>3. QED BY <1>1, <1>2, RefStep, IoInvariance, PTL DEF IoSpec

----------------------------------------------------------------------------
(* What an IoVec names *)

(* Puts and SetPosition add blocks and move limits up, never down.         *)
Grown ==
    /\ Len(blocks) <= Len(blocks')
    /\ \A i \in 1..Len(blocks) :
          /\ blocks'[i].begin = blocks[i].begin
          /\ blocks[i].limit <= blocks'[i].limit

LEMMA ExtendedGrows ==
    ASSUME Shape(blocks), NEW bs, Extends(bs), blocks' = bs
    PROVE  Grown
<1>1. \A i \in 1..Len(blocks) : blocks[i] \in Block
  BY DEF Shape
<1>2. \A i \in 1..Len(blocks) : blocks[i].limit \in Nat
  BY <1>1, BlockFields
<1>3. QED BY <1>2 DEF Grown, Extends

LEMMA StoredGrows ==
    ASSUME Placed, Puts, NEW bs, NEW i, NEW n \in 1..Len(pending),
           Shape(bs), Ready(bs, i), Extends(bs),
           StoredAt(bs, i, n)
    PROVE  Grown
<1> DEFINE relative == position - bs[i].begin
           src == SubSeq(pending, 1, n)
           b == Stored(bs[i], relative, src)
<1>1. /\ bs \in Seq(Block) /\ i \in 1..Len(bs) /\ bs[i] \in Block
      /\ Len(bs) \in Nat /\ Len(blocks) \in Nat /\ \A j \in 1..Len(blocks) : blocks[j] \in Block
  BY DEF Shape, Ready, Placed
<1>2. bs[i].begin \in Nat /\ bs[i].limit \in Nat /\ relative \in Nat
  <2>1. bs[i].begin \in Nat /\ bs[i].limit \in Nat
    BY <1>1, BlockFields
  <2>2. position \in Nat /\ bs[i].begin <= position
    BY DEF Ready, Puts
  <2>3. QED BY <2>1, <2>2
<1>3. src \in Seq(Byte) /\ Len(src) \in Nat
  BY DEF Puts
<1>4. blocks' = [bs EXCEPT ![i] = b]
  BY DEF StoredAt
<1> HIDE DEF relative, src
<1>5. /\ b.begin = bs[i].begin
      /\ b.limit = IF relative + Len(src) > bs[i].limit
                   THEN relative + Len(src) ELSE bs[i].limit
  BY <1>1, <1>2, <1>3, StoredBlock
<1> HIDE DEF b
<1>6. bs[i].limit <= b.limit
  BY <1>2, <1>3, <1>5
<1>7. ASSUME NEW j \in 1..Len(blocks)
      PROVE  blocks'[j].begin = blocks[j].begin /\ blocks[j].limit <= blocks'[j].limit
  <2>1. j \in 1..Len(bs) /\ blocks[j].limit \in Nat
    BY <1>1, BlockFields DEF Extends
  <2>2. bs[j].begin = blocks[j].begin /\ bs[j].limit = blocks[j].limit
    BY DEF Extends
  <2>3. CASE j = i
    BY <1>1, <1>4, <1>5, <1>6, <2>1, <2>2, <2>3
  <2>4. CASE j # i
    BY <1>1, <1>4, <2>1, <2>2, <2>4
  <2>5. QED BY <2>3, <2>4
<1>8. Len(blocks') = Len(bs)
  BY <1>1, <1>4
<1>9. QED BY <1>7, <1>8 DEF Grown, Extends

LEMMA PutsGrow ==
    ASSUME IInv, CodecPut \/ Loop \/ \E p \in 0..MaxLimit : SetPosition(p)
    PROVE  Grown
<1>1. Placed /\ Puts /\ Shape(blocks)
  BY IInvParts DEF IInv
<1>2. position \in Nat /\ Len(blocks) \in Nat
  BY <1>1, SizeAssumption DEF Puts, Shape
<1>3. Extends(blocks)
  BY <1>2 DEF Extends
<1>4. ASSUME NEW b \in Byte, PutUint8(b) PROVE Grown
  BY <1>1, <1>3, <1>4, ExtendedGrows DEF PutUint8
<1>5. ASSUME ~finalized, NEW n \in IntSizes, NEW bytes \in [1..n -> Byte],
             WithinOrAppended(n), PutInteger(bytes)
      PROVE  Grown
  <2>1. Len(bytes) = n
    BY SizeAssumption
  <2>2. PICK c \in BlockCapacity : blocks' = EnsuredBlocks(n, c)
    BY <1>5, <2>1 DEF PutInteger
  <2>3. QED BY <1>1, <1>5, <2>2, EnsuredExtends, ExtendedGrows
<1>6. ASSUME NEW array, PutArray(array) PROVE Grown
  BY <1>1, <1>6, AllocatedExtends, ExtendedGrows DEF PutArray
<1>7. CASE StoreByte
  <2>1. PICK c \in BlockCapacity : StoredAt(AllocatedBlocks(c), AllocatedCurrent, 1)
    BY <1>7 DEF StoreByte
  <2>2. /\ Shape(AllocatedBlocks(c)) /\ Ready(AllocatedBlocks(c), AllocatedCurrent)
        /\ Extends(AllocatedBlocks(c))
    BY <1>1, <1>2, AllocatedReady, AllocatedExtends DEF Placed
  <2>3. 1 \in 1..Len(pending)
    BY <1>1, <1>7 DEF StoreByte, Puts, PendingMode
  <2>4. QED BY <1>1, <2>1, <2>2, <2>3, StoredGrows
<1>8. CASE NextArrayBlock
  BY <1>1, <1>8, AllocatedExtends, ExtendedGrows DEF NextArrayBlock
<1>9. CASE CopyChunk
  <2> DEFINE n == IF Remaining > Len(pending) THEN Len(pending) ELSE Remaining
  <2>1. Len(pending) \in Nat /\ Len(pending) > 0
    BY <1>1, <1>9 DEF CopyChunk, Puts, PendingMode
  <2>2. Remaining \in Nat /\ Remaining # 0
    BY <1>1, <1>2, <1>9, CursorFacts DEF CopyChunk, AtBlockEnd, Placed
  <2>3. n \in 1..Len(pending)
    BY <2>1, <2>2
  <2>4. StoredAt(blocks, current, n)
    BY <1>9 DEF CopyChunk
  <2> HIDE DEF n
  <2>5. Ready(blocks, current)
    <3>1. /\ blocks[current].begin \in Nat /\ blocks[current].capacity \in Nat
          /\ Remaining = blocks[current].begin + blocks[current].capacity - position
      BY <1>1, <1>2, CursorFacts DEF Placed, Remaining
    <3>2. position < blocks[current].begin + blocks[current].capacity
      BY ONLY <1>2, <2>2, <3>1
    <3>3. QED BY <1>1, <3>2 DEF Ready, Placed, CursorInBlock
  <2>6. QED BY <1>1, <1>3, <2>3, <2>4, <2>5, StoredGrows
<1>10. ASSUME NEW p, SetPosition(p) PROVE Grown
  BY <1>1, <1>3, <1>10, ExtendedGrows DEF SetPosition
<1>11. QED BY <1>4, <1>5, <1>6, <1>7, <1>8, <1>9, <1>10 DEF CodecPut, Loop

(* An IoVec names the first blocks of the buffer in order: all the bytes   *)
(* of each but the last, which may have grown since.                       *)
NamesBlocks(bs, vec) ==
    LET array == vec.array
        k == Len(array)
    IN /\ k \in 1..Len(bs)
       /\ \A i \in 1..k : array[i].block = i
       /\ \A i \in 1..k : i < k => array[i].length = bs[i].limit
       /\ array[k].length <= bs[k].limit
       /\ vec.totalBytes = bs[k].begin + array[k].length

SnapInv == \A v \in Live : NamesBlocks(blocks, vecs[v])

LEMMA SnapshotNames ==
    ASSUME Shape(blocks)
    PROVE  NamesBlocks(blocks, [refcount |-> 1, array |-> Snapshot, totalBytes |-> TotalBytes])
<1>1. Len(blocks) \in Nat /\ Len(blocks) >= 1 /\ DOMAIN blocks = 1..Len(blocks)
      /\ \A i \in 1..Len(blocks) : blocks[i].limit \in Nat
  BY EndsFollow DEF Shape
<1>2. Len(Snapshot) = Len(blocks)
      /\ \A i \in 1..Len(blocks) : Snapshot[i].block = i /\ Snapshot[i].length = blocks[i].limit
  BY <1>1 DEF Snapshot
<1>3. TotalBytes = blocks[Len(blocks)].begin + blocks[Len(blocks)].limit
  BY TotalIsLimit DEF Limit, TailBlock, End
<1>4. QED BY <1>1, <1>2, <1>3 DEF NamesBlocks

LEMMA GrownNames ==
    ASSUME Shape(blocks), Grown, KeepsShape, Shape(blocks'),
           NEW vec \in IoVecObject, NamesBlocks(blocks, vec)
    PROVE  NamesBlocks(blocks', vec)
<1> DEFINE array == vec.array
           k == Len(array)
<1>1. Len(blocks) \in Nat /\ Len(blocks') \in Nat /\ Len(blocks) <= Len(blocks')
  BY DEF Shape, Grown
<1>2. k \in 1..Len(blocks) /\ k \in Nat /\ k \in 1..Len(blocks')
  BY <1>1 DEF NamesBlocks
<1>3. ASSUME NEW i \in 1..k, i < k PROVE blocks'[i].limit = blocks[i].limit
  <2>1. i \in 1..(Len(blocks) - 1) /\ i < Len(blocks')
    BY <1>1, <1>2, <1>3
  <2>2. QED BY <2>1 DEF KeepsShape
<1>4. /\ blocks'[k].begin = blocks[k].begin /\ array[k].length <= blocks[k].limit
      /\ blocks[k].limit <= blocks'[k].limit
  BY <1>2 DEF Grown, NamesBlocks
<1>5. array[k].length \in Nat /\ blocks[k].limit \in Nat /\ blocks'[k].limit \in Nat
  <2>1. blocks[k] \in Block /\ blocks'[k] \in Block
    BY <1>2 DEF Shape
  <2>2. array[k] \in [block : Nat, length : Nat]
    <3>1. array \in Seq([block : Nat, length : Nat])
      BY DEF IoVecObject
    <3> HIDE DEF array
    <3>2. array \in [1..k -> [block : Nat, length : Nat]]
      BY <3>1, LenProperties
    <3> HIDE DEF k
    <3>3. k \in 1..k
      BY <1>2
    <3>4. QED BY <3>2, <3>3
  <2>3. QED BY <2>1, <2>2, BlockFields
<1>6. array[k].length <= blocks'[k].limit
  BY <1>4, <1>5
<1>7. QED BY <1>2, <1>3, <1>4, <1>6 DEF NamesBlocks

LEMMA SnapInit == IoInit => SnapInv
BY DEF IoInit, SnapInv, Live, NoVec

LEMMA SnapStep == IInv /\ RefInv /\ SnapInv /\ [IoNext]_ioVars => SnapInv'
<1> SUFFICES ASSUME IInv, RefInv, SnapInv, [IoNext]_ioVars PROVE SnapInv'
  OBVIOUS
<1>1. /\ Shape(blocks) /\ Shape(blocks') /\ IInv'
      /\ vecs \in [Vec -> IoVecObject]
  BY IoStepIsCodecStep, StepInv DEF IInv, RefInv
<1>2. ASSUME blocks' = blocks, vecs' = vecs PROVE SnapInv'
  BY <1>2 DEF SnapInv, Live, NamesBlocks
<1>3. CASE UNCHANGED ioVars
  BY <1>2, <1>3 DEF ioVars, refVars, netVars
<1>4. CASE Acquire \/ Release
  BY <1>2, <1>4 DEF Acquire, Release, netVars
<1>5. CASE BufferStep
  <2>1. vecs' = vecs /\ Live' = Live
    BY <1>5 DEF BufferStep, refVars, Live
  <2>2. CASE Live = {}
    BY <2>1, <2>2 DEF SnapInv
  <2>3. CASE Live # {}
    <3>1. CodecPut \/ Loop \/ \E p \in 0..MaxLimit : SetPosition(p)
      BY <1>5, <2>3 DEF BufferStep
    <3>2. Grown
      BY <3>1, PutsGrow
    <3>3. KeepsShape
      <4>1. CASE UNCHANGED netVars
        BY <4>1 DEF netVars, KeepsShape
      <4>2. CASE ~UNCHANGED netVars
        BY <4>2, IoStepIsCodecStep, StepKeepsShape
      <4>3. QED BY <4>1, <4>2
    <3>4. ASSUME NEW v \in Live PROVE NamesBlocks(blocks', vecs[v])
      <4>1. vecs[v] \in IoVecObject /\ NamesBlocks(blocks, vecs[v])
        BY <1>1 DEF Live, SnapInv
      <4>2. QED BY <1>1, <3>2, <3>3, <4>1, GrownNames
    <3>5. QED BY <2>1, <3>4 DEF SnapInv
  <2>4. QED BY <2>2, <2>3
<1>6. ASSUME NEW v \in Vec, CreateIoVec(v) PROVE SnapInv'
  <2> DEFINE object == [refcount |-> 1, array |-> Snapshot, totalBytes |-> TotalBytes]
  <2>1. vecs' = [vecs EXCEPT ![v] = object] /\ blocks' = blocks
    BY <1>6 DEF CreateIoVec, netVars
  <2>2. NamesBlocks(blocks, object)
    BY <1>1, SnapshotNames
  <2> HIDE DEF object
  <2>3. ASSUME NEW w \in Live' PROVE NamesBlocks(blocks, vecs'[w])
    <3>1. CASE w = v
      BY <1>1, <2>1, <2>2, <3>1
    <3>2. CASE w # v
      BY <1>1, <2>1, <2>3, <3>2 DEF SnapInv, Live
    <3>3. QED BY <3>1, <3>2
  <2>4. QED BY <2>1, <2>3 DEF SnapInv
<1>7. ASSUME NEW v \in Vec, IoVecAcquire(v) \/ IoVecRelease(v) PROVE SnapInv'
  <2>1. v \in Live /\ blocks' = blocks
    BY <1>7 DEF IoVecAcquire, IoVecRelease, netVars
  <2>2. ASSUME NEW w \in Live'
        PROVE  /\ w \in Live
               /\ vecs'[w].array = vecs[w].array
               /\ vecs'[w].totalBytes = vecs[w].totalBytes
    <3>1. w \in Vec /\ vecs[w] \in IoVecObject /\ vecs'[w].refcount > 0
      BY <1>1, <2>2 DEF Live
    <3>2. CASE w # v
      BY <1>1, <1>7, <2>2, <3>1, <3>2 DEF IoVecAcquire, IoVecRelease, Live
    <3>3. CASE w = v
      <4>1. ~(vecs'[v] = NoVec)
        BY <3>1, <3>3 DEF NoVec
      <4>2. ASSUME NEW n, vecs' = [vecs EXCEPT ![v].refcount = n]
            PROVE  /\ vecs'[w].array = vecs[w].array
                   /\ vecs'[w].totalBytes = vecs[w].totalBytes
        BY <1>1, <3>1, <3>3, <4>2 DEF IoVecObject
      <4>3. CASE IoVecAcquire(v)
        <5>1. vecs' = [vecs EXCEPT ![v].refcount = vecs[v].refcount + 1]
          BY <4>3 DEF IoVecAcquire
        <5>2. QED BY <2>1, <3>3, <4>2, <5>1
      <4>4. CASE IoVecRelease(v)
        <5>1. vecs[v].refcount # 1
          <6> SUFFICES ASSUME vecs[v].refcount = 1 PROVE FALSE
            OBVIOUS
          <6>1. vecs' = [vecs EXCEPT ![v] = NoVec]
            BY <4>4 DEF IoVecRelease
          <6>2. QED BY <1>1, <4>1, <6>1
        <5>2. vecs' = [vecs EXCEPT ![v].refcount = vecs[v].refcount - 1]
          BY <4>4, <5>1 DEF IoVecRelease
        <5>3. QED BY <2>1, <3>3, <4>2, <5>2
      <4>5. QED BY <1>7, <4>3, <4>4
    <3>4. QED BY <3>2, <3>3
  <2>3. QED BY <2>1, <2>2 DEF SnapInv, NamesBlocks
<1>8. QED BY <1>3, <1>4, <1>5, <1>6, <1>7 DEF IoNext

(* Flattening, for sequences whose partial concatenations are known.       *)
Concatenates(part, seqs, n) ==
    /\ n \in Nat /\ n >= 1 /\ Len(seqs) = n
    /\ part = [i \in 1..n |-> part[i]]
    /\ part[1] = seqs[1]
    /\ \A i \in 2..n : part[i] = part[i - 1] \o seqs[i]

LEMMA FlattenSteps ==
    ASSUME NEW seqs, NEW n, NEW part, Concatenates(part, seqs, n)
    PROVE  FlattenSeq(seqs) = part[n]
<1> USE DEF Concatenates
<1> DEFINE Step(f) == f = [i \in 1..n |->
                             IF i = 1 THEN seqs[i] ELSE f[i - 1] \o seqs[i]]
           flatten == CHOOSE f : Step(f)
<1>1. FlattenSeq(seqs) = flatten[n]
  BY DEF FlattenSeq
<1>2. Step(part)
  <2>1. ASSUME NEW i \in 1..n
        PROVE  part[i] = IF i = 1 THEN seqs[i] ELSE part[i - 1] \o seqs[i]
    <3>1. CASE i = 1
      BY <3>1
    <3>2. CASE i # 1
      <4>1. i \in 2..n
        BY <3>2
      <4>2. QED BY <3>2, <4>1
    <3>3. QED BY <3>1, <3>2
  <2>2. QED BY <2>1
<1>3. Step(flatten)
  BY <1>2
<1> HIDE DEF flatten
<1>4. \A i \in Nat : i + 1 <= n => flatten[i + 1] = part[i + 1]
  <2> DEFINE S == {i \in Nat : i + 1 <= n => flatten[i + 1] = part[i + 1]}
  <2>1. 0 \in S
    BY <1>3
  <2>2. ASSUME NEW i \in Nat, i \in S PROVE i + 1 \in S
    <3> SUFFICES ASSUME (i + 1) + 1 <= n
                 PROVE  flatten[(i + 1) + 1] = part[(i + 1) + 1]
      OBVIOUS
    <3>1. /\ (i + 1) + 1 \in 2..n /\ (i + 1) + 1 \in 1..n /\ (i + 1) + 1 # 1
          /\ ((i + 1) + 1) - 1 = i + 1 /\ i + 1 <= n
      OBVIOUS
    <3>2. flatten[(i + 1) + 1] = flatten[i + 1] \o seqs[(i + 1) + 1]
      BY <1>3, <3>1
    <3>3. part[(i + 1) + 1] = part[i + 1] \o seqs[(i + 1) + 1]
      BY <3>1
    <3>4. QED BY <2>2, <3>1, <3>2, <3>3
  <2>3. QED BY <2>1, <2>2, Induction
<1>5. flatten[n] = part[n]
  <2>1. n - 1 \in Nat /\ (n - 1) + 1 = n
    OBVIOUS
  <2>2. PICK m \in Nat : m + 1 = n
    BY <2>1
  <2>3. flatten[m + 1] = part[m + 1]
    BY ONLY <1>4, <2>2, m \in Nat, n \in Nat
  <2>4. QED BY ONLY <2>2, <2>3
<1>6. QED BY <1>1, <1>5

(* Concatenating what the entries of an IoVec select gives the bytes that  *)
(* precede the end of the last one.                                        *)
LEMMA GatheredPrefix ==
    ASSUME Shape(blocks), vecs \in [Vec -> IoVecObject], NEW v \in Vec,
           NamesBlocks(blocks, vecs[v])
    PROVE  /\ \A i \in DOMAIN vecs[v].array : vecs[v].array[i].block \in DOMAIN blocks
           /\ vecs[v].totalBytes \in 0..Limit
           /\ Gathered(v) = Upto(vecs[v].totalBytes)
<1> DEFINE array == vecs[v].array
           n == Len(array)
           seqs == [i \in DOMAIN array |->
                      SubSeq(blocks[array[i].block].memory, 1, array[i].length)]
           part == [i \in 1..n |-> Upto(blocks[i].begin + array[i].length)]
<1>1. array \in Seq([block : Nat, length : Nat])
  BY DEF IoVecObject
<1>2. /\ array \in [1..n -> [block : Nat, length : Nat]]
      /\ n \in Nat /\ DOMAIN array = 1..n
  <2> HIDE DEF array
  <2>1. QED BY <1>1, LenProperties
<1>3. /\ n \in 1..Len(blocks) /\ Len(blocks) \in Nat /\ n >= 1 /\ n \in 1..n
      /\ DOMAIN blocks = 1..Len(blocks)
      /\ \A i \in 1..n : array[i].block = i
      /\ \A i \in 1..n : i < n => array[i].length = blocks[i].limit
      /\ array[n].length <= blocks[n].limit
      /\ vecs[v].totalBytes = blocks[n].begin + array[n].length
  BY DEF NamesBlocks, Shape
<1> HIDE DEF array, n
<1>4. ASSUME NEW i \in 1..n
      PROVE  /\ i \in 1..Len(blocks)
             /\ blocks[i] \in Block
             /\ array[i].length \in Nat
             /\ array[i].length <= blocks[i].limit
             /\ array[i].length \in 0..blocks[i].limit
             /\ blocks[i].begin \in Nat
             /\ seqs[i] = SubSeq(blocks[i].memory, 1, array[i].length)
  <2>1. i \in 1..Len(blocks)
    BY <1>3
  <2>2. blocks[i] \in Block
    BY <2>1 DEF Shape
  <2>3. blocks[i].limit \in Nat /\ blocks[i].begin \in Nat
    BY <2>2, BlockFields
  <2>4. array[i].length \in Nat
    BY <1>2
  <2>5. array[i].length <= blocks[i].limit
    BY <1>2, <1>3, <2>3
  <2>6. QED BY <1>2, <1>3, <2>1, <2>2, <2>3, <2>4, <2>5
<1>5. ASSUME NEW i \in 1..n
      PROVE  /\ blocks[i].begin + array[i].length <= Limit
             /\ Upto(blocks[i].begin) \o seqs[i] = part[i]
  BY <1>4, UptoBlock
<1>6. part[1] = seqs[1]
  <2>1. 1 \in 1..n /\ blocks[1].begin = 0
    BY <1>3, <1>4 DEF Shape, Tiles
  <2>2. Upto(0) = <<>>
    <3>1. 0 \in 0..Limit
      BY ReadsWhatIsHeld DEF ReadsHeld
    <3>2. Upto(0) \in Seq(StoredByte) /\ Len(Upto(0)) = 0
      BY <3>1, UptoType
    <3>3. QED BY <3>2
  <2>3. seqs[1] \in Seq(StoredByte)
    <3>1. blocks[1] \in Block /\ array[1].length \in Nat
      BY ONLY <1>4, <2>1
    <3>2. blocks[1].memory \in Seq(StoredByte) /\ Len(blocks[1].memory) \in Nat
          /\ blocks[1].limit \in Nat /\ blocks[1].capacity \in Nat
      BY <3>1, BlockFields DEF StoredByte
    <3>3. array[1].length <= Len(blocks[1].memory)
      <4>1. 1 \in DOMAIN blocks
        BY <1>3, <1>4, <2>1
      <4>2. blocks[1].limit <= blocks[1].capacity
            /\ blocks[1].capacity <= Len(blocks[1].memory)
        BY <4>1 DEF Shape, Tiles
      <4>3. array[1].length <= blocks[1].limit
        BY ONLY <1>4, <2>1
      <4>4. QED BY ONLY <3>1, <3>2, <4>2, <4>3
    <3>4. seqs[1] = SubSeq(blocks[1].memory, 1, array[1].length)
      BY ONLY <1>4, <2>1
    <3>5. SubSeq(blocks[1].memory, 1, array[1].length) \in Seq(StoredByte)
      BY ONLY <3>1, <3>2, <3>3
    <3>6. QED BY ONLY <3>4, <3>5
  <2>4. QED BY <1>5, <2>1, <2>2, <2>3, ConcatEmptySeq
<1>7. ASSUME NEW i \in 2..n PROVE part[i] = part[i - 1] \o seqs[i]
  <2>1. i \in 1..n /\ i - 1 \in 1..n /\ i - 1 < n /\ i \in 1..Len(blocks)
        /\ i - 1 # 0
    BY <1>3
  <2>2. part[i - 1] = Upto(blocks[i - 1].begin + blocks[i - 1].limit)
    BY <1>3, <2>1
  <2>3. blocks[i].begin = blocks[i - 1].begin + blocks[i - 1].limit
    BY <2>1, EndsFollow DEF EndsAt, End
  <2>4. QED BY <1>5, <2>1, <2>2, <2>3
<1>8. Len(seqs) = n
  BY <1>2
<1>9. part = [i \in 1..n |-> part[i]]
  OBVIOUS
<1>10. Gathered(v) = FlattenSeq(seqs)
  BY DEF Gathered, array
<1> HIDE DEF part, seqs
<1>11. FlattenSeq(seqs) = part[n]
  <2>1. Concatenates(part, seqs, n)
    BY <1>2, <1>3, <1>6, <1>7, <1>8, <1>9 DEF Concatenates
  <2>2. QED BY ONLY <2>1, FlattenSteps
<1>12. vecs[v].totalBytes \in 0..Limit
  <2>1. n \in 1..n /\ vecs[v].totalBytes = blocks[n].begin + array[n].length
    BY ONLY <1>3
  <2>2. /\ array[n].length \in Nat /\ blocks[n].begin \in Nat
        /\ blocks[n].begin + array[n].length <= Limit
    BY ONLY <1>4, <1>5, <2>1
  <2>3. Limit \in Nat
    BY ReadsWhatIsHeld DEF ReadsHeld
  <2>4. QED BY ONLY <2>1, <2>2, <2>3
<1>13. QED BY <1>2, <1>3, <1>10, <1>11, <1>12 DEF part, array

(* Whatever is put into the buffer after an IoVec was created, a gathering *)
(* write through the IoVec sends the first totalBytes bytes of the packet. *)
THEOREM IoVecsArePacketPrefixes == IoSpec => []IoVecIsPacketPrefix
<1>1. IInv /\ RefInv /\ SnapInv => IoVecIsPacketPrefix
  <2> SUFFICES ASSUME IInv, RefInv, SnapInv, NEW v \in Live
               PROVE  /\ \A i \in DOMAIN vecs[v].array :
                            vecs[v].array[i].block \in DOMAIN blocks
                      /\ Gathered(v) = SubSeq(CreateParcBuffer, 1, vecs[v].totalBytes)
    BY DEF IoVecIsPacketPrefix
  <2>1. /\ \A i \in DOMAIN vecs[v].array : vecs[v].array[i].block \in DOMAIN blocks
        /\ vecs[v].totalBytes \in 0..Limit
        /\ Gathered(v) = Upto(vecs[v].totalBytes)
    BY GatheredPrefix DEF IInv, RefInv, SnapInv, Live
  <2>2. SubSeq(Upto(Limit), 1, vecs[v].totalBytes) = Upto(vecs[v].totalBytes)
    <3>1. Limit \in Nat
      BY ReadsWhatIsHeld DEF IInv, ReadsHeld
    <3>2. QED BY <2>1, <3>1 DEF Upto
  <2>3. CreateParcBuffer = Upto(Limit)
    BY Linearized DEF IInv
  <2>4. QED BY <2>1, <2>2, <2>3
<1>2. IoSpec => []RefInv
  BY RefInit, RefStep, IoInvariance, PTL DEF IoSpec
<1>3. IoSpec => []SnapInv
  BY <1>2, SnapInit, SnapStep, IoInvariance, PTL DEF IoSpec
<1>4. QED BY <1>1, <1>2, <1>3, IoInvariance, PTL
=============================================================================
