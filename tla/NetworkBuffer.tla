--------------------------- MODULE NetworkBuffer ---------------------------
(***************************************************************************)
(* ccnx/common/codec/ccnxCodec_NetworkBuffer.c: the scatter/gather memory  *)
(* every packet is encoded into.  The linked list head..tail of memory     *)
(* blocks is the sequence `blocks'.  A block's `memory' is the sequence of *)
(* the bytes that were allocated, `Unwritten' where nothing was stored     *)
(* (offset o of the C array is memory[o + 1]).  `current' is the index of  *)
(* buffer->current and `position' is buffer->position.  buffer->capacity   *)
(* is only ever printed and is left out.                                   *)
(*                                                                         *)
(* A put of several bytes is a loop in the code, and each iteration is a   *)
(* step here: `pending' holds the bytes a put has still to store and       *)
(* `mode' says which loop runs ("bytes": one _PutUint8 after another,      *)
(* "array": the memcpy loop of PutArray).  The library has no threads, so  *)
(* no other operation is enabled while mode # "idle".                      *)
(*                                                                         *)
(* A definition whose name ends in an underscore and a word is a mutant:   *)
(* a plausible bug, used only to check that a property would notice it.    *)
(***************************************************************************)
EXTENDS Integers, Sequences, SequencesExt

CONSTANTS
    Byte,           \* the byte values a client writes
    Unwritten,      \* content of allocated memory nothing was stored to
    HeadCapacity,   \* bytes of the first block (Create: 1536)
    BlockCapacity,  \* what the allocator may grant for a further block (2048)
    IntSizes,       \* sizes of PutUint16, PutUint32, PutUint64
    MaxArray,       \* bound on the length of an array given to PutArray
    MaxLimit        \* bound on the position a put reaches

(* EnsureRemaining's test length < 32 holds for every size it is called    *)
(* with (2, 4 and 8), and the allocator contract of the header ("at least  *)
(* 'bytes' long") makes a block of 2048 bytes hold any of them.            *)
ASSUME ByteAssumption == Unwritten \notin Byte
ASSUME SizeAssumption ==
    /\ HeadCapacity \in Nat
    /\ BlockCapacity \subseteq Nat \ {0} /\ BlockCapacity # {}
    /\ IntSizes \subseteq 1..31
    /\ \A c \in BlockCapacity, n \in IntSizes : n <= c
    /\ MaxArray \in Nat /\ MaxLimit \in Nat

VARIABLES blocks, current, position, mode, pending, finalized

netVars == <<blocks, current, position, mode, pending, finalized>>

----------------------------------------------------------------------------
(* Blocks *)

(* _Memory_Allocate *)
NewBlock(begin, capacity) ==
    [begin |-> begin, limit |-> 0, capacity |-> capacity,
     memory |-> [o \in 1..capacity |-> Unwritten]]

(* _Memory_Wrap: the user's array is the first block, and it is full *)
WrappedBlock(bytes) ==
    [begin |-> 0, limit |-> Len(bytes), capacity |-> Len(bytes),
     memory |-> bytes]

End(block) == block.begin + block.limit

(* _Memory_ContainsPosition *)
ContainsPosition(block, p) == block.begin <= p /\ p < End(block)

TailBlock == blocks[Len(blocks)]

(* ccnxCodecNetworkBuffer_Limit *)
Limit == End(TailBlock)

(* A store of src at a relative position moves the block's limit up only. *)
Overlaid(memory, relative, src) ==
    [o \in 1..Len(memory) |->
        IF o \in (relative + 1)..(relative + Len(src))
        THEN src[o - relative] ELSE memory[o]]

Stored_LimitFollows(block, relative, src) ==
    [block EXCEPT !.memory = Overlaid(@, relative, src),
                  !.limit = relative + Len(src)]
Stored(block, relative, src) ==
    LET end == relative + Len(src)
    IN [block EXCEPT !.memory = Overlaid(@, relative, src),
                     !.limit = IF end > @ THEN end ELSE @]

(* _Expand: the tail's capacity drops to its limit, a new block follows. *)
Frozen(block) == [block EXCEPT !.capacity = block.limit]

Expanded_TailKeepsCapacity(c) == Append(blocks, NewBlock(Limit, c))
Expanded(c) ==
    Append([blocks EXCEPT ![Len(blocks)] = Frozen(TailBlock)],
           NewBlock(Limit, c))

(* _RemainingCurrentBlock *)
Remaining == blocks[current].begin + blocks[current].capacity - position

(* _AllocateIfNeeded, with c granted if it expands: the blocks and the     *)
(* index of the current block that it leaves.                              *)
AtBlockEnd == Remaining = 0
IsLast == current = Len(blocks)

AllocatedBlocks(c) == IF AtBlockEnd /\ IsLast THEN Expanded(c) ELSE blocks

AllocatedCurrent_NotIfLast ==
    IF AtBlockEnd /\ ~IsLast THEN current + 1 ELSE current
AllocatedCurrent == IF AtBlockEnd THEN current + 1 ELSE current

(* _EnsureRemaining(n): a short tail is frozen and the write starts in a   *)
(* new block; in any other block the write is split.                       *)
Freezes_AnyBlock(n) == Remaining < n
Freezes_ExactFit(n) == Remaining <= n /\ IsLast
Freezes(n) == Remaining < n /\ IsLast

EnsuredBlocks(n, c) ==
    IF Freezes(n) THEN Expanded(c)
    ELSE IF Remaining < n THEN AllocatedBlocks(c) ELSE blocks
EnsuredCurrent(n) ==
    IF Freezes(n) THEN Len(blocks) + 1
    ELSE IF Remaining < n THEN AllocatedCurrent ELSE current

----------------------------------------------------------------------------
(* Operations.  Each puts its bytes in `pending' after the allocation the  *)
(* code makes first; the loop steps below store them.                      *)

Idle == mode = "idle"

(* ccnxCodecNetworkBuffer_PutUint8: _PutUint8 allocates, see StoreByte. *)
PutUint8(b) ==
    /\ Idle
    /\ position < MaxLimit
    /\ pending' = <<b>>
    /\ mode' = "bytes"
    /\ UNCHANGED <<blocks, current, position, finalized>>

(* PutUint16, PutUint32, PutUint64: EnsureRemaining, then byte by byte. *)
PutInteger(bytes) ==
    /\ Idle
    /\ position + Len(bytes) <= MaxLimit
    /\ \E c \in BlockCapacity : blocks' = EnsuredBlocks(Len(bytes), c)
    /\ current' = EnsuredCurrent(Len(bytes))
    /\ pending' = bytes
    /\ mode' = "bytes"
    /\ UNCHANGED <<position, finalized>>

(* PutArray: AllocateIfNeeded, then the loop; an empty array allocates too *)
(* (PutBuffer is PutArray of a buffer that is not empty).                  *)
PutArray(array) ==
    /\ Idle
    /\ position + Len(array) <= MaxLimit
    /\ \E c \in BlockCapacity : blocks' = AllocatedBlocks(c)
    /\ current' = AllocatedCurrent
    /\ pending' = array
    /\ mode' = IF array = <<>> THEN "idle" ELSE "array"
    /\ UNCHANGED <<position, finalized>>

(* The first n pending bytes go into block i of bs.  The store is defined  *)
(* where memory was allocated; outside it the C code has no defined        *)
(* behaviour, the model takes no step and MemorySafe reports the state.    *)
Fits(block, n) ==
    /\ block.begin <= position
    /\ position - block.begin + n <= Len(block.memory)

StoredAt(bs, i, n) ==
    /\ Fits(bs[i], n)
    /\ blocks' = [bs EXCEPT ![i] = Stored(bs[i], position - bs[i].begin,
                                          SubSeq(pending, 1, n))]
    /\ current' = i
    /\ position' = position + n
    /\ pending' = SubSeq(pending, n + 1, Len(pending))
    /\ mode' = IF n = Len(pending) THEN "idle" ELSE mode
    /\ UNCHANGED finalized

(* _PutUint8 *)
StoreByte ==
    /\ mode = "bytes"
    /\ \E c \in BlockCapacity :
          StoredAt(AllocatedBlocks(c), AllocatedCurrent, 1)

(* An iteration of PutArray's loop: either the current block is full, or   *)
(* as many bytes as it has room for are copied.                            *)
NextArrayBlock ==
    /\ mode = "array" /\ AtBlockEnd
    /\ \E c \in BlockCapacity : blocks' = AllocatedBlocks(c)
    /\ current' = AllocatedCurrent
    /\ UNCHANGED <<position, mode, pending, finalized>>

CopyChunk ==
    /\ mode = "array" /\ ~AtBlockEnd
    /\ StoredAt(blocks, current,
                IF Remaining > Len(pending) THEN Len(pending) ELSE Remaining)

(* The block a position lies in: the current one if it does, else the      *)
(* first from the head (the search loops of SetPosition and Finalize).     *)
FirstHolding(p) ==
    CHOOSE i \in DOMAIN blocks :
        /\ ContainsPosition(blocks[i], p)
        /\ \A j \in 1..(i - 1) : ~ContainsPosition(blocks[j], p)
Holding_NoSearch(p) == current
Holding(p) ==
    IF ContainsPosition(blocks[current], p) THEN current ELSE FirstHolding(p)

SetPosition(p) ==
    /\ Idle
    /\ p <= Limit
    /\ current' = IF p = Limit THEN Len(blocks) ELSE Holding(p)
    /\ position' = p
    /\ UNCHANGED <<blocks, mode, pending, finalized>>

(* The blocks behind the one of the position are freed.  `finalized' is    *)
(* history: the packet encoder writes nothing after it finalizes.          *)
Truncated_AbsoluteLimit(i) ==
    [SubSeq(blocks, 1, i) EXCEPT ![i].limit = position]
Truncated(i) ==
    [SubSeq(blocks, 1, i) EXCEPT ![i].limit = position - blocks[i].begin]

Finalize ==
    /\ Idle
    /\ IF position < Limit
       THEN /\ blocks' = Truncated(Holding(position))
            /\ current' = Holding(position)
       ELSE UNCHANGED <<blocks, current>>
    /\ finalized' = TRUE
    /\ UNCHANGED <<position, mode, pending>>

----------------------------------------------------------------------------
(* Specifications *)

Arrays(n) == UNION {[1..k -> Byte] : k \in 0..n}

(* Create, or CreateFromArray around a packet that was received. *)
Init ==
    /\ \/ blocks = <<NewBlock(0, HeadCapacity)>>
       \/ \E array \in Arrays(MaxArray) \ {<<>>} :
             Len(array) <= MaxLimit /\ blocks = <<WrappedBlock(array)>>
    /\ current = 1
    /\ position = 0
    /\ mode = "idle" /\ pending = <<>>
    /\ finalized = FALSE

Loop == StoreByte \/ NextArrayBlock \/ CopyChunk

(* Any client: every operation at any time, with any legal argument. *)
Next ==
    \/ \E b \in Byte : PutUint8(b)
    \/ \E n \in IntSizes : \E bytes \in [1..n -> Byte] : PutInteger(bytes)
    \/ \E array \in Arrays(MaxArray) : PutArray(array)
    \/ Loop
    \/ \E p \in 0..MaxLimit : SetPosition(p)
    \/ Finalize

Spec == Init /\ [][Next]_netVars

(* The codec as a client.  It puts an integer at the limit or back over    *)
(* bytes already written (the lengths of containers), never across the     *)
(* limit, and writes nothing once it finalized the packet.                 *)
WithinOrAppended(n) == position = Limit \/ position + n <= Limit

CodecPut ==
    /\ ~finalized
    /\ \/ \E b \in Byte : PutUint8(b)
       \/ \E n \in IntSizes : \E bytes \in [1..n -> Byte] :
             WithinOrAppended(n) /\ PutInteger(bytes)
       \/ \E array \in Arrays(MaxArray) : PutArray(array)

CodecNext ==
    \/ CodecPut
    \/ Loop
    \/ \E p \in 0..MaxLimit : SetPosition(p)
    \/ Finalize

CodecSpec == Init /\ [][CodecNext]_netVars

----------------------------------------------------------------------------
(* Reading *)

(* ccnxCodecNetworkBuffer_GetUint8, for p < Limit *)
GetUint8(p) ==
    LET block == blocks[FirstHolding(p)] IN block.memory[p - block.begin + 1]

(* CreateParcBuffer: the used part of every block, in order.  `length' is  *)
(* what the output still has room for.                                     *)
Copied(acc, block) ==
    LET available == IF acc.length > block.limit
                     THEN block.limit ELSE acc.length
    IN [length |-> acc.length - available,
        output |-> acc.output \o SubSeq(block.memory, 1, available)]

CreateParcBuffer ==
    LET put[i \in 0..Len(blocks)] ==
          IF i = 0 THEN [length |-> Limit, output |-> <<>>]
          ELSE Copied(put[i - 1], blocks[i])
    IN put[Len(blocks)].output

(* ComputeSignature: the bytes handed to the hasher for [start, end).  A   *)
(* roof below the position makes the length wrap around, and the hasher    *)
(* reads far outside the block: `overrun'.                                 *)
Roof_BlockEnd(block, end) == block.limit
Roof(block, end) == IF end > End(block) THEN block.limit ELSE end

Signed(acc, block, end) ==
    IF acc.stopped \/ acc.position >= End(block)
    THEN [acc EXCEPT !.stopped = TRUE]
    ELSE IF ~ContainsPosition(block, acc.position) THEN acc
    ELSE IF Roof(block, end) < acc.position
    THEN [acc EXCEPT !.overrun = TRUE, !.stopped = TRUE]
    ELSE [acc EXCEPT !.position = Roof(block, end),
                     !.hashed = @ \o SubSeq(block.memory,
                                            acc.position - block.begin + 1,
                                            Roof(block, end) - block.begin)]

SignedBytes(start, end) ==
    LET hash[i \in 0..Len(blocks)] ==
          IF i = 0 THEN [position |-> start, hashed |-> <<>>,
                         stopped |-> FALSE, overrun |-> FALSE]
          ELSE Signed(hash[i - 1], blocks[i], end)
    IN hash[Len(blocks)]

----------------------------------------------------------------------------
(* Properties *)

Content == [p \in 0..(Limit - 1) |-> GetUint8(p)]

Block == [begin : Nat, limit : Nat, capacity : Nat,
          memory : Seq(Byte \cup {Unwritten})]

(* The types of the variables. *)
TypeOK ==
    /\ blocks \in Seq(Block) /\ blocks # <<>>
    /\ current \in DOMAIN blocks
    /\ position \in 0..MaxLimit
    /\ mode \in {"idle", "bytes", "array"}
    /\ pending \in Seq(Byte)
    /\ finalized \in BOOLEAN

(* The blocks tile the linear address space: each begins where the one     *)
(* before it ends, all but the tail are full, and no block claims more     *)
(* than was allocated for it.  Expand, the limit updates of the puts and   *)
(* Finalize each maintain a part of it.                                    *)
Tiles(bs) ==
    /\ bs[1].begin = 0
    /\ \A i \in 1..(Len(bs) - 1) :
          /\ bs[i + 1].begin = End(bs[i])
          /\ bs[i].capacity = bs[i].limit
    /\ \A i \in DOMAIN bs :
          /\ bs[i].limit <= bs[i].capacity
          /\ bs[i].capacity <= Len(bs[i].memory)

BlocksTile == Tiles(blocks)

(* AllocateIfNeeded steps to the next block without looking whether it has *)
(* room.  It always has: only the head can have no capacity at all.  And   *)
(* until the packet is finalized the tail has all that was granted for it, *)
(* so an integer never freezes a tail that nothing was stored in.          *)
Roomy(bs) == \A i \in 2..Len(bs) : bs[i].capacity > 0

RoomAhead ==
    /\ Roomy(blocks)
    /\ ~finalized /\ Len(blocks) > 1 => TailBlock.capacity \in BlockCapacity

(* The cursor never leaves the current block, in the middle of a put       *)
(* neither: `position - current->begin', the index every store uses, does  *)
(* not wrap around and is at most the block's limit.                       *)
CursorInBlock ==
    /\ blocks[current].begin <= position
    /\ position <= End(blocks[current])

(* Every byte of a put, whatever the sequence of operations before it,     *)
(* is stored inside the capacity of the block that holds its position.     *)
MemorySafe ==
    pending # <<>> =>
       \A c \in BlockCapacity :
          LET block == AllocatedBlocks(c)[AllocatedCurrent]
          IN /\ block.begin <= position
             /\ position < block.begin + block.capacity

(* CreateParcBuffer returns what GetUint8 reads, position by position, and *)
(* never a byte of allocated memory that no client stored.                 *)
LinearizedIsContent ==
    /\ Len(CreateParcBuffer) = Limit
    /\ \A p \in 0..(Limit - 1) :
          /\ CreateParcBuffer[p + 1] = GetUint8(p)
          /\ CreateParcBuffer[p + 1] \in Byte

SignsExactly(start, end) ==
    LET signed == SignedBytes(start, end)
    IN /\ ~signed.overrun
       /\ signed.hashed = SubSeq(CreateParcBuffer, start + 1, end)

(* A region that lies in the first block is signed exactly: the digest of  *)
(* ComputeSignature covers its bytes, in order, and no other.              *)
SignatureInHead ==
    \A end \in 0..blocks[1].limit : \A start \in 0..end :
        SignsExactly(start, end)

(* "Runs a PARCSigner over a specified range of the network buffer" (the   *)
(* header on ComputeSignature): any region is signed exactly.              *)
SignatureCoversRegion ==
    \A end \in 0..Limit : \A start \in 0..end : SignsExactly(start, end)

(* A block that another follows is never reshaped: a position a client     *)
(* keeps (the offset of a container) stays an offset into the same block   *)
(* until Finalize drops it.                                                *)
FullBlocksKeepShape ==
    [][\A i \in 1..(Len(blocks) - 1) :
          i < Len(blocks') =>
             /\ blocks'[i].begin = blocks[i].begin
             /\ blocks'[i].limit = blocks[i].limit]_netVars

(* The block list implements the linear array the header promises: every   *)
(* put stores its bytes at the cursor in order and touches no other.       *)
Flat == INSTANCE FlatBuffer
            WITH content <- Content, extent <- Limit, cursor <- position

ImplementsFlatBuffer == Flat!FlatSpec
=============================================================================
