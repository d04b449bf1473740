------------------------- MODULE NetworkBufferIoVec -------------------------
(***************************************************************************)
(* The reference counts of a network buffer and of the CCNxCodecNetwork-   *)
(* BufferIoVec objects made from it (ccnxCodec_NetworkBuffer.c, Acquire    *)
(* to Release and the IoVec section).  An IoVec holds one reference to the *)
(* buffer and a copy, taken when it is created, of where every block lies  *)
(* and how much of it is used; a gathering write reads through that copy.  *)
(*                                                                         *)
(* `handles' is history: how many references clients hold to the buffer    *)
(* itself.  Buffer memory is returned when refcount drops to zero.         *)
(***************************************************************************)
EXTENDS NetworkBuffer, FiniteSets

CONSTANTS
    Vec,       \* the IoVec objects a run creates
    MaxRefs    \* bound on the references held to one object

VARIABLES refcount, handles, vecs

refVars == <<refcount, handles, vecs>>
ioVars == <<netVars, refVars>>

(* An IoVec that was not created yet, or was released, has no references.  *)
NoVec == [refcount |-> 0, array |-> <<>>, totalBytes |-> 0]
Live == {v \in Vec : vecs[v].refcount > 0}

(* A client operates on the buffer through a handle.  The codec finalizes  *)
(* before it creates an IoVec, never while one is in use.                  *)
BufferStep ==
    /\ handles > 0
    /\ \/ CodecPut \/ Loop
       \/ \E p \in 0..MaxLimit : SetPosition(p)
       \/ Live = {} /\ Finalize
    /\ UNCHANGED refVars

(* ccnxCodecNetworkBuffer_Acquire, ccnxCodecNetworkBuffer_Release *)
Acquire ==
    /\ Idle /\ handles \in 1..(MaxRefs - 1)
    /\ refcount' = refcount + 1
    /\ handles' = handles + 1
    /\ UNCHANGED <<netVars, vecs>>

Release ==
    /\ Idle /\ handles > 0
    /\ refcount' = refcount - 1
    /\ handles' = handles - 1
    /\ UNCHANGED <<netVars, vecs>>

(* ccnxCodecNetworkBuffer_CreateIoVec: (block, length) of every block *)
Snapshot_Capacity ==
    [i \in DOMAIN blocks |-> [block |-> i, length |-> blocks[i].capacity]]
Snapshot == [i \in DOMAIN blocks |-> [block |-> i, length |-> blocks[i].limit]]

(* The loop over the blocks adds their limits up. *)
TotalBytes ==
    LET total[i \in 0..Len(blocks)] ==
          IF i = 0 THEN 0 ELSE total[i - 1] + blocks[i].limit
    IN total[Len(blocks)]

CreateIoVec_NoReference(v) ==
    /\ Idle /\ handles > 0
    /\ v \notin Live
    /\ vecs' = [vecs EXCEPT ![v] =
          [refcount |-> 1, array |-> Snapshot, totalBytes |-> Limit]]
    /\ UNCHANGED <<netVars, handles, refcount>>
CreateIoVec(v) ==
    /\ Idle /\ handles > 0
    /\ v \notin Live
    /\ refcount' = refcount + 1
    /\ vecs' = [vecs EXCEPT ![v] =
          [refcount |-> 1, array |-> Snapshot, totalBytes |-> TotalBytes]]
    /\ UNCHANGED <<netVars, handles>>

IoVecAcquire(v) ==
    /\ Idle /\ v \in Live
    /\ vecs[v].refcount < MaxRefs
    /\ vecs' = [vecs EXCEPT ![v].refcount = @ + 1]
    /\ UNCHANGED <<netVars, refcount, handles>>

(* The last reference to the IoVec gives up its reference to the buffer. *)
IoVecRelease(v) ==
    /\ Idle /\ v \in Live
    /\ IF vecs[v].refcount = 1
       THEN /\ vecs' = [vecs EXCEPT ![v] = NoVec]
            /\ refcount' = refcount - 1
       ELSE /\ vecs' = [vecs EXCEPT ![v].refcount = @ - 1]
            /\ UNCHANGED refcount
    /\ UNCHANGED <<netVars, handles>>

IoInit ==
    /\ Init
    /\ refcount = 1 /\ handles = 1
    /\ vecs = [v \in Vec |-> NoVec]

IoNext ==
    \/ BufferStep
    \/ Acquire \/ Release
    \/ \E v \in Vec : CreateIoVec(v) \/ IoVecAcquire(v) \/ IoVecRelease(v)

(* A put's loop runs in the thread of its caller, on a buffer the caller   *)
(* holds: nothing but the code itself can keep its next step from coming.  *)
PutLoop == Loop /\ UNCHANGED refVars

IoSpec == IoInit /\ [][IoNext]_ioVars
LiveSpec == IoSpec /\ WF_ioVars(PutLoop)

----------------------------------------------------------------------------

(* The buffer's memory lives exactly as long as somebody can reach it: its *)
(* count is the clients' handles plus one per live IoVec, in every order   *)
(* of acquiring and releasing the two kinds of object.                     *)
RefcountExact == refcount = handles + Cardinality(Live)

(* What a gathering write sends for IoVec v. *)
Gathered(v) ==
    FlattenSeq([i \in DOMAIN vecs[v].array |->
        LET e == vecs[v].array[i]
        IN SubSeq(blocks[e.block].memory, 1, e.length)])

(* An IoVec in use keeps naming blocks the buffer still has, and gathers   *)
(* totalBytes bytes that are the beginning of the packet, whatever is put  *)
(* into the buffer after it was created.                                   *)
IoVecIsPacketPrefix ==
    \A v \in Live :
        /\ \A i \in DOMAIN vecs[v].array : vecs[v].array[i].block \in DOMAIN blocks
        /\ Gathered(v) = SubSeq(CreateParcBuffer, 1, vecs[v].totalBytes)

(* A put that began returns: PutArray's loop leaves a full block, and the  *)
(* room of the next one shortens what is pending, from every position and  *)
(* for every split over blocks.  A cursor that stayed behind would let the *)
(* loop go on for ever, a store that does not fit would stop it.           *)
PutsComplete == ~Idle ~> Idle
=============================================================================
