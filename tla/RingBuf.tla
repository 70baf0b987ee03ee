------------------------------ MODULE RingBuf ------------------------------
(***************************************************************************)
(* The lock-free ring buffer of s_audio_paring.c, for one writer and one   *)
(* reader.  The two indices run modulo twice the size, so that a full      *)
(* buffer can be told from an empty one.  Both are volatile and each is    *)
(* written by one side only, after that side has finished copying: an      *)
(* operation is therefore two steps, first the number of elements and the  *)
(* region it may use, then the copy and the index.  An element stands for  *)
(* the bytes of one block of samples.                                      *)
(***************************************************************************)
EXTENDS Integers

CONSTANT bufferSize

VARIABLES readIndex, writeIndex, buffer

\* sys_ringbuf_Init and sys_ringbuf_Flush: the first nfill elements are zeros.
Init(nfill, zero, garbage) ==
    /\ readIndex = 0
    /\ writeIndex = nfill
    /\ buffer = [s \in 0 .. bufferSize - 1 |-> IF s < nfill THEN zero ELSE garbage]

GetReadAvailable ==
    LET ret == writeIndex - readIndex
    IN  IF ret < 0 THEN ret + 2 * bufferSize ELSE ret

GetWriteAvailable == bufferSize - GetReadAvailable

\* Mutation of WriteRegions: the room is not consulted.
WriteRegionsBlind(n) == n

\* How many of n elements GetWriteRegions and GetReadRegions grant.
WriteRegions(n) == IF n > GetWriteAvailable THEN GetWriteAvailable ELSE n
ReadRegions(n)  == IF n > GetReadAvailable THEN GetReadAvailable ELSE n

\* The one or two regions of n elements from index on, as the set of slots.
Slots(index, n) == {(index + k) % bufferSize : k \in 0 .. n - 1}

\* Mutations of Advance: the index is not wrapped; it is wrapped at the size.
AdvanceNoWrap(index, n) == index + n
AdvanceOnce(index, n) == (index + n) % bufferSize

Advance(index, n) ==
    IF index + n >= 2 * bufferSize THEN index + n - 2 * bufferSize ELSE index + n

\* sys_ringbuf_Write once the regions are known: the n elements of data are
\* copied and then the index is advanced.
Write(n, data) ==
    /\ buffer' = [s \in 0 .. bufferSize - 1 |->
                    IF \E k \in 0 .. n - 1 : (writeIndex + k) % bufferSize = s
                    THEN data[(CHOOSE k \in 0 .. n - 1 : (writeIndex + k) % bufferSize = s) + 1]
                    ELSE buffer[s]]
    /\ writeIndex' = Advance(writeIndex, n)
    /\ UNCHANGED readIndex

\* sys_ringbuf_Read once the regions are known: the k-th element it copies out.
ReadElement(k) == buffer[(readIndex + k - 1) % bufferSize]

Read(n) ==
    /\ readIndex' = Advance(readIndex, n)
    /\ UNCHANGED <<writeIndex, buffer>>

\* All elements that can be read, the next one first.
Contents == [k \in 1 .. GetReadAvailable |-> ReadElement(k)]

\* The consistency check of sys_ringbuf_GetReadAvailable.
Consistent ==
    /\ readIndex \in 0 .. 2 * bufferSize - 1
    /\ writeIndex \in 0 .. 2 * bufferSize - 1
    /\ GetReadAvailable \in 0 .. bufferSize
=============================================================================
