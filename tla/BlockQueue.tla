----------------------------- MODULE BlockQueue -----------------------------
(***************************************************************************)
(* What a ring of s_audio_paring.c promises to one writer and one reader:  *)
(* a bounded queue of numbered blocks.  The writer offers Burst blocks at  *)
(* a time.  Those for which there is room at the moment it asks are queued *)
(* once they are copied, the others are dropped; the reader gets blocks    *)
(* from the front, whole and once.                                         *)
(***************************************************************************)
EXTENDS Integers, Sequences

CONSTANTS
    Size,       \* how many blocks fit
    Burst,      \* how many are offered at a time
    Primed      \* blocks of silence in the queue at first

VARIABLES
    queue,      \* numbers of blocks, 0 for silence
    offered,    \* the number of the last block offered
    room,       \* how many of the next Burst blocks were granted room, None before it asks
    taken       \* the number of the last block the reader got

None == -1
qvars == <<queue, offered, room, taken>>

QueueInit ==
    /\ queue = [k \in 1 .. Primed |-> 0]
    /\ offered = 0 /\ room = None /\ taken = 0

Ask ==
    /\ room = None
    /\ LET left == Size - Len(queue) IN room' = IF Burst > left THEN left ELSE Burst
    /\ UNCHANGED <<queue, offered, taken>>

Put ==
    /\ room # None
    /\ queue' = queue \o [k \in 1 .. room |-> offered + k]
    /\ offered' = offered + Burst
    /\ room' = None
    /\ UNCHANGED taken

Take(n) ==
    /\ taken' = queue[n]
    /\ queue' = SubSeq(queue, n + 1, Len(queue))
    /\ UNCHANGED <<offered, room>>

QueueNext == Ask \/ Put \/ \E n \in 1 .. Len(queue) : Take(n)

QueueSpec == QueueInit /\ [][QueueNext]_qvars
=============================================================================
