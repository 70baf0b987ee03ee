------------------------------- MODULE PaFifo -------------------------------
(***************************************************************************)
(* s_audio_pa.c without callbacks: Pd's main thread (pa_send_dacs) and the *)
(* audio library's thread (pa_fifo_callback) exchange blocks of samples    *)
(* through two ring buffers and poll; there is no lock.  A unit is one     *)
(* block of DEFDACBLKSIZE frames of all channels, so that both rings have  *)
(* the same size.  The blocks carry numbers, in the order in which Pd      *)
(* computes them and the device records them; 0 is the silence with which  *)
(* the input ring is primed.                                               *)
(***************************************************************************)
EXTENDS Integers

CONSTANTS
    NBUFFERS,     \* nbuffers of pa_open_audio
    PERCALL,      \* blocks the library asks for at a time (framesperbuf)
    Modes,        \* channels opened: subset of {"both", "in", "out"}
    MaxSends,     \* bound: blocks that Pd computes
    MaxLost       \* bound: blocks lost (only without output channels)

ASSUME PaFifoAssumption ==
    /\ NBUFFERS \in Nat \ {0} /\ PERCALL \in Nat \ {0}
    /\ Modes \subseteq {"both", "in", "out"} /\ Modes # {}
    /\ MaxSends \in Nat /\ MaxLost \in Nat \ {0, 1}

N == NBUFFERS * PERCALL   \* the size of a ring

VARIABLES
    mode,
    out_r, out_w, out_buf,    \* pa_outring, written by Pd
    in_r, in_w, in_buf,       \* pa_inring, written by the callback
    pd, pd_n,                 \* where Pd's thread is; elements granted to it
    cb, cb_n,                 \* the same for the callback
    pa_started, pa_dio_error,
    sent, heard,              \* blocks computed; number of the last one played
    caught, got,              \* blocks recorded by the device; number of the last one Pd read
    lost                      \* blocks a full ring refused

vars == <<mode, out_r, out_w, out_buf, in_r, in_w, in_buf, pd, pd_n, cb, cb_n,
          pa_started, pa_dio_error, sent, heard, caught, got, lost>>
outVars == <<out_r, out_w, out_buf>>
inVars  == <<in_r, in_w, in_buf>>

Out == INSTANCE RingBuf WITH
    bufferSize <- N, readIndex <- out_r, writeIndex <- out_w, buffer <- out_buf
In == INSTANCE RingBuf WITH
    bufferSize <- N, readIndex <- in_r, writeIndex <- in_w, buffer <- in_buf

inchannels  == mode # "out"
outchannels == mode # "in"

\* Mutation of Init: the input ring is not primed.
InitUnprimed ==
    /\ mode \in Modes
    /\ Out!Init(0, 0, -1) /\ In!Init(0, 0, -1)
    /\ pd = "top" /\ pd_n = 0 /\ cb = "idle" /\ cb_n = 0
    /\ pa_started = FALSE /\ pa_dio_error = FALSE
    /\ sent = 0 /\ heard = 0 /\ caught = 0 /\ got = 0 /\ lost = 0

\* pa_open_audio: silence fills the input ring, the output ring is empty.
Init ==
    /\ mode \in Modes
    /\ Out!Init(0, 0, -1) /\ In!Init(N, 0, -1)
    /\ pd = "top" /\ pd_n = 0 /\ cb = "idle" /\ cb_n = 0
    /\ pa_started = FALSE /\ pa_dio_error = FALSE
    /\ sent = 0 /\ heard = 0 /\ caught = 0 /\ got = 0 /\ lost = 0

-----------------------------------------------------------------------------
(* pa_send_dacs.                                                           *)

\* Pd has computed a block.  Without input channels it waits for room first.
SendEnter ==
    /\ pd = "top"
    /\ sent < MaxSends
    /\ sent' = sent + 1
    /\ pa_dio_error' = FALSE
    /\ pd' = IF ~inchannels THEN "room" ELSE "write"
    /\ UNCHANGED <<mode, outVars, inVars, pd_n, cb, cb_n, pa_started, heard, caught, got, lost>>

SendRoom ==
    /\ pd = "room"
    /\ Out!GetWriteAvailable >= 1
    /\ pd' = "write"
    /\ UNCHANGED <<mode, outVars, inVars, pd_n, cb, cb_n, pa_started, pa_dio_error,
                   sent, heard, caught, got, lost>>

\* The ring may grant nothing: the block is then lost, without a word.
SendWriteRegions ==
    /\ pd = "write"
    /\ IF outchannels
       THEN /\ pd_n' = Out!WriteRegions(1)
            /\ lost' = lost + 1 - pd_n'
            /\ pd' = "writing"
       ELSE /\ pd' = "wait"
            /\ UNCHANGED <<pd_n, lost>>
    /\ UNCHANGED <<mode, outVars, inVars, cb, cb_n, pa_started, pa_dio_error,
                   sent, heard, caught, got>>

SendWrite ==
    /\ pd = "writing"
    /\ Out!Write(pd_n, <<sent>>)
    /\ pd' = IF inchannels THEN "wait" ELSE "top"
    /\ pd_n' = 0
    /\ pa_started' = (pa_started \/ ~inchannels)
    /\ UNCHANGED <<mode, inVars, cb, cb_n, pa_dio_error, sent, heard, caught, got, lost>>

\* With input channels, it waits here instead.
SendWait ==
    /\ pd = "wait"
    /\ In!GetReadAvailable >= 1
    /\ pd_n' = In!ReadRegions(1)
    /\ pa_started' = TRUE
    /\ pd' = "reading"
    /\ UNCHANGED <<mode, outVars, inVars, cb, cb_n, pa_dio_error, sent, heard, caught, got, lost>>

SendRead ==
    /\ pd = "reading"
    /\ In!Read(pd_n)
    /\ got' = In!ReadElement(1)
    /\ pd_n' = 0
    /\ pd' = "top"
    /\ UNCHANGED <<mode, outVars, cb, cb_n, pa_started, pa_dio_error, sent, heard, caught, lost>>

pa_send_dacs ==
    SendEnter \/ SendRoom \/ SendWriteRegions \/ SendWrite \/ SendWait \/ SendRead

-----------------------------------------------------------------------------
(* pa_fifo_callback.                                                       *)

\* Mutation of Enough: the callback takes what there is.
EnoughAlways == TRUE

\* Without output channels the output ring is not consulted.
Enough == ~outchannels \/ Out!GetReadAvailable >= PERCALL

CallbackEnter ==
    /\ cb = "idle"
    /\ Enough
    /\ lost < MaxLost
    /\ IF outchannels THEN cb' = "playing" /\ cb_n' = Out!ReadRegions(PERCALL)
                      ELSE cb' = "record" /\ UNCHANGED cb_n
    /\ UNCHANGED <<mode, outVars, inVars, pd, pd_n, pa_started, pa_dio_error,
                   sent, heard, caught, got, lost>>

\* Pd could not keep up: zeros, and neither ring moves.
CallbackUnderrun ==
    /\ cb = "idle"
    /\ ~Enough
    /\ pa_dio_error' = (pa_dio_error \/ pa_started)
    /\ UNCHANGED <<mode, outVars, inVars, pd, pd_n, cb, cb_n, pa_started,
                   sent, heard, caught, got, lost>>

CallbackPlay ==
    /\ cb = "playing"
    /\ Out!Read(cb_n)
    /\ heard' = Out!ReadElement(cb_n)
    /\ cb_n' = 0
    /\ cb' = IF inchannels THEN "record" ELSE "idle"
    /\ UNCHANGED <<mode, inVars, pd, pd_n, pa_started, pa_dio_error, sent, caught, got, lost>>

CallbackRecordRegions ==
    /\ cb = "record"
    /\ cb_n' = In!WriteRegions(PERCALL)
    /\ lost' = lost + PERCALL - cb_n'
    /\ cb' = "recording"
    /\ UNCHANGED <<mode, outVars, inVars, pd, pd_n, pa_started, pa_dio_error,
                   sent, heard, caught, got>>

CallbackRecord ==
    /\ cb = "recording"
    /\ In!Write(cb_n, [k \in 1 .. PERCALL |-> caught + k])
    /\ caught' = caught + PERCALL
    /\ cb_n' = 0
    /\ cb' = "idle"
    /\ UNCHANGED <<mode, outVars, pd, pd_n, pa_started, pa_dio_error, sent, heard, got, lost>>

pa_fifo_callback ==
    CallbackEnter \/ CallbackUnderrun \/ CallbackPlay \/ CallbackRecordRegions \/ CallbackRecord

Next == pa_send_dacs \/ pa_fifo_callback

Spec == Init /\ [][Next]_vars

\* Pd's thread runs, and the library goes on calling back.
FairSpec == Spec /\ WF_vars(pa_send_dacs) /\ WF_vars(pa_fifo_callback)

-----------------------------------------------------------------------------
(* Properties.                                                             *)

\* Every variable is in its type, and both rings pass the consistency check of
\* sys_ringbuf_GetReadAvailable.
TypeOK ==
    /\ mode \in Modes
    /\ Out!Consistent /\ In!Consistent
    /\ pd \in {"top", "room", "write", "writing", "wait", "reading"} /\ pd_n \in {0, 1}
    /\ cb \in {"idle", "playing", "record", "recording"} /\ cb_n \in 0 .. PERCALL
    /\ pa_started \in BOOLEAN /\ pa_dio_error \in BOOLEAN
    /\ sent \in 0 .. MaxSends /\ caught \in Nat /\ lost \in Nat

\* While both threads are copying in the same ring they use different slots:
\* the rings need no lock.
NoOverlap ==
    /\ (pd = "writing" /\ cb = "playing") =>
          Out!Slots(out_w, pd_n) \cap Out!Slots(out_r, cb_n) = {}
    /\ (pd = "reading" /\ cb = "recording") =>
          In!Slots(in_r, pd_n) \cap In!Slots(in_w, cb_n) = {}

\* A stream with input and output, or with output only, loses at most one
\* block in its whole life, whichever way Pd and the callback interleave, and
\* however often the output runs dry.
LosesAtMostOne ==
    /\ mode = "both" => lost <= 1
    /\ mode = "out" => lost = 0

\* The contents of the rings as queues.  Pd offers its last block when it has copied it.
Played == INSTANCE BlockQueue WITH
    Size <- N, Burst <- 1, Primed <- 0,
    queue <- Out!Contents, taken <- heard,
    room <- IF pd = "writing" THEN pd_n ELSE -1,
    offered <- IF ~outchannels THEN 0
               ELSE IF pd \in {"room", "write", "writing"} THEN sent - 1 ELSE sent
Recorded == INSTANCE BlockQueue WITH
    Size <- N, Burst <- PERCALL, Primed <- N,
    queue <- In!Contents, taken <- got,
    room <- IF cb = "recording" THEN cb_n ELSE -1,
    offered <- caught

\* Each ring, with its indices and its copies outside any lock, implements a queue:
\* blocks are played, and recorded blocks read, in order, none twice, none before it
\* is whole, and none left out but those for which there was no room when the writer
\* asked (sys_ringbuf_Write, sys_ringbuf_Read).
RingsAreQueues == Played!QueueSpec /\ Recorded!QueueSpec

\* sys_send_dacs always returns: Pd waiting for input that the callback only
\* supplies when it has output cannot be waiting for itself.
SendReturns == (pd # "top") ~> (pd = "top" \/ lost >= MaxLost)
=============================================================================
