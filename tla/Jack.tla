-------------------------------- MODULE Jack --------------------------------
(***************************************************************************)
(* s_audio_jack.c without callbacks: Pd's thread (jack_send_dacs) and the  *)
(* thread of the JACK library (process) exchange samples through two       *)
(* linear buffers, under a mutex and a condition; a third thread announces *)
(* the death of the server (jack_shutdown) and closes audio without the    *)
(* mutex.  A slot of a buffer stands for a few frames of all channels, and *)
(* says what became of the samples in it:                                  *)
(*   "silence"  never written since the buffer was allocated               *)
(*   "new"      written by one side and not yet taken by the other         *)
(*   "taken"    written by one side and taken by the other                 *)
(*   "stale"    discarded, or left from the period before an underrun      *)
(***************************************************************************)
EXTENDS Integers

CONSTANTS
    BLK,          \* slots of a block (DEFDACBLKSIZE); also JACK_OUT_MAX
    BUF_JACK,     \* slots of a buffer
    Periods,      \* the values of nframes; the server may change it at any time
    MaxSpurious   \* bound: waits that end without a broadcast

\* Nothing is assumed of the periods: the code checks neither that they have a whole
\* block nor that they fit into the buffers.
ASSUME JackAssumption ==
    /\ {BLK, BUF_JACK} \subseteq Nat \ {0} /\ MaxSpurious \in Nat
    /\ Periods # {} /\ Periods \subseteq Nat \ {0}

VARIABLES
    audio,            \* audio_isopen(), and the channel counts that go with it
    jack_client,      \* whether there is a client
    active,           \* whether the server calls process
    jack_mutex,       \* "free", "pd" or "process"
    jack_filled, jack_out_max, jack_started, jack_dio_error,
    jack_outbuf, jack_inbuf,
    allocated,        \* whether the buffers are
    pd, process,      \* where the two threads are
    nframes,          \* of the last call of process for this client, 0 before the first
    shutdown,         \* where the shutdown thread is
    partial,          \* "Partial read" was printed
    resized,          \* the server changed nframes
    torn,             \* the mutex was initialised while process held it
    late,             \* audio was closed after this jack_send_dacs looked at jack_client
    freed,            \* the buffers were freed under a thread that uses them
    overrun,          \* a block was copied past the end of the buffers
    spurious,         \* waits that ended without a broadcast
    small,            \* process was called for less than a block
    widest            \* the largest jack_out_max so far

client  == <<audio, jack_client, active, allocated>>
buffers == <<jack_outbuf, jack_inbuf>>
stream  == <<jack_filled, jack_out_max, jack_started, jack_dio_error, jack_outbuf, jack_inbuf>>
server  == <<process, nframes, shutdown>>
faults  == <<partial, resized, torn, late, freed, overrun, spurious>>
history == <<small, widest>>
vars == <<client, jack_mutex, stream, pd, server, faults, history>>

Slots == 0 .. BUF_JACK - 1

Init ==
    /\ audio = FALSE /\ jack_client = FALSE /\ active = FALSE
    /\ jack_mutex = "free"
    /\ jack_filled = 0 /\ jack_out_max = 0
    /\ jack_started = FALSE /\ jack_dio_error = FALSE
    /\ jack_outbuf = [s \in Slots |-> "silence"] /\ jack_inbuf = [s \in Slots |-> "silence"]
    /\ allocated = FALSE
    /\ pd = "idle" /\ process = "idle" /\ nframes = 0 /\ shutdown = "idle"
    /\ partial = FALSE /\ resized = FALSE /\ torn = FALSE /\ late = FALSE
    /\ freed = FALSE /\ overrun = FALSE /\ spurious = 0 /\ small = FALSE /\ widest = 0

-----------------------------------------------------------------------------
(* jack_open_audio and jack_close_audio, called by Pd's thread.            *)

\* Mutation of Allocate: the buffers are kept.
AllocateNot == UNCHANGED <<jack_outbuf, jack_inbuf>>

Allocate ==
    /\ jack_outbuf' = [s \in Slots |-> "silence"]
    /\ jack_inbuf' = [s \in Slots |-> "silence"]

\* A new client, with new buffers.  jack_filled and jack_out_max are not reset.
\* After jack_activate the server calls process, though the mutex is not
\* initialised yet.
OpenNew ==
    /\ pd = "idle" /\ ~audio /\ ~jack_client
    /\ jack_client' = TRUE /\ allocated' = TRUE
    /\ Allocate
    /\ jack_dio_error' = FALSE
    /\ \/ active' = TRUE /\ pd' = "opening"
       \/ active' = FALSE /\ pd' = "idle"     \* cannot activate: the client stays
    /\ nframes' = 0
    /\ UNCHANGED <<audio, jack_mutex, jack_filled, jack_out_max, jack_started, process,
                   shutdown, faults, history>>

\* No server can be reached, or started: jack_client_open gives no client.
OpenFailed ==
    /\ pd = "idle" /\ ~audio /\ ~jack_client
    /\ jack_dio_error' = FALSE
    /\ UNCHANGED <<client, jack_mutex, jack_filled, jack_out_max, jack_started, buffers, pd,
                   server, faults, history>>

\* pthread_mutex_init makes the mutex free, whoever holds it.
OpenInit ==
    /\ pd = "opening"
    /\ torn' = (torn \/ jack_mutex # "free")
    /\ jack_mutex' = "free"
    /\ audio' = TRUE
    /\ pd' = "idle"
    /\ UNCHANGED <<jack_client, active, stream, allocated, server, partial, resized,
                   late, freed, overrun, spurious, history>>

\* The client that could not be activated is taken for a running one.
OpenAgain ==
    /\ pd = "idle" /\ ~audio /\ jack_client
    /\ audio' = TRUE
    /\ jack_dio_error' = FALSE
    /\ UNCHANGED <<jack_client, active, jack_mutex, jack_filled, jack_out_max,
                   jack_started, buffers, allocated, pd, server, faults, history>>

\* Mutation of Broadcast: no one is woken.
BroadcastNot == UNCHANGED pd

\* pthread_cond_broadcast; only Pd's thread ever waits.
Broadcast == pd' = IF pd = "asleep" THEN "woken" ELSE pd

\* Pd's thread closes audio: jack_deactivate waits for process to return.
Close ==
    /\ pd = "idle" /\ audio
    /\ process = "idle"
    /\ audio' = FALSE /\ jack_client' = FALSE /\ active' = FALSE
    /\ jack_started' = FALSE
    /\ Broadcast
    /\ allocated' = FALSE
    /\ jack_mutex' = "free"
    /\ UNCHANGED <<jack_filled, jack_out_max, jack_dio_error, buffers, server, faults,
                   history>>

-----------------------------------------------------------------------------
(* The shutdown thread: the server is gone and calls process no more.      *)

ShutdownClient ==
    /\ shutdown = "idle" /\ active /\ process = "idle"
    /\ active' = FALSE /\ jack_client' = FALSE
    /\ shutdown' = "closing"
    /\ UNCHANGED <<audio, jack_mutex, stream, allocated, pd, process, nframes, faults,
                   history>>

\* glob_audio_setapi: nothing if audio is not open, or not yet.  If Pd has closed
\* audio and opened it again meanwhile, this closes the new client.
ShutdownClose ==
    /\ shutdown = "closing"
    /\ IF audio
       THEN /\ process = "idle"
            /\ jack_client' = FALSE /\ active' = FALSE
            /\ jack_started' = FALSE
            /\ Broadcast
            /\ late' = (late \/ pd = "lock")
            /\ shutdown' = "freeing"
       ELSE /\ shutdown' = "idle"
            /\ UNCHANGED <<jack_client, active, jack_started, pd, late>>
    /\ UNCHANGED <<audio, jack_mutex, jack_filled, jack_out_max, jack_dio_error,
                   buffers, allocated, process, nframes, partial, resized, torn, freed,
                   overrun, spurious, history>>

\* The condition and the mutex are destroyed (after which the mutex can be taken,
\* or looks so) and the buffers freed.
ShutdownFree ==
    /\ shutdown = "freeing"
    /\ audio' = FALSE
    /\ allocated' = FALSE
    /\ freed' = (freed \/ pd = "copying" \/ jack_client)
    /\ jack_mutex' = IF jack_mutex = "pd" THEN "pd" ELSE "free"
    /\ shutdown' = "idle"
    /\ UNCHANGED <<jack_client, active, stream, pd, process, nframes, partial, resized,
                   torn, late, overrun, spurious, history>>

-----------------------------------------------------------------------------
(* jack_send_dacs.                                                         *)

\* jack_client and the channel counts are read without the mutex.
SendEnter ==
    /\ pd = "idle" /\ audio /\ jack_client
    /\ jack_dio_error' = FALSE
    /\ pd' = "lock"
    /\ UNCHANGED <<client, jack_mutex, jack_filled, jack_out_max, jack_started, buffers,
                   server, faults, history>>

\* Mutation of Full: Pd waits one slot too late.
FullLate == jack_filled > jack_out_max

Full == jack_filled >= jack_out_max

\* An "if", not a "while": Pd waits at most once.
SendLock ==
    /\ pd = "lock" /\ jack_mutex = "free"
    /\ IF Full THEN pd' = "asleep" /\ UNCHANGED jack_mutex
               ELSE pd' = "in" /\ jack_mutex' = "pd"
    /\ UNCHANGED <<client, stream, server, faults, history>>

\* pthread_cond_wait may return without a broadcast.
SpuriousWakeup ==
    /\ pd = "asleep" /\ spurious < MaxSpurious
    /\ pd' = "woken"
    /\ spurious' = spurious + 1
    /\ UNCHANGED <<client, jack_mutex, stream, server, partial, resized, torn, late,
                   freed, overrun, history>>

SendRelock ==
    /\ pd = "woken" /\ jack_mutex = "free"
    /\ pd' = "in" /\ jack_mutex' = "pd"
    /\ UNCHANGED <<client, stream, server, faults, history>>

SendCheck ==
    /\ pd = "in"
    /\ IF jack_client
       THEN pd' = "copying" /\ UNCHANGED jack_mutex
       ELSE pd' = "idle" /\ jack_mutex' = "free"
    /\ late' = FALSE
    /\ UNCHANGED <<client, stream, server, partial, resized, torn, freed, overrun, spurious,
                   history>>

\* The slots of the block that Pd writes and reads.
Block == jack_filled .. jack_filled + BLK - 1

\* The copies go past the end of the buffers if there is no room behind jack_filled.
SendCopy ==
    /\ pd = "copying"
    /\ overrun' = (jack_filled + BLK > BUF_JACK)
    /\ jack_started' = TRUE
    /\ jack_outbuf' = [s \in Slots |-> IF s \in Block THEN "new" ELSE jack_outbuf[s]]
    /\ jack_inbuf' = [s \in Slots |->
                        IF s \in Block /\ jack_inbuf[s] = "new" THEN "taken" ELSE jack_inbuf[s]]
    /\ jack_filled' = jack_filled + BLK
    /\ jack_mutex' = "free"
    /\ pd' = "idle"
    /\ UNCHANGED <<client, jack_out_max, jack_dio_error, server, partial, resized, torn,
                   late, freed, spurious, history>>

jack_send_dacs ==
    \/ SendEnter \/ SendLock \/ SpuriousWakeup \/ SendRelock \/ SendCheck \/ SendCopy

-----------------------------------------------------------------------------
(* process.                                                                *)

ProcessLock(n) ==
    /\ active /\ process = "idle" /\ jack_mutex = "free"
    /\ jack_mutex' = "process" /\ process' = "in"
    /\ nframes' = n
    /\ resized' = (resized \/ nframes \notin {0, n})
    /\ jack_out_max' = IF n > BLK THEN n ELSE BLK
    /\ small' = (small \/ n < BLK)
    /\ widest' = IF jack_out_max' > widest THEN jack_out_max' ELSE widest
    /\ UNCHANGED <<client, jack_filled, jack_started, jack_dio_error, buffers, pd,
                   shutdown, partial, torn, late, freed, overrun, spurious>>

\* Mutation of Enough: a period is played though a block of it is missing.
EnoughSoon == jack_filled + BLK >= nframes

Enough == jack_filled >= nframes

\* The server gets the first nframes of the output, and what is left behind them
\* is not moved down.
ProcessPlay ==
    /\ process = "in" /\ Enough
    /\ jack_outbuf' = [s \in Slots |->
                         IF s < nframes /\ jack_outbuf[s] = "new" THEN "taken" ELSE jack_outbuf[s]]
    /\ jack_inbuf' = [s \in Slots |-> IF s < nframes THEN "new" ELSE jack_inbuf[s]]
    /\ jack_filled' = jack_filled - nframes
    /\ partial' = (partial \/ jack_filled # nframes)
    /\ Broadcast
    /\ jack_mutex' = "free" /\ process' = "idle"
    /\ UNCHANGED <<client, jack_out_max, jack_started, jack_dio_error, nframes,
                   shutdown, resized, torn, late, freed, overrun, spurious, history>>

\* Pd could not keep up: what it has written is cleared.
ProcessUnderrun ==
    /\ process = "in" /\ ~Enough
    /\ jack_dio_error' = (jack_dio_error \/ jack_started)
    /\ jack_outbuf' = [s \in Slots |-> "silence"]
    /\ jack_inbuf' = [s \in Slots |-> IF jack_inbuf[s] = "silence" THEN "silence" ELSE "stale"]
    /\ jack_filled' = 0
    /\ Broadcast
    /\ jack_mutex' = "free" /\ process' = "idle"
    /\ UNCHANGED <<client, jack_out_max, jack_started, nframes, shutdown, faults, history>>

\* jack_xrun: the server itself was late.
Xrun ==
    /\ active
    /\ jack_dio_error' = TRUE
    /\ UNCHANGED <<client, jack_mutex, jack_filled, jack_out_max, jack_started, buffers,
                   pd, server, faults, history>>

Process == (\E n \in Periods : ProcessLock(n)) \/ ProcessPlay \/ ProcessUnderrun
Shutdown == ShutdownClient \/ ShutdownClose \/ ShutdownFree

\* What follows the use of freed buffers, or a copy past their end, is undefined: the
\* behaviour stops.
Next ==
    /\ ~freed /\ ~overrun
    /\ \/ OpenNew \/ OpenFailed \/ OpenInit \/ OpenAgain \/ Close
       \/ jack_send_dacs \/ Process \/ Xrun \/ Shutdown

Spec == Init /\ [][Next]_vars

\* An active server goes on calling process, a shutdown is carried through, Pd's
\* thread runs; and a thread that waits for a mutex that is free again and again
\* obtains it at last.
Fairness ==
    /\ SF_vars(Process) /\ SF_vars(SendLock) /\ SF_vars(SendRelock)
    /\ WF_vars(SendCheck) /\ WF_vars(SendCopy) /\ WF_vars(OpenInit)
    /\ WF_vars(ShutdownClose) /\ WF_vars(ShutdownFree)

FairSpec == Spec /\ Fairness

-----------------------------------------------------------------------------
(* Properties.                                                             *)

Marks == {"silence", "new", "taken", "stale"}

\* Every variable is in its type; jack_filled stays inside the buffers as long as
\* no block is copied past their end.
TypeOK ==
    /\ {audio, jack_client, active, jack_started, jack_dio_error, allocated} \subseteq BOOLEAN
    /\ {partial, resized, torn, late, freed, overrun, small} \subseteq BOOLEAN
    /\ jack_mutex \in {"free", "pd", "process"}
    /\ jack_filled \in Nat /\ (~overrun => jack_filled <= BUF_JACK)
    /\ {jack_out_max, widest} \subseteq Periods \union {0, BLK}
    /\ jack_outbuf \in [Slots -> Marks] /\ jack_inbuf \in [Slots -> Marks]
    /\ pd \in {"idle", "opening", "lock", "asleep", "woken", "in", "copying"}
    /\ process \in {"idle", "in"} /\ nframes \in Periods \union {0}
    /\ shutdown \in {"idle", "closing", "freeing"}
    /\ spurious \in 0 .. MaxSpurious

\* What the code needs of the server and does not check.  The wait is an "if": each
\* call of process for less than a block lets jack_filled grow by the difference, and
\* each spurious wake-up by a block; and a block may go behind a period less one.
Fits == ~small /\ widest + (spurious + 1) * BLK - 1 <= BUF_JACK

\* jack_send_dacs copies a block past the end of the buffers only if the periods and
\* the wake-ups so far do not fit.  It copies into buffers that exist, and not while
\* process copies too; except after the mutex was initialised under process, or the
\* buffers were freed by the shutdown thread.
CopiesAreSafe ==
    /\ overrun => ~Fits
    /\ pd = "copying" =>
          /\ ~freed => allocated
          /\ (~torn /\ ~freed) => process = "idle"

\* The exceptions of NoneLostNoneTwice: the code prints "Partial read", the server
\* changes its period, or a buffer is used without the lock or past its end.
Disturbed == partial' \/ resized \/ torn \/ freed \/ overrun'

\* Pd overwrites no output that was not played, and reads no input twice;
\* process plays nothing twice and overwrites no input that Pd has not read;
\* and when it discards what Pd has written, the error is reported.
NoneLostNoneTwice ==
    [][Disturbed \/
         /\ (pd = "copying" /\ pd' = "idle") =>
               \A s \in Block : jack_outbuf[s] # "new" /\ jack_inbuf[s] # "taken"
         /\ (process = "in" /\ process' = "idle" /\ Enough) =>
               /\ \A s \in 0 .. nframes - 1 : jack_outbuf[s] \notin {"taken", "stale"}
               /\ \A s \in Slots : jack_inbuf[s] # "new"
         /\ (process = "in" /\ process' = "idle" /\ ~Enough) =>
               (jack_dio_error' \/ \A s \in Slots : jack_outbuf[s] # "new")]_vars

\* A client that jack_open_audio has kept though it could not be activated.
Inert == jack_client /\ ~active

\* sys_send_dacs returns, also when the server dies while Pd waits for it;
\* except with an inert client, and when the shutdown thread has broadcast
\* after Pd looked at jack_client and before it went to sleep, or closed a client
\* opened meanwhile.
SendReturns == (pd = "lock") ~> (pd = "idle" \/ Inert \/ late \/ freed)
=============================================================================
