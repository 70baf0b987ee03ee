------------------------------ MODULE Writesf ------------------------------
(***************************************************************************)
(* writesf~ of d_soundfile.c: the DSP perform routine, in Pd's thread,     *)
(* puts samples into a circular buffer, and a child thread writes them to  *)
(* a soundfile.  The object, its mutex and its conditions are those of     *)
(* readsf~ (module Readsf), used the other way round, and the same         *)
(* conventions hold here.                                                  *)
(*                                                                         *)
(* A byte in the buffer is <<n, k>>, the k-th byte that was recorded after *)
(* the n-th open message.                                                  *)
(***************************************************************************)
EXTENDS Integers

CONSTANTS
    WANT,           \* bytes of a vector of frames: frame size * x_vecsize
    BUFSIZE, WRITESIZE,
    SIGS,           \* requests signalled per buffer (16)
    CreateOutcomes, \* what create_soundfile may do: subset of {"ok", "fail"}
    WriteOutcomes,  \* what write may do: subset of {"ok", "short"}
    MaxOpens,       \* bound: open messages
    MaxRecorded     \* bound: bytes recorded after an open message

ASSUME WritesfAssumption ==
    /\ WANT \in Nat \ {0} /\ SIGS \in Nat \ {0} /\ WRITESIZE \in Nat \ {0}
    /\ BUFSIZE \in Nat /\ BUFSIZE >= 4 * WRITESIZE /\ BUFSIZE >= WANT
    /\ CreateOutcomes \subseteq {"ok", "fail"} /\ CreateOutcomes # {}
    /\ WriteOutcomes \subseteq {"ok", "short"} /\ WriteOutcomes # {}
    /\ MaxOpens \in Nat /\ MaxRecorded \in Nat

VARIABLES
    x_state, x_requestcode, x_fileerror, x_eof, x_fd,
    x_buf, x_fifosize, x_fifohead, x_fifotail,
    x_sigcountdown, x_sigperiod,
    x_mutex,                 \* the child holds it
    asleep,                  \* the threads that wait on their condition
    pd,                      \* where Pd's thread is
    child, c_open, c_write,  \* where the child is; the open message it serves; bytes it is writing
    fds,                     \* the system: descriptors open
    opens, recorded,         \* open messages; bytes recorded since the last one
    written,                 \* bytes in the file
    overrun                  \* a vector was stored over bytes not yet written

fifoVars  == <<x_buf, x_fifosize, x_fifohead, x_fifotail>>
sigVars   == <<x_sigcountdown, x_sigperiod>>
childVars == <<child, c_open, c_write>>
vars == <<x_state, x_requestcode, x_fileerror, x_eof, x_fd, fifoVars, sigVars, x_mutex, asleep,
          pd, childVars, fds, opens, recorded, written, overrun>>

\* writesf_new
Init ==
    /\ x_state = "IDLE" /\ x_requestcode = "NOTHING"
    /\ x_fileerror = FALSE /\ x_eof = FALSE /\ x_fd = FALSE
    /\ x_buf = [i \in 0 .. BUFSIZE - 1 |-> <<0, 0>>]
    /\ x_fifosize = 0 /\ x_fifohead = 0 /\ x_fifotail = 0
    /\ x_sigcountdown = 0 /\ x_sigperiod = 0
    /\ x_mutex = FALSE /\ asleep = {}
    /\ pd = "ready"
    /\ child = "locktop" /\ c_open = 0 /\ c_write = 0
    /\ fds = 0 /\ opens = 0 /\ recorded = 0 /\ written = 0 /\ overrun = FALSE

\* Mutation of AtMost: no limit.
NoLimit(a, b) == a

AtMost(a, b) == IF a > b THEN b ELSE a

\* sfread_cond_signal and sfread_cond_wait: each condition has one waiter.
Wake(t) == asleep' = asleep \ {t}
\* Mutation of WakeAndSleep: it goes to sleep without a signal.
SleepOnly(t, self) == asleep' = asleep \cup {self}
WakeAndSleep(t, self) == asleep' = (asleep \ {t}) \cup {self}

Lock   == ~x_mutex /\ x_mutex' = TRUE
Unlock == x_mutex' = FALSE

-----------------------------------------------------------------------------
(* The methods, in Pd's thread.                                            *)

writesf_start ==
    /\ pd = "ready" /\ x_state = "STARTUP"
    /\ x_state' = "STREAM"
    /\ UNCHANGED <<x_requestcode, x_fileerror, x_eof, x_fd, fifoVars, sigVars, x_mutex, asleep, pd,
                   childVars, fds, opens, recorded, written, overrun>>

writesf_stop ==
    /\ pd = "ready" /\ ~x_mutex
    /\ x_state' = "IDLE" /\ x_requestcode' = "CLOSE"
    /\ Wake("child")
    /\ UNCHANGED <<x_fileerror, x_eof, x_fd, fifoVars, sigVars, x_mutex, pd, childVars, fds,
                   opens, recorded, written, overrun>>

\* writesf_open stops a stream that is not idle, and then waits with the mutex
\* until the child is.
OpenEnter ==
    /\ pd = "ready"
    /\ opens < MaxOpens
    /\ IF x_state # "IDLE"
       THEN ~x_mutex /\ x_state' = "IDLE" /\ x_requestcode' = "CLOSE" /\ Wake("child")
       ELSE UNCHANGED <<x_state, x_requestcode, asleep>>
    /\ pd' = "open"
    /\ UNCHANGED <<x_fileerror, x_eof, x_fd, fifoVars, sigVars, x_mutex, childVars, fds,
                   opens, recorded, written, overrun>>

OpenWait ==
    /\ pd = "open" /\ "pd" \notin asleep /\ ~x_mutex
    /\ x_requestcode # "NOTHING"
    /\ WakeAndSleep("child", "pd")
    /\ UNCHANGED <<x_state, x_requestcode, x_fileerror, x_eof, x_fd, fifoVars, sigVars, x_mutex, pd,
                   childVars, fds, opens, recorded, written, overrun>>

writesf_open ==
    /\ pd = "open" /\ "pd" \notin asleep /\ ~x_mutex
    /\ x_requestcode = "NOTHING"
    /\ opens' = opens + 1 /\ recorded' = 0
    /\ x_requestcode' = "OPEN"
    /\ x_fifotail' = 0 /\ x_fifohead' = 0
    /\ x_eof' = FALSE /\ x_fileerror' = FALSE
    /\ x_state' = "STARTUP"
    /\ x_fifosize' = BUFSIZE - (BUFSIZE % WANT)
    /\ x_sigperiod' = x_fifosize' \div (SIGS * WANT)
    /\ x_sigcountdown' = x_sigperiod'
    /\ Wake("child")
    /\ pd' = "ready"
    /\ UNCHANGED <<x_fd, x_buf, x_mutex, childVars, fds, written, overrun>>

writesf_dsp ==
    /\ pd = "ready" /\ ~x_mutex
    /\ x_sigperiod' = x_fifosize \div WANT
    /\ UNCHANGED <<x_state, x_requestcode, x_fileerror, x_eof, x_fd, fifoVars, x_sigcountdown,
                   x_mutex, asleep, pd, childVars, fds, opens, recorded, written, overrun>>

\* QUIT is requested; the wait that follows is FreeWait.
writesf_free ==
    /\ pd = "ready" /\ ~x_mutex
    /\ x_requestcode' = "QUIT"
    /\ WakeAndSleep("child", "pd")
    /\ pd' = "freeing"
    /\ UNCHANGED <<x_state, x_fileerror, x_eof, x_fd, fifoVars, sigVars, x_mutex, childVars, fds,
                   opens, recorded, written, overrun>>

FreeWait ==
    /\ pd = "freeing" /\ "pd" \notin asleep /\ ~x_mutex
    /\ IF x_requestcode # "NOTHING" THEN WakeAndSleep("child", "pd") /\ UNCHANGED pd
       ELSE pd' = "joining" /\ UNCHANGED asleep
    /\ UNCHANGED <<x_state, x_requestcode, x_fileerror, x_eof, x_fd, fifoVars, sigVars, x_mutex,
                   childVars, fds, opens, recorded, written, overrun>>

FreeJoin ==
    /\ pd = "joining" /\ child = "exited"
    /\ pd' = "gone"
    /\ UNCHANGED <<x_state, x_requestcode, x_fileerror, x_eof, x_fd, fifoVars, sigVars, x_mutex,
                   asleep, childVars, fds, opens, recorded, written, overrun>>

-----------------------------------------------------------------------------
(* writesf_perform.                                                        *)

PerformEnter ==
    /\ pd = "ready" /\ x_state = "STREAM"
    /\ recorded + WANT <= MaxRecorded
    /\ pd' = "perform"
    /\ UNCHANGED <<x_state, x_requestcode, x_fileerror, x_eof, x_fd, fifoVars, sigVars, x_mutex,
                   asleep, childVars, fds, opens, recorded, written, overrun>>

\* Mutation of NoRoom: there is always room.
NoRoomNever == FALSE

NoRoom == x_fifotail > x_fifohead /\ x_fifotail < x_fifohead + WANT + 1

PerformWait ==
    /\ pd = "perform" /\ "pd" \notin asleep /\ ~x_mutex
    /\ NoRoom
    /\ WakeAndSleep("child", "pd")
    /\ UNCHANGED <<x_state, x_requestcode, x_fileerror, x_eof, x_fd, fifoVars, sigVars, x_mutex, pd,
                   childVars, fds, opens, recorded, written, overrun>>

\* With the tail at 0 the head may run into it.
PerformStore ==
    /\ pd = "perform" /\ "pd" \notin asleep /\ ~x_mutex
    /\ ~NoRoom
    /\ x_buf' = [i \in DOMAIN x_buf |->
                   IF i \in x_fifohead .. x_fifohead + WANT - 1
                   THEN <<opens, recorded + i - x_fifohead>> ELSE x_buf[i]]
    /\ recorded' = recorded + WANT
    /\ x_fifohead' = IF x_fifohead + WANT >= x_fifosize THEN 0 ELSE x_fifohead + WANT
    /\ overrun' = (overrun \/ x_fifohead' = x_fifotail)
    /\ IF x_sigcountdown <= 1
       THEN Wake("child") /\ x_sigcountdown' = x_sigperiod
       ELSE x_sigcountdown' = x_sigcountdown - 1 /\ UNCHANGED asleep
    /\ pd' = "ready"
    /\ UNCHANGED <<x_state, x_requestcode, x_fileerror, x_eof, x_fd, x_fifosize, x_fifotail,
                   x_sigperiod, x_mutex, childVars, fds, opens, written>>

writesf_perform == PerformEnter \/ PerformWait \/ PerformStore

-----------------------------------------------------------------------------
(* writesf_child_main.                                                     *)

pdUnchanged == UNCHANGED <<pd, x_state, x_fifohead, x_fifosize, x_buf, sigVars, opens, recorded, overrun>>

\* The mutex is acquired at the start, and again when the wait at the top ends.
ChildLock ==
    /\ child = "locktop" /\ "child" \notin asleep
    /\ Lock
    /\ child' = "top"
    /\ pdUnchanged
    /\ UNCHANGED <<x_requestcode, x_fileerror, x_eof, x_fd, x_fifotail, asleep, c_open, c_write,
                   fds, written>>

ChildNothing ==
    /\ child = "top" /\ x_requestcode = "NOTHING"
    /\ WakeAndSleep("pd", "child")
    /\ Unlock
    /\ child' = "locktop"
    /\ pdUnchanged
    /\ UNCHANGED <<x_requestcode, x_fileerror, x_eof, x_fd, x_fifotail, c_open, c_write, fds, written>>

\* The code would first close the file that x_fd stands for ("this should never
\* happen"), and never has one to close (IdleIsClosed).
ChildOpen ==
    /\ child = "top" /\ x_requestcode = "OPEN"
    /\ c_open' = opens
    /\ x_requestcode' = "BUSY" /\ x_fileerror' = FALSE
    /\ Unlock
    /\ child' = "create"
    /\ pdUnchanged
    /\ UNCHANGED <<x_eof, x_fd, x_fifotail, asleep, c_write, fds, written>>

\* The request is dropped, whichever it is by now.
ChildCreateFailed ==
    /\ child = "create"
    /\ Lock
    /\ "fail" \in CreateOutcomes
    /\ x_eof' = TRUE /\ x_fileerror' = TRUE
    /\ x_requestcode' = "NOTHING"
    /\ child' = "top"
    /\ pdUnchanged
    /\ UNCHANGED <<x_fd, x_fifotail, asleep, c_open, c_write, fds, written>>

\* If there is another request the descriptor is forgotten.
ChildCreated ==
    /\ child = "create"
    /\ Lock
    /\ "ok" \in CreateOutcomes
    /\ fds' = fds + 1
    /\ IF x_requestcode # "BUSY"
       THEN child' = "top" /\ UNCHANGED <<x_fd, x_fifotail, written>>
       ELSE child' = "feed" /\ x_fd' = TRUE /\ x_fifotail' = 0 /\ written' = 0
    /\ pdUnchanged
    /\ UNCHANGED <<x_requestcode, x_fileerror, x_eof, asleep, c_open, c_write>>

Pending == x_fifohead # x_fifotail
\* Mutation of GoesOn: CLOSE ends the loop at once.
GoesOnBusy == x_requestcode = "BUSY"
GoesOn  == x_requestcode = "BUSY" \/ (x_requestcode = "CLOSE" /\ Pending)
Hungry  == \/ x_fifohead < x_fifotail
           \/ x_fifohead >= x_fifotail + WRITESIZE
           \/ x_requestcode = "CLOSE" /\ Pending

ChildWrite ==
    /\ child = "feed" /\ GoesOn /\ Hungry
    /\ c_write' = AtMost((IF x_fifohead < x_fifotail THEN x_fifosize ELSE x_fifohead) - x_fifotail,
                         WRITESIZE)
    /\ Unlock
    /\ child' = "write"
    /\ pdUnchanged
    /\ UNCHANGED <<x_requestcode, x_fileerror, x_eof, x_fd, x_fifotail, asleep, c_open, fds, written>>

ChildFeedWait ==
    /\ child = "feed" /\ GoesOn /\ ~Hungry
    /\ WakeAndSleep("pd", "child")
    /\ Unlock
    /\ child' = "lockfeed"
    /\ pdUnchanged
    /\ UNCHANGED <<x_requestcode, x_fileerror, x_eof, x_fd, x_fifotail, c_open, c_write, fds, written>>

ChildFeedLock ==
    /\ child = "lockfeed" /\ "child" \notin asleep
    /\ Lock
    /\ child' = "feed"
    /\ pdUnchanged
    /\ UNCHANGED <<x_requestcode, x_fileerror, x_eof, x_fd, x_fifotail, asleep, c_open, c_write,
                   fds, written>>

ChildFed ==
    /\ child = "feed" /\ ~GoesOn
    /\ child' = "top"
    /\ pdUnchanged
    /\ UNCHANGED <<x_requestcode, x_fileerror, x_eof, x_fd, x_fifotail, x_mutex, asleep, c_open,
                   c_write, fds, written>>

ChildWrote ==
    /\ child = "write"
    /\ Lock
    /\ "ok" \in WriteOutcomes
    /\ written' = written + c_write
    /\ c_write' = 0
    /\ IF x_requestcode \in {"BUSY", "CLOSE"}
       THEN /\ x_fifotail' = IF x_fifotail + c_write = x_fifosize THEN 0 ELSE x_fifotail + c_write
            /\ child' = "feed"
            /\ Wake("pd")
       ELSE child' = "top" /\ UNCHANGED <<x_fifotail, asleep>>
    /\ pdUnchanged
    /\ UNCHANGED <<x_requestcode, x_fileerror, x_eof, x_fd, c_open, fds>>

\* The loop is left with the request still BUSY.
ChildShortWrite ==
    /\ child = "write"
    /\ Lock
    /\ "short" \in WriteOutcomes
    /\ x_fileerror' = (x_fileerror \/ x_requestcode \in {"BUSY", "CLOSE"})
    /\ c_write' = 0
    /\ child' = "top"
    /\ pdUnchanged
    /\ UNCHANGED <<x_requestcode, x_eof, x_fd, x_fifotail, asleep, c_open, fds, written>>

\* CLOSE and QUIT: the header is completed and the file closed without the mutex.
ChildClose ==
    /\ child = "top" /\ x_requestcode \in {"CLOSE", "QUIT"} /\ x_fd
    /\ Unlock
    /\ child' = IF x_requestcode = "CLOSE" THEN "close" ELSE "quit"
    /\ pdUnchanged
    /\ UNCHANGED <<x_requestcode, x_fileerror, x_eof, x_fd, x_fifotail, asleep, c_open, c_write,
                   fds, written>>

\* The request that is answered may have changed since.
Answered(quit) ==
    /\ x_requestcode' = "NOTHING"
    /\ Wake("pd")
    /\ child' = IF quit THEN "exited" ELSE "top"
    /\ x_mutex' = ~quit
    /\ pdUnchanged
    /\ UNCHANGED <<x_fileerror, x_eof, x_fifotail, c_open, c_write, written>>

\* Mutation of ChildClosed: x_fd is not reset.
ChildClosedStale ==
    /\ child \in {"close", "quit"} /\ ~x_mutex
    /\ fds' = fds - 1 /\ UNCHANGED x_fd
    /\ Answered(child = "quit")

ChildClosed ==
    /\ child \in {"close", "quit"} /\ ~x_mutex
    /\ fds' = fds - 1 /\ x_fd' = FALSE
    /\ Answered(child = "quit")

ChildNotOpen ==
    /\ child = "top" /\ x_requestcode \in {"CLOSE", "QUIT"} /\ ~x_fd
    /\ Answered(x_requestcode = "QUIT")
    /\ UNCHANGED <<fds, x_fd>>

writesf_child_main ==
    \/ ChildLock \/ ChildNothing \/ ChildOpen \/ ChildCreateFailed \/ ChildCreated
    \/ ChildWrite \/ ChildFeedWait \/ ChildFeedLock \/ ChildFed \/ ChildWrote \/ ChildShortWrite
    \/ ChildClose \/ ChildClosed \/ ChildNotOpen

\* POSIX allows a wait to end without a signal.
SpuriousWakeup ==
    /\ \E t \in asleep : Wake(t)
    /\ UNCHANGED <<x_state, x_requestcode, x_fileerror, x_eof, x_fd, fifoVars, sigVars, x_mutex, pd,
                   childVars, fds, opens, recorded, written, overrun>>

Next ==
    \/ writesf_start \/ writesf_stop \/ writesf_dsp
    \/ OpenEnter \/ OpenWait \/ writesf_open
    \/ writesf_free \/ FreeWait \/ FreeJoin
    \/ writesf_perform
    \/ writesf_child_main
    \/ SpuriousWakeup

Spec == Init /\ [][Next]_vars

\* Pd's thread goes on with what it has begun, and the child gets the processor.
\* A mutex that is free again and again is obtained.
FairSpec ==
    /\ Spec
    /\ SF_vars(PerformWait \/ PerformStore \/ OpenWait \/ writesf_open \/ FreeWait \/ FreeJoin)
    /\ SF_vars(writesf_child_main)

-----------------------------------------------------------------------------
(* Properties.                                                             *)

\* Every variable is in its type, and the indices are within the buffer.
TypeOK ==
    /\ x_state \in {"IDLE", "STARTUP", "STREAM"}
    /\ x_requestcode \in {"NOTHING", "OPEN", "CLOSE", "QUIT", "BUSY"}
    /\ x_fileerror \in BOOLEAN /\ x_eof \in BOOLEAN /\ x_fd \in BOOLEAN
    /\ x_mutex \in BOOLEAN /\ overrun \in BOOLEAN
    /\ DOMAIN x_buf = 0 .. BUFSIZE - 1
    /\ x_fifosize \in 0 .. BUFSIZE
    /\ x_fifohead \in 0 .. BUFSIZE - 1 /\ x_fifotail \in 0 .. BUFSIZE - 1
    /\ x_sigperiod \in 0 .. BUFSIZE /\ x_sigcountdown \in 0 .. BUFSIZE
    /\ asleep \subseteq {"pd", "child"}
    /\ pd \in {"ready", "open", "perform", "freeing", "joining", "gone"}
    /\ child \in {"locktop", "top", "create", "feed", "lockfeed", "write", "close", "quit", "exited"}
    /\ opens \in 0 .. MaxOpens /\ c_open \in 0 .. MaxOpens /\ c_write \in 0 .. WRITESIZE
    /\ recorded \in 0 .. MaxRecorded /\ written \in Nat /\ fds \in Nat

\* The file gets the bytes that were recorded for it, each once and in order,
\* and write() never sees a byte that writesf_perform is replacing, as long as
\* the buffer has not been overrun.
WritesInOrder ==
    [][~overrun =>
         \A k \in 0 .. written' - written - 1 :
            x_buf[x_fifotail + k] = <<c_open, written + k>>]_vars

\* A file that is closed because of "stop" or "open" holds everything that was
\* recorded, unless the disk failed or the buffer was overrun.
FlushedOnClose ==
    [][(child = "close" /\ child' # child /\ ~x_fileerror /\ ~overrun) => written = recorded]_vars

\* When the child waits for a request, creates a file or has exited, no file is
\* open under x_fd: the file before was finished and closed (the case that the
\* code says "should never happen" never does).
IdleIsClosed ==
    ((child = "top" /\ x_requestcode \in {"NOTHING", "OPEN"}) \/ child \in {"create", "exited"}) => ~x_fd

\* After a short write the child runs round its loop for ever, with the mutex.
Spinning == child = "top" /\ x_requestcode = "BUSY"

\* QUIT was overwritten: Pd waits for a thread that waits for a request.
QuitLost == pd = "joining" /\ child # "exited"

\* writesf_open, writesf_perform and writesf_free return, those two cases apart:
\* no signal is missed and neither thread waits for the other in vain.
MethodsReturn ==
    (pd \notin {"ready", "gone"}) ~> (pd \in {"ready", "gone"} \/ Spinning \/ QuitLost)

\* writesf_free "requests QUIT and waits for acknowledge": when NOTHING comes
\* back, the child has taken note of QUIT.
QuitAcknowledged == ~QuitLost
=============================================================================
