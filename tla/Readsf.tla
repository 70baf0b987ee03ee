------------------------------- MODULE Readsf -------------------------------
(***************************************************************************)
(* readsf~ of d_soundfile.c: a child thread reads a soundfile into a       *)
(* circular buffer, and the DSP perform routine, in Pd's thread, plays it. *)
(* They share the object under x_mutex and wake each other through two     *)
(* conditions: the child sleeps on x_requestcondition, Pd's thread on      *)
(* x_answercondition.                                                      *)
(*                                                                         *)
(* Pd's thread never keeps the mutex from one step to the next, so that    *)
(* each of its critical sections is one action that finds the mutex free.  *)
(* The child does, and gives it up to sleep and during system calls.       *)
(* Bytes are numbered; a byte in the buffer is <<n, k>>, the k-th data     *)
(* byte of the file of the n-th open message.                              *)
(***************************************************************************)
EXTENDS Integers

CONSTANTS
    Files,         \* records: frame size, data bytes, and bytes the header announces
    DEFFRAME,      \* frame size of 16-bit mono, assumed until the file is open
    VEC,           \* x_vecsize, taken to be MAXVECSIZE
    BUFSIZE, READSIZE,
    SIGS,          \* requests signalled per buffer (16)
    OpenOutcomes,  \* what open_soundfile may do: subset of {"ok", "absent"}
    ReadOutcomes,  \* what read may do: subset of {"ok", "error"}
    MaxOpens,      \* bound: open messages
    MaxPlayed      \* bound: played bytes are counted up to this number

ASSUME ReadsfAssumption ==
    /\ Files \subseteq [frame : Nat \ {0}, bytes : Nat, limit : Nat] /\ Files # {}
    /\ DEFFRAME \in Nat \ {0} /\ VEC \in Nat \ {0} /\ SIGS \in Nat \ {0}
    /\ READSIZE \in Nat \ {0} /\ BUFSIZE \in Nat /\ BUFSIZE >= 4 * READSIZE  \* MINBUFSIZE
    /\ OpenOutcomes \subseteq {"ok", "absent"} /\ OpenOutcomes # {}
    /\ ReadOutcomes \subseteq {"ok", "error"} /\ ReadOutcomes # {}
    /\ MaxOpens \in Nat
    /\ MaxPlayed \in Nat /\ \A f \in Files : f.bytes < MaxPlayed

VARIABLES
    x_state, x_requestcode, x_filename, x_fileerror, x_eof,
    x_frame,                     \* x_bytespersample * x_sfchannels
    x_fd, x_bytelimit,
    x_buf, x_fifosize, x_fifohead, x_fifotail,
    x_sigcountdown, x_sigperiod,
    x_clock,                     \* the bang-on-done clock is set
    x_mutex,                     \* the child holds it
    asleep,                      \* the threads that wait on their condition
    pd, p_frame,                 \* Pd's thread: where it is; readsf_perform's copy of x_frame
    child, c_file, c_open,       \* the child: where it is; the file it opens, and for which message
    c_want,                      \*   and the bytes it is reading
    pos, fds,                    \* the system: file position; descriptors open
    opens, next, failed          \* open messages; bytes played since the last; an open has failed

pdVars    == <<pd, p_frame>>
childVars == <<child, c_file, c_open, c_want>>
fifoVars  == <<x_buf, x_fifosize, x_fifohead, x_fifotail>>
sigVars   == <<x_sigcountdown, x_sigperiod>>
fileVars  == <<x_fd, x_bytelimit, pos, fds>>
vars == <<x_state, x_requestcode, x_filename, x_fileerror, x_eof, x_frame, fileVars, fifoVars,
          sigVars, x_clock, x_mutex, asleep, pdVars, childVars, opens, next, failed>>

NoFile == [frame |-> 0, bytes |-> 0, limit |-> 0]
Garbage == <<0, 0>>

\* readsf_new
Init ==
    /\ x_state = "IDLE" /\ x_requestcode = "NOTHING" /\ x_filename = NoFile
    /\ x_fileerror = FALSE /\ x_eof = FALSE /\ x_frame = DEFFRAME
    /\ x_fd = FALSE /\ x_bytelimit = 0 /\ pos = 0 /\ fds = 0
    /\ x_buf = [i \in 0 .. BUFSIZE - 1 |-> Garbage]
    /\ x_fifosize = 0 /\ x_fifohead = 0 /\ x_fifotail = 0
    /\ x_sigcountdown = 0 /\ x_sigperiod = 0
    /\ x_clock = FALSE /\ x_mutex = FALSE /\ asleep = {}
    /\ pd = "ready" /\ p_frame = DEFFRAME
    /\ child = "locktop" /\ c_file = NoFile /\ c_open = 0 /\ c_want = 0
    /\ opens = 0 /\ next = 0 /\ failed = FALSE

AtMost(a, b) == IF a > b THEN b ELSE a

\* sfread_cond_signal and sfread_cond_wait: each condition has one waiter.
Wake(t) == asleep' = asleep \ {t}
\* Mutation of WakeAndSleep: it goes to sleep without a signal.
SleepOnly(t, self) == asleep' = asleep \cup {self}
WakeAndSleep(t, self) == asleep' = (asleep \ {t}) \cup {self}

Lock   == ~x_mutex /\ x_mutex' = TRUE
Unlock == x_mutex' = FALSE
Keep   == UNCHANGED x_mutex

-----------------------------------------------------------------------------
(* The methods, in Pd's thread.                                            *)

readsf_open(f) ==
    /\ pd = "ready" /\ ~x_mutex
    /\ opens < MaxOpens
    /\ opens' = opens + 1 /\ next' = 0
    /\ x_requestcode' = "OPEN" /\ x_filename' = f
    /\ x_fifotail' = 0 /\ x_fifohead' = 0
    /\ x_frame' = DEFFRAME
    /\ x_eof' = FALSE /\ x_fileerror' = FALSE
    /\ x_state' = "STARTUP"
    /\ Wake("child")
    /\ UNCHANGED <<x_buf, x_fifosize, fileVars, sigVars, x_clock, x_mutex, pdVars, childVars, failed>>

readsf_start ==
    /\ pd = "ready"
    /\ x_state = "STARTUP"
    /\ x_state' = "STREAM"
    /\ UNCHANGED <<x_requestcode, x_filename, x_fileerror, x_eof, x_frame, fileVars, fifoVars,
                   sigVars, x_clock, x_mutex, asleep, pdVars, childVars, opens, next, failed>>

readsf_stop ==
    /\ pd = "ready" /\ ~x_mutex
    /\ x_state' = "IDLE" /\ x_requestcode' = "CLOSE"
    /\ Wake("child")
    /\ UNCHANGED <<x_filename, x_fileerror, x_eof, x_frame, fileVars, fifoVars,
                   sigVars, x_clock, x_mutex, pdVars, childVars, opens, next, failed>>

\* Unlike the child, it signals once, not SIGS times, per buffer.
readsf_dsp ==
    /\ pd = "ready" /\ ~x_mutex
    /\ x_sigperiod' = x_fifosize \div (x_frame * VEC)
    /\ UNCHANGED <<x_state, x_requestcode, x_filename, x_fileerror, x_eof, x_frame, fileVars,
                   fifoVars, x_sigcountdown, x_clock, x_mutex, asleep, pdVars, childVars,
                   opens, next, failed>>

readsf_tick ==
    /\ pd = "ready"
    /\ x_clock /\ x_clock' = FALSE
    /\ UNCHANGED <<x_state, x_requestcode, x_filename, x_fileerror, x_eof, x_frame, fileVars,
                   fifoVars, sigVars, x_mutex, asleep, pdVars, childVars, opens, next, failed>>

\* QUIT is requested; the wait that follows is FreeWait.
readsf_free ==
    /\ pd = "ready" /\ ~x_mutex
    /\ x_requestcode' = "QUIT"
    /\ WakeAndSleep("child", "pd")
    /\ pd' = "freeing"
    /\ UNCHANGED <<x_state, x_filename, x_fileerror, x_eof, x_frame, fileVars, fifoVars, sigVars,
                   x_clock, x_mutex, p_frame, childVars, opens, next, failed>>

FreeWait ==
    /\ pd = "freeing" /\ "pd" \notin asleep /\ ~x_mutex
    /\ IF x_requestcode # "NOTHING" THEN WakeAndSleep("child", "pd") /\ UNCHANGED pd
       ELSE pd' = "joining" /\ UNCHANGED asleep
    /\ UNCHANGED <<x_state, x_requestcode, x_filename, x_fileerror, x_eof, x_frame, fileVars,
                   fifoVars, sigVars, x_clock, x_mutex, p_frame, childVars, opens, next, failed>>

FreeJoin ==
    /\ pd = "joining" /\ child = "exited"
    /\ pd' = "gone" /\ x_clock' = FALSE
    /\ UNCHANGED <<x_state, x_requestcode, x_filename, x_fileerror, x_eof, x_frame, fileVars,
                   fifoVars, sigVars, x_mutex, asleep, p_frame, childVars, opens, next, failed>>

-----------------------------------------------------------------------------
(* readsf_perform.                                                         *)

\* The sample format is read before the mutex is taken.
PerformEnter ==
    /\ pd = "ready"
    /\ x_state = "STREAM"
    /\ p_frame' = x_frame
    /\ pd' = "perform"
    /\ UNCHANGED <<x_state, x_requestcode, x_filename, x_fileerror, x_eof, x_frame, fileVars,
                   fifoVars, sigVars, x_clock, x_mutex, asleep, childVars, opens, next, failed>>

\* With the mutex, for the first time or after a wait, which rereads the format.
Performing(frame) ==
    /\ ~x_mutex
    /\ \/ pd = "perform" /\ frame = p_frame
       \/ pd = "waiting" /\ "pd" \notin asleep /\ frame = x_frame

\* Mutation of TooFew: it overlooks that the head may be behind the tail.
TooFewUnwrapped(want) == x_fifohead < x_fifotail + want - 1

TooFew(want) == x_fifohead >= x_fifotail /\ x_fifohead < x_fifotail + want - 1

PerformWait(frame) ==
    /\ Performing(frame)
    /\ ~x_eof /\ TooFew(frame * VEC)
    /\ WakeAndSleep("child", "pd")
    /\ pd' = "waiting"
    /\ UNCHANGED <<x_state, x_requestcode, x_filename, x_fileerror, x_eof, x_frame, fileVars,
                   fifoVars, sigVars, x_clock, x_mutex, p_frame, childVars, opens, next, failed>>

\* The end of the file: a last partial vector, and a bang.
PerformEnd(frame) ==
    /\ Performing(frame)
    /\ x_eof /\ TooFew(frame * VEC)
    /\ x_clock' = TRUE
    /\ x_state' = "IDLE"
    /\ next' = AtMost(next + frame * ((x_fifohead - x_fifotail + 1) \div frame), MaxPlayed)
    /\ Wake("child")
    /\ pd' = "ready"
    /\ UNCHANGED <<x_requestcode, x_filename, x_fileerror, x_eof, x_frame, fileVars, fifoVars,
                   sigVars, x_mutex, p_frame, childVars, opens, failed>>

PerformPlay(frame) ==
    /\ Performing(frame)
    /\ ~TooFew(frame * VEC)
    /\ next' = AtMost(next + frame * VEC, MaxPlayed)
    /\ x_fifotail' = IF x_fifotail + frame * VEC >= x_fifosize THEN 0
                     ELSE x_fifotail + frame * VEC
    /\ IF x_sigcountdown <= 1
       THEN Wake("child") /\ x_sigcountdown' = x_sigperiod
       ELSE x_sigcountdown' = x_sigcountdown - 1 /\ UNCHANGED asleep
    /\ pd' = "ready"
    /\ UNCHANGED <<x_state, x_requestcode, x_filename, x_fileerror, x_eof, x_frame, fileVars,
                   x_buf, x_fifosize, x_fifohead, x_sigperiod, x_clock, x_mutex, p_frame,
                   childVars, opens, failed>>

readsf_perform ==
    \/ PerformEnter
    \/ \E frame \in {p_frame, x_frame} : PerformWait(frame) \/ PerformEnd(frame) \/ PerformPlay(frame)

-----------------------------------------------------------------------------
(* readsf_child_main.                                                      *)

pdUnchanged == UNCHANGED <<pdVars, x_state, x_filename, x_fifotail, x_clock, opens, next>>

\* The mutex is acquired at the start, and again when the wait at the top ends.
ChildLock ==
    /\ child = "locktop" /\ "child" \notin asleep
    /\ Lock
    /\ child' = "top"
    /\ pdUnchanged
    /\ UNCHANGED <<x_requestcode, x_fileerror, x_eof, x_frame, fileVars, x_buf, x_fifosize,
                   x_fifohead, sigVars, asleep, c_file, c_open, c_want, failed>>

ChildNothing ==
    /\ child = "top" /\ x_requestcode = "NOTHING"
    /\ WakeAndSleep("pd", "child")
    /\ Unlock
    /\ child' = "locktop"
    /\ pdUnchanged
    /\ UNCHANGED <<x_requestcode, x_fileerror, x_eof, x_frame, fileVars, x_buf, x_fifosize,
                   x_fifohead, sigVars, c_file, c_open, c_want, failed>>

\* The request is noted as BUSY, so that a new one is noticed, and the mutex
\* released to open the file.  The code would first close the one that x_fd
\* stands for; but at the top there is none (DescriptorHeld).
ChildOpen ==
    /\ child = "top" /\ x_requestcode = "OPEN"
    /\ c_file' = x_filename /\ c_open' = opens
    /\ x_requestcode' = "BUSY" /\ x_fileerror' = FALSE
    /\ child' = "open"
    /\ Unlock
    /\ pdUnchanged
    /\ UNCHANGED <<x_eof, x_frame, fileVars, x_buf, x_fifosize, x_fifohead, sigVars, asleep,
                   c_want, failed>>

\* open_soundfile has returned.  On failure the end of the file is declared,
\* whichever request is pending by now; the format is copied back in any case.
ChildOpened ==
    /\ child = "open"
    /\ Lock
    /\ \/ /\ "absent" \in OpenOutcomes
          /\ x_fileerror' = TRUE /\ x_eof' = TRUE /\ failed' = TRUE
          /\ x_frame' = DEFFRAME /\ x_bytelimit' = MaxPlayed  \* 0x7fffffff
          /\ child' = "lost"
          /\ UNCHANGED <<x_fd, pos, fds, x_fifosize, x_fifohead, sigVars>>
       \/ /\ "ok" \in OpenOutcomes
          /\ x_frame' = c_file.frame /\ x_bytelimit' = c_file.limit
          /\ x_fd' = TRUE /\ fds' = fds + 1 /\ pos' = 0
          /\ IF x_requestcode # "BUSY"
             THEN child' = "lost" /\ UNCHANGED <<x_fifosize, x_fifohead, sigVars>>
             ELSE /\ x_fifohead' = 0
                  /\ x_fifosize' = BUFSIZE - (BUFSIZE % (c_file.frame * VEC))
                  /\ x_sigperiod' = x_fifosize' \div (SIGS * c_file.frame * VEC)
                  /\ x_sigcountdown' = x_sigperiod'
                  /\ child' = "feed"
          /\ UNCHANGED <<x_fileerror, x_eof, failed>>
    /\ pdUnchanged
    /\ UNCHANGED <<x_requestcode, x_buf, asleep, c_file, c_open, c_want>>

\* Mutations of Wanted: past the end of the buffer; up to a full buffer.
WantedPastEnd ==
    IF x_fifohead >= x_fifotail THEN READSIZE
    ELSE IF x_fifotail - x_fifohead - 1 < READSIZE THEN 0 ELSE READSIZE
WantedToFull ==
    IF x_fifohead >= x_fifotail THEN AtMost(x_fifosize - x_fifohead, READSIZE)
    ELSE IF x_fifotail - x_fifohead - 1 < READSIZE THEN 0 ELSE READSIZE

\* The bytes to read next; 0 when the buffer is too full to read any.
Wanted ==
    IF x_fifohead >= x_fifotail
    THEN IF x_fifotail # 0 \/ x_fifosize - x_fifohead > READSIZE
         THEN AtMost(x_fifosize - x_fifohead, READSIZE) ELSE 0
    ELSE IF x_fifotail - x_fifohead - 1 < READSIZE THEN 0 ELSE READSIZE

\* read() may write into these places from now on: their content is undefined.
ChildRead ==
    /\ child = "feed" /\ x_requestcode = "BUSY" /\ ~x_eof
    /\ Wanted > 0
    /\ c_want' = AtMost(Wanted, x_bytelimit)
    /\ x_buf' = [i \in DOMAIN x_buf |->
                   IF i \in x_fifohead .. x_fifohead + c_want' - 1 THEN Garbage ELSE x_buf[i]]
    /\ Unlock
    /\ child' = "read"
    /\ pdUnchanged
    /\ UNCHANGED <<x_requestcode, x_fileerror, x_eof, x_frame, fileVars, x_fifosize, x_fifohead,
                   sigVars, asleep, c_file, c_open, failed>>

\* The fifo is not hungry.
ChildFeedWait ==
    /\ child = "feed" /\ x_requestcode = "BUSY" /\ ~x_eof
    /\ Wanted = 0
    /\ WakeAndSleep("pd", "child")
    /\ Unlock
    /\ child' = "lockfeed"
    /\ pdUnchanged
    /\ UNCHANGED <<x_requestcode, x_fileerror, x_eof, x_frame, fileVars, x_buf, x_fifosize,
                   x_fifohead, sigVars, c_file, c_open, c_want, failed>>

ChildFeedLock ==
    /\ child = "lockfeed" /\ "child" \notin asleep
    /\ Lock
    /\ child' = "feed"
    /\ pdUnchanged
    /\ UNCHANGED <<x_requestcode, x_fileerror, x_eof, x_frame, fileVars, x_buf, x_fifosize,
                   x_fifohead, sigVars, asleep, c_file, c_open, c_want, failed>>

ChildFed ==
    /\ child = "feed" /\ (x_requestcode # "BUSY" \/ x_eof)
    /\ child' = "lost"
    /\ pdUnchanged
    /\ UNCHANGED <<x_requestcode, x_fileerror, x_eof, x_frame, fileVars, x_buf, x_fifosize,
                   x_fifohead, sigVars, x_mutex, asleep, c_file, c_open, c_want, failed>>

\* n bytes have arrived at the head as it was when read was called (a new open
\* message has reset it since only if the request is no longer BUSY).
Stored(n) ==
    x_buf' = [i \in DOMAIN x_buf |->
                IF i \in x_fifohead .. x_fifohead + n - 1
                THEN <<c_open, pos + i - x_fifohead>> ELSE x_buf[i]]

\* At the announced end of the data the head is left where it is, even at the
\* end of the buffer.
ChildGot ==
    /\ child = "read"
    /\ Lock
    /\ "ok" \in ReadOutcomes
    /\ LET n == AtMost(c_want, c_file.bytes - pos)
       IN  /\ pos' = pos + n
           /\ IF x_requestcode # "BUSY"
              THEN /\ child' = "lost"
                   /\ UNCHANGED <<x_buf, x_fifohead, x_bytelimit, x_eof, asleep>>
              ELSE IF n = 0
              THEN /\ x_eof' = TRUE /\ child' = "lost"
                   /\ UNCHANGED <<x_buf, x_fifohead, x_bytelimit, asleep>>
              ELSE /\ Stored(n)
                   /\ x_bytelimit' = x_bytelimit - n
                   /\ IF x_bytelimit' <= 0
                      THEN /\ x_eof' = TRUE /\ child' = "lost"
                           /\ x_fifohead' = x_fifohead + n
                           /\ UNCHANGED asleep
                      ELSE /\ x_fifohead' = IF x_fifohead + n = x_fifosize THEN 0 ELSE x_fifohead + n
                           /\ child' = "feed"
                           /\ Wake("pd")
                           /\ UNCHANGED x_eof
    /\ pdUnchanged
    /\ UNCHANGED <<x_requestcode, x_fileerror, x_frame, x_fd, fds, x_fifosize, sigVars,
                   c_file, c_open, c_want, failed>>

\* x_eof is left alone.
ChildReadError ==
    /\ child = "read"
    /\ Lock
    /\ "error" \in ReadOutcomes
    /\ x_fileerror' = (x_fileerror \/ x_requestcode = "BUSY")
    /\ child' = "lost"
    /\ pdUnchanged
    /\ UNCHANGED <<x_requestcode, x_eof, x_frame, fileVars, x_buf, x_fifosize, x_fifohead,
                   sigVars, asleep, c_file, c_open, c_want, failed>>

\* Mutations of ChildLost: the file is not closed; the request is dropped.
ChildLostOpen ==
    /\ child = "lost"
    /\ x_requestcode' = IF x_requestcode = "BUSY" THEN "NOTHING" ELSE x_requestcode
    /\ child' = "top" /\ Wake("pd")
    /\ pdUnchanged
    /\ UNCHANGED <<x_fileerror, x_eof, x_frame, fileVars, x_buf, x_fifosize, x_fifohead,
                   sigVars, x_mutex, c_file, c_open, c_want, failed>>
ChildLostRequest ==
    /\ child = "lost"
    /\ x_requestcode' = "NOTHING"
    /\ IF x_fd THEN Unlock /\ child' = "closelost" /\ UNCHANGED asleep
       ELSE Keep /\ child' = "top" /\ Wake("pd")
    /\ pdUnchanged
    /\ UNCHANGED <<x_fileerror, x_eof, x_frame, fileVars, x_buf, x_fifosize, x_fifohead,
                   sigVars, c_file, c_open, c_want, failed>>

ChildLost ==
    /\ child = "lost"
    /\ x_requestcode' = IF x_requestcode = "BUSY" THEN "NOTHING" ELSE x_requestcode
    /\ IF x_fd THEN Unlock /\ child' = "closelost" /\ UNCHANGED asleep
       ELSE Keep /\ child' = "top" /\ Wake("pd")
    /\ pdUnchanged
    /\ UNCHANGED <<x_fileerror, x_eof, x_frame, fileVars, x_buf, x_fifosize, x_fifohead,
                   sigVars, c_file, c_open, c_want, failed>>

ChildClosedLost ==
    /\ child = "closelost"
    /\ Lock
    /\ fds' = fds - 1 /\ x_fd' = FALSE /\ UNCHANGED <<x_bytelimit, pos>>
    /\ Wake("pd")
    /\ child' = "top"
    /\ pdUnchanged
    /\ UNCHANGED <<x_requestcode, x_fileerror, x_eof, x_frame, x_buf, x_fifosize, x_fifohead,
                   sigVars, c_file, c_open, c_want, failed>>

\* CLOSE and QUIT: again there is no file left to close.
ChildClose ==
    /\ child = "top" /\ x_requestcode = "CLOSE"
    /\ x_requestcode' = "NOTHING"
    /\ Wake("pd")
    /\ pdUnchanged
    /\ UNCHANGED <<x_fileerror, x_eof, x_frame, fileVars, x_buf, x_fifosize, x_fifohead, sigVars,
                   x_mutex, childVars, failed>>

ChildQuit ==
    /\ child = "top" /\ x_requestcode = "QUIT"
    /\ x_requestcode' = "NOTHING"
    /\ Wake("pd")
    /\ Unlock
    /\ child' = "exited"
    /\ pdUnchanged
    /\ UNCHANGED <<x_fileerror, x_eof, x_frame, fileVars, x_buf, x_fifosize, x_fifohead, sigVars,
                   c_file, c_open, c_want, failed>>

readsf_child_main ==
    \/ ChildLock \/ ChildNothing \/ ChildOpen \/ ChildOpened
    \/ ChildRead \/ ChildFeedWait \/ ChildFeedLock \/ ChildFed \/ ChildGot \/ ChildReadError
    \/ ChildLost \/ ChildClosedLost \/ ChildClose \/ ChildQuit

\* POSIX allows a wait to end without a signal.
SpuriousWakeup ==
    /\ \E t \in asleep : Wake(t)
    /\ UNCHANGED <<x_state, x_requestcode, x_filename, x_fileerror, x_eof, x_frame, fileVars,
                   fifoVars, sigVars, x_clock, x_mutex, pdVars, childVars, opens, next, failed>>

Next ==
    \/ \E f \in Files : readsf_open(f)
    \/ readsf_start \/ readsf_stop \/ readsf_dsp \/ readsf_tick
    \/ readsf_free \/ FreeWait \/ FreeJoin
    \/ readsf_perform
    \/ readsf_child_main
    \/ SpuriousWakeup

Spec == Init /\ [][Next]_vars

\* DSP is on, so that readsf_perform is called again and again, and the child
\* gets the processor.  A mutex that is free again and again is obtained.
FairSpec ==
    /\ Spec
    /\ SF_vars(readsf_perform \/ FreeWait \/ FreeJoin)
    /\ SF_vars(readsf_child_main)

-----------------------------------------------------------------------------
(* Properties.                                                             *)

\* Every variable is in its type, and the indices are within the buffer.
TypeOK ==
    /\ x_state \in {"IDLE", "STARTUP", "STREAM"}
    /\ x_requestcode \in {"NOTHING", "OPEN", "CLOSE", "QUIT", "BUSY"}
    /\ x_filename \in Files \cup {NoFile} /\ c_file \in Files \cup {NoFile}
    /\ x_fileerror \in BOOLEAN /\ x_eof \in BOOLEAN /\ x_fd \in BOOLEAN
    /\ x_clock \in BOOLEAN /\ x_mutex \in BOOLEAN /\ failed \in BOOLEAN
    /\ x_frame \in Nat \ {0} /\ p_frame \in Nat \ {0}
    /\ x_bytelimit \in Nat /\ pos \in Nat /\ fds \in Nat /\ next \in Nat
    /\ DOMAIN x_buf = 0 .. BUFSIZE - 1
    /\ x_fifosize \in 0 .. BUFSIZE /\ x_fifohead \in 0 .. BUFSIZE
    /\ x_fifotail \in 0 .. BUFSIZE - 1
    /\ x_sigperiod \in 0 .. BUFSIZE /\ x_sigcountdown \in 0 .. BUFSIZE
    /\ asleep \subseteq {"pd", "child"}
    /\ pd \in {"ready", "perform", "waiting", "freeing", "joining", "gone"}
    /\ child \in {"locktop", "top", "open", "feed", "lockfeed", "read", "lost", "closelost", "exited"}
    /\ opens \in 0 .. MaxOpens /\ c_open \in 0 .. MaxOpens /\ c_want \in 0 .. READSIZE

\* The announced data end exactly at the end of the buffer: the head stays there
\* and is passed by the tail, which finds a full buffer again and again.
HeadPassed == x_eof /\ x_fifohead = x_fifosize

\* The data that were read end one byte short of a vector: readsf_perform does not wait for
\* that byte, and if it never comes the tail passes the head.
OneShort == x_fifohead % (x_frame * VEC) = x_frame * VEC - 1

\* The data end one byte short of a frame: that frame is played all the same, with
\* whatever is at the head in the place of the byte.
CutShort == x_eof /\ x_fifohead % x_frame = x_frame - 1

\* What the theorems about PlaysInOrder and BangsAtEnd assume.  Files have the format of
\* the open message, so that the format of the file before is never in use for the next; a
\* frame has at least the two bytes of a sample; and a number of whole reads does not end
\* one byte short of a vector (in the code VEC is 128, a divisor of READSIZE).
OneFormat ==
    /\ DEFFRAME >= 2 /\ \A f \in Files : f.frame = DEFFRAME
    /\ \A k \in 0 .. BUFSIZE : (k * READSIZE) % (DEFFRAME * VEC) # DEFFRAME * VEC - 1

\* readsf_perform plays the file of the last open message from its first byte,
\* each byte once, in order: never a byte that is still to be read, that read()
\* is just overwriting, or that belongs to the file before (HeadPassed and OneShort
\* apart, and the one byte of CutShort).
PlaysInOrder ==
    [][opens' = opens /\ ~HeadPassed /\ ~OneShort =>
         \A k \in 0 .. next' - next - 1 :
            \/ CutShort /\ x_fifotail + k = x_fifohead
            \/ /\ x_fifotail + k \in DOMAIN x_buf
               /\ x_buf[x_fifotail + k] = <<opens, next + k>>]_vars

\* The frames of a file that readsf~ plays, one that lacks its last byte included.
Playable(f) == f.frame * ((AtMost(f.bytes, f.limit) + 1) \div f.frame)

\* The bang means that the whole file was played, or that there is an error.
PlayedWhole == x_clock' /\ ~x_clock /\ ~x_fileerror => next' = Playable(x_filename)
BangsAtEnd == [][~failed => PlayedWhole]_vars

\* One descriptor at most is open, and x_fd stands for it; each is closed before
\* the child looks for another request, so that none is lost to an overlapping
\* open message and none survives the object.
DescriptorHeld ==
    /\ fds = IF x_fd THEN 1 ELSE 0
    /\ child \in {"top", "locktop", "open", "exited"} => fds = 0

\* readsf_perform does not keep Pd waiting and a stream comes to its end, unless
\* the disk fails or the tail passes the head (HeadPassed, OneShort): neither thread
\* sleeps while the other relies on it.
StreamEnds ==
    (x_state = "STREAM") ~> (\/ x_state # "STREAM" \/ pd = "gone" \/ x_fileerror
                             \/ HeadPassed \/ (x_eof /\ OneShort))

\* readsf_free returns: whatever the child is doing, it sees QUIT and exits.
FreeReturns == (pd = "freeing") ~> (pd = "gone")
=============================================================================
