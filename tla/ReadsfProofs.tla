---------------------------- MODULE ReadsfProofs ----------------------------
(***************************************************************************)
(* For every file, vector, buffer and read size, and however many open     *)
(* messages overlap: the indices of the fifo stay inside the buffer, also  *)
(* while read() fills it without the mutex, and every descriptor is        *)
(* closed before the next is opened.  For files of one format: what is     *)
(* played is the file, each byte once, in order and to the end.            *)
(***************************************************************************)
EXTENDS Readsf, TLAPS

-----------------------------------------------------------------------------
(* The inductive invariant.                                                *)

Flags ==
    /\ x_fileerror \in BOOLEAN /\ x_eof \in BOOLEAN /\ x_fd \in BOOLEAN
    /\ x_clock \in BOOLEAN /\ x_mutex \in BOOLEAN /\ failed \in BOOLEAN

Places ==
    /\ x_state \in {"IDLE", "STARTUP", "STREAM"}
    /\ x_requestcode \in {"NOTHING", "OPEN", "CLOSE", "QUIT", "BUSY"}
    /\ asleep \subseteq {"pd", "child"}
    /\ pd \in {"ready", "perform", "waiting", "freeing", "joining", "gone"}
    /\ child \in {"locktop", "top", "open", "feed", "lockfeed", "read", "lost", "closelost",
                  "exited"}

\* Where the child is at work on c_file.
Feeding == child \in {"feed", "lockfeed", "read"}

\* The file that is requested, and the one the child is opening or reading.
Named ==
    /\ x_filename \in Files \cup {NoFile} /\ c_file \in Files \cup {NoFile}
    /\ x_requestcode = "OPEN" => x_filename \in Files
    /\ (Feeding \/ child = "open") => c_file \in Files

Frames == x_frame \in Nat \ {0} /\ p_frame \in Nat \ {0}

Counters ==
    /\ opens \in 0 .. MaxOpens /\ c_open \in 0 .. MaxOpens
    /\ next \in Nat /\ x_bytelimit \in Nat

\* The position is inside the file.
Position == pos \in Nat /\ (Feeding => pos <= c_file.bytes)

\* read() may fill the bytes behind the head, unless a new open message has reset it.
Fifo ==
    /\ x_fifosize \in 0 .. BUFSIZE /\ x_fifohead \in 0 .. BUFSIZE
    /\ x_fifotail \in 0 .. BUFSIZE - 1
    /\ c_want \in 0 .. READSIZE
    /\ child = "read" =>
          /\ c_want <= x_bytelimit
          /\ x_requestcode = "BUSY" => x_fifohead + c_want <= BUFSIZE

Signals == x_sigperiod \in 0 .. BUFSIZE /\ x_sigcountdown \in 0 .. BUFSIZE

Buffer == DOMAIN x_buf = 0 .. BUFSIZE - 1

\* x_fd stands for the only descriptor, and tells where the child may be.
Descriptors ==
    /\ fds = IF x_fd THEN 1 ELSE 0
    /\ (Feeding \/ child = "closelost") => x_fd
    /\ child \in {"top", "locktop", "open", "exited"} => ~x_fd

IInv ==
    /\ Flags /\ Places /\ Named /\ Frames /\ Counters /\ Position
    /\ Fifo /\ Signals /\ Buffer /\ Descriptors

\* The fields of a file.
LEMMA FileFacts ==
    \A f \in Files : f.frame \in Nat \ {0} /\ f.bytes \in Nat /\ f.limit \in Nat
    BY ReadsfAssumption

\* Quotients and products of natural numbers.
LEMMA DivBound ==
    ASSUME NEW a \in Nat, NEW b \in Nat \ {0}
    PROVE  a \div b \in 0 .. a
    OBVIOUS

\* The size of a vector is not zero.
LEMMA PositiveProduct ==
    ASSUME NEW a \in Nat \ {0}, NEW b \in Nat \ {0}
    PROVE  a * b \in Nat \ {0}
    OBVIOUS

-----------------------------------------------------------------------------
(* The invariant is inductive.                                             *)

\* At the start no file is open and the buffer is empty.
LEMMA InitIInv == Init => IInv
<1> SUFFICES ASSUME Init PROVE IInv
    OBVIOUS
<1>1. Flags /\ Places /\ Named /\ Descriptors
    BY DEF Init, Flags, Places, Named, Feeding, Descriptors
<1>2. Frames /\ Counters /\ Position
    BY ReadsfAssumption DEF Init, Frames, Counters, Position, Feeding
<1>3. Fifo /\ Signals /\ Buffer
    BY ReadsfAssumption DEF Init, Fifo, Signals, Buffer
<1> QED BY <1>1, <1>2, <1>3 DEF IInv

\* Every step of the two threads preserves the invariant.
LEMMA NextIInv == IInv /\ [Next]_vars => IInv'
<1> SUFFICES ASSUME IInv, [Next]_vars PROVE IInv'
    OBVIOUS
<1>1. CASE UNCHANGED vars
    BY <1>1 DEF vars, fifoVars, sigVars, childVars, fileVars, pdVars, IInv, Flags, Places,
        Named, Feeding, Frames, Counters, Position, Fifo, Signals, Buffer, Descriptors
<1>2. ASSUME NEW f \in Files, readsf_open(f) PROVE IInv'
  <2>1. Flags'
      BY <1>2, ReadsfAssumption DEF IInv, Flags, readsf_open, Wake, fileVars, sigVars, pdVars,
          childVars
  <2>2. Places'
      BY <1>2, ReadsfAssumption DEF IInv, Places, readsf_open, Wake, fileVars, sigVars, pdVars,
          childVars
  <2>3. Named'
      BY <1>2, ReadsfAssumption DEF IInv, Named, Feeding, readsf_open, Wake, fileVars, sigVars,
          pdVars, childVars
  <2>4. Frames'
      BY <1>2, ReadsfAssumption, FileFacts DEF IInv, Frames, Named, Feeding, readsf_open, Wake,
          fileVars, sigVars, pdVars, childVars
  <2>5. Counters'
      BY <1>2, ReadsfAssumption, FileFacts DEF IInv, Counters, Frames, Fifo, Named, Feeding,
          Position, readsf_open, Wake, fileVars, sigVars, pdVars, childVars
  <2>6. Fifo'
      BY <1>2, ReadsfAssumption, FileFacts DEF IInv, Fifo, Places, Frames, Named, Feeding,
          Position, Counters, readsf_open, Wake, fileVars, sigVars, pdVars, childVars
  <2>7. Position' /\ Signals' /\ Buffer' /\ Descriptors'
      BY <1>2 DEF IInv, Position, Feeding, Signals, Buffer, Descriptors, readsf_open, Wake,
          fileVars, sigVars, pdVars, childVars
  <2> QED BY <2>1, <2>2, <2>3, <2>4, <2>5, <2>6, <2>7 DEF IInv
<1>3. CASE readsf_start
  <2>1. Places'
      BY <1>3, ReadsfAssumption DEF IInv, Places, readsf_start, fileVars, fifoVars, sigVars,
          pdVars, childVars
  <2>2. Flags' /\ Named' /\ Frames' /\ Counters' /\ Position' /\ Fifo' /\ Signals' /\ Buffer'
        /\ Descriptors'
      BY <1>3 DEF IInv, Flags, Named, Feeding, Frames, Counters, Position, Fifo, Signals,
          Buffer, Descriptors, readsf_start, fileVars, fifoVars, sigVars, pdVars, childVars
  <2> QED BY <2>1, <2>2 DEF IInv
<1>4. CASE readsf_stop
  <2>1. Places'
      BY <1>4, ReadsfAssumption DEF IInv, Places, readsf_stop, Wake, fileVars, fifoVars,
          sigVars, pdVars, childVars
  <2>2. Named'
      BY <1>4, ReadsfAssumption DEF IInv, Named, Feeding, readsf_stop, Wake, fileVars,
          fifoVars, sigVars, pdVars, childVars
  <2>3. Fifo'
      BY <1>4, ReadsfAssumption, FileFacts DEF IInv, Fifo, Places, Frames, Named, Feeding,
          Position, Counters, readsf_stop, Wake, fileVars, fifoVars, sigVars, pdVars, childVars
  <2>4. Flags' /\ Frames' /\ Counters' /\ Position' /\ Signals' /\ Buffer' /\ Descriptors'
      BY <1>4 DEF IInv, Flags, Frames, Counters, Position, Feeding, Signals, Buffer,
          Descriptors, readsf_stop, Wake, fileVars, fifoVars, sigVars, pdVars, childVars
  <2> QED BY <2>1, <2>2, <2>3, <2>4 DEF IInv
<1>5. CASE readsf_dsp
  <2>1. Signals'
    <3>1. x_frame * VEC \in Nat \ {0}
        BY PositiveProduct, ReadsfAssumption DEF IInv, Frames
    <3>2. x_fifosize \in Nat /\ x_fifosize <= BUFSIZE
        BY ReadsfAssumption DEF IInv, Fifo
    <3>3. x_fifosize \div (x_frame * VEC) \in 0 .. x_fifosize
        BY <3>1, <3>2, DivBound
    <3> QED BY <1>5, <3>2, <3>3, ReadsfAssumption DEF IInv, Signals, readsf_dsp
  <2>2. Flags' /\ Places' /\ Named' /\ Frames' /\ Counters' /\ Position' /\ Fifo' /\ Buffer' /\
        Descriptors'
      BY <1>5 DEF IInv, Flags, Places, Named, Feeding, Frames, Counters, Position, Fifo,
          Buffer, Descriptors, readsf_dsp, fileVars, fifoVars, pdVars, childVars
  <2> QED BY <2>1, <2>2 DEF IInv
<1>6. CASE readsf_tick
  <2>1. Flags'
      BY <1>6, ReadsfAssumption DEF IInv, Flags, readsf_tick, fileVars, fifoVars, sigVars,
          pdVars, childVars
  <2>2. Places' /\ Named' /\ Frames' /\ Counters' /\ Position' /\ Fifo' /\ Signals' /\ Buffer'
        /\ Descriptors'
      BY <1>6 DEF IInv, Places, Named, Feeding, Frames, Counters, Position, Fifo, Signals,
          Buffer, Descriptors, readsf_tick, fileVars, fifoVars, sigVars, pdVars, childVars
  <2> QED BY <2>1, <2>2 DEF IInv
<1>7. CASE readsf_free
  <2>1. Places'
      BY <1>7, ReadsfAssumption DEF IInv, Places, readsf_free, WakeAndSleep, fileVars,
          fifoVars, sigVars, childVars
  <2>2. Named'
      BY <1>7, ReadsfAssumption DEF IInv, Named, Feeding, readsf_free, WakeAndSleep, fileVars,
          fifoVars, sigVars, childVars
  <2>3. Fifo'
      BY <1>7, ReadsfAssumption, FileFacts DEF IInv, Fifo, Places, Frames, Named, Feeding,
          Position, Counters, readsf_free, WakeAndSleep, fileVars, fifoVars, sigVars, childVars
  <2>4. Flags' /\ Frames' /\ Counters' /\ Position' /\ Signals' /\ Buffer' /\ Descriptors'
      BY <1>7 DEF IInv, Flags, Frames, Counters, Position, Feeding, Signals, Buffer,
          Descriptors, readsf_free, WakeAndSleep, fileVars, fifoVars, sigVars, childVars
  <2> QED BY <2>1, <2>2, <2>3, <2>4 DEF IInv
<1>8. CASE FreeWait
  <2>1. Places'
      BY <1>8, ReadsfAssumption DEF IInv, Places, FreeWait, WakeAndSleep, fileVars, fifoVars,
          sigVars, childVars
  <2>2. Flags' /\ Named' /\ Frames' /\ Counters' /\ Position' /\ Fifo' /\ Signals' /\ Buffer'
        /\ Descriptors'
      BY <1>8 DEF IInv, Flags, Named, Feeding, Frames, Counters, Position, Fifo, Signals,
          Buffer, Descriptors, FreeWait, WakeAndSleep, fileVars, fifoVars, sigVars, childVars
  <2> QED BY <2>1, <2>2 DEF IInv
<1>9. CASE FreeJoin
  <2>1. Flags'
      BY <1>9, ReadsfAssumption DEF IInv, Flags, FreeJoin, fileVars, fifoVars, sigVars,
          childVars
  <2>2. Places'
      BY <1>9, ReadsfAssumption DEF IInv, Places, FreeJoin, fileVars, fifoVars, sigVars,
          childVars
  <2>3. Named' /\ Frames' /\ Counters' /\ Position' /\ Fifo' /\ Signals' /\ Buffer' /\
        Descriptors'
      BY <1>9 DEF IInv, Named, Feeding, Frames, Counters, Position, Fifo, Signals, Buffer,
          Descriptors, FreeJoin, fileVars, fifoVars, sigVars, childVars
  <2> QED BY <2>1, <2>2, <2>3 DEF IInv
<1>10. CASE PerformEnter
  <2>1. Places'
      BY <1>10, ReadsfAssumption DEF IInv, Places, PerformEnter, fileVars, fifoVars, sigVars,
          childVars
  <2>2. Frames'
      BY <1>10, ReadsfAssumption, FileFacts DEF IInv, Frames, Named, Feeding, PerformEnter,
          fileVars, fifoVars, sigVars, childVars
  <2>3. Flags' /\ Named' /\ Counters' /\ Position' /\ Fifo' /\ Signals' /\ Buffer' /\
        Descriptors'
      BY <1>10 DEF IInv, Flags, Named, Feeding, Counters, Position, Fifo, Signals, Buffer,
          Descriptors, PerformEnter, fileVars, fifoVars, sigVars, childVars
  <2> QED BY <2>1, <2>2, <2>3 DEF IInv
<1>11. ASSUME NEW frame \in {p_frame, x_frame}, PerformWait(frame) PROVE IInv'
  <2>1. Places'
      BY <1>11, ReadsfAssumption DEF IInv, Places, PerformWait, Performing, TooFew,
          WakeAndSleep, fileVars, fifoVars, sigVars, childVars
  <2>2. Flags' /\ Named' /\ Frames' /\ Counters' /\ Position' /\ Fifo' /\ Signals' /\ Buffer'
        /\ Descriptors'
      BY <1>11 DEF IInv, Flags, Named, Feeding, Frames, Counters, Position, Fifo, Signals,
          Buffer, Descriptors, PerformWait, Performing, TooFew, WakeAndSleep, fileVars,
          fifoVars, sigVars, childVars
  <2> QED BY <2>1, <2>2 DEF IInv
<1>12. ASSUME NEW frame \in {p_frame, x_frame}, PerformEnd(frame) PROVE IInv'
  <2>1. Flags'
      BY <1>12, ReadsfAssumption DEF IInv, Flags, PerformEnd, Performing, TooFew, AtMost, Wake,
          fileVars, fifoVars, sigVars, childVars
  <2>2. Places'
      BY <1>12, ReadsfAssumption DEF IInv, Places, PerformEnd, Performing, TooFew, AtMost,
          Wake, fileVars, fifoVars, sigVars, childVars
  <2>3. Counters'
      BY <1>12, ReadsfAssumption, FileFacts DEF IInv, Counters, Frames, Fifo, Named, Feeding,
          Position, PerformEnd, Performing, TooFew, AtMost, Wake, fileVars, fifoVars, sigVars,
          childVars
  <2>4. Named' /\ Frames' /\ Position' /\ Fifo' /\ Signals' /\ Buffer' /\ Descriptors'
      BY <1>12 DEF IInv, Named, Feeding, Frames, Position, Fifo, Signals, Buffer, Descriptors,
          PerformEnd, Performing, TooFew, AtMost, Wake, fileVars, fifoVars, sigVars, childVars
  <2> QED BY <2>1, <2>2, <2>3, <2>4 DEF IInv
<1>13. ASSUME NEW frame \in {p_frame, x_frame}, PerformPlay(frame) PROVE IInv'
  <2>1. Places'
      BY <1>13, ReadsfAssumption DEF IInv, Places, PerformPlay, Performing, TooFew, AtMost,
          Wake, fileVars, childVars
  <2>2. Counters'
      BY <1>13, ReadsfAssumption, FileFacts DEF IInv, Counters, Frames, Fifo, Named, Feeding,
          Position, PerformPlay, Performing, TooFew, AtMost, Wake, fileVars, childVars
  <2>3. Fifo'
      BY <1>13, ReadsfAssumption, FileFacts DEF IInv, Fifo, Places, Frames, Named, Feeding,
          Position, Counters, PerformPlay, Performing, TooFew, AtMost, Wake, fileVars,
          childVars
  <2>4. Signals'
      BY <1>13, ReadsfAssumption DEF IInv, Signals, PerformPlay, Performing, TooFew, AtMost,
          Wake, fileVars, childVars
  <2>5. Flags' /\ Named' /\ Frames' /\ Position' /\ Buffer' /\ Descriptors'
      BY <1>13 DEF IInv, Flags, Named, Feeding, Frames, Position, Buffer, Descriptors,
          PerformPlay, Performing, TooFew, AtMost, Wake, fileVars, childVars
  <2> QED BY <2>1, <2>2, <2>3, <2>4, <2>5 DEF IInv
<1>14. CASE ChildLock
  <2>1. Flags'
      BY <1>14, ReadsfAssumption DEF IInv, Flags, ChildLock, Lock, pdUnchanged, pdVars,
          fileVars, sigVars
  <2>2. Places'
      BY <1>14, ReadsfAssumption DEF IInv, Places, ChildLock, Lock, pdUnchanged, pdVars,
          fileVars, sigVars
  <2>3. Named'
      BY <1>14, ReadsfAssumption DEF IInv, Named, Feeding, ChildLock, Lock, pdUnchanged,
          pdVars, fileVars, sigVars
  <2>4. Position'
      BY <1>14, ReadsfAssumption, FileFacts DEF IInv, Position, Feeding, Named, Fifo, Places,
          ChildLock, Lock, pdUnchanged, pdVars, fileVars, sigVars
  <2>5. Fifo'
      BY <1>14, ReadsfAssumption, FileFacts DEF IInv, Fifo, Places, Frames, Named, Feeding,
          Position, Counters, ChildLock, Lock, pdUnchanged, pdVars, fileVars, sigVars
  <2>6. Descriptors'
      BY <1>14, ReadsfAssumption DEF IInv, Descriptors, Feeding, Places, Flags, ChildLock,
          Lock, pdUnchanged, pdVars, fileVars, sigVars
  <2>7. Frames' /\ Counters' /\ Signals' /\ Buffer'
      BY <1>14 DEF IInv, Frames, Counters, Signals, Buffer, ChildLock, Lock, pdUnchanged,
          pdVars, fileVars, sigVars
  <2> QED BY <2>1, <2>2, <2>3, <2>4, <2>5, <2>6, <2>7 DEF IInv
<1>15. CASE ChildNothing
  <2>1. Flags'
      BY <1>15, ReadsfAssumption DEF IInv, Flags, ChildNothing, WakeAndSleep, Unlock,
          pdUnchanged, pdVars, fileVars, sigVars
  <2>2. Places'
      BY <1>15, ReadsfAssumption DEF IInv, Places, ChildNothing, WakeAndSleep, Unlock,
          pdUnchanged, pdVars, fileVars, sigVars
  <2>3. Named'
      BY <1>15, ReadsfAssumption DEF IInv, Named, Feeding, ChildNothing, WakeAndSleep, Unlock,
          pdUnchanged, pdVars, fileVars, sigVars
  <2>4. Position'
      BY <1>15, ReadsfAssumption, FileFacts DEF IInv, Position, Feeding, Named, Fifo, Places,
          ChildNothing, WakeAndSleep, Unlock, pdUnchanged, pdVars, fileVars, sigVars
  <2>5. Fifo'
      BY <1>15, ReadsfAssumption, FileFacts DEF IInv, Fifo, Places, Frames, Named, Feeding,
          Position, Counters, ChildNothing, WakeAndSleep, Unlock, pdUnchanged, pdVars,
          fileVars, sigVars
  <2>6. Descriptors'
      BY <1>15, ReadsfAssumption DEF IInv, Descriptors, Feeding, Places, Flags, ChildNothing,
          WakeAndSleep, Unlock, pdUnchanged, pdVars, fileVars, sigVars
  <2>7. Frames' /\ Counters' /\ Signals' /\ Buffer'
      BY <1>15 DEF IInv, Frames, Counters, Signals, Buffer, ChildNothing, WakeAndSleep, Unlock,
          pdUnchanged, pdVars, fileVars, sigVars
  <2> QED BY <2>1, <2>2, <2>3, <2>4, <2>5, <2>6, <2>7 DEF IInv
<1>16. CASE ChildOpen
  <2>1. Flags'
      BY <1>16, ReadsfAssumption DEF IInv, Flags, ChildOpen, Unlock, pdUnchanged, pdVars,
          fileVars, sigVars
  <2>2. Places'
      BY <1>16, ReadsfAssumption DEF IInv, Places, ChildOpen, Unlock, pdUnchanged, pdVars,
          fileVars, sigVars
  <2>3. Named'
      BY <1>16, ReadsfAssumption DEF IInv, Named, Feeding, ChildOpen, Unlock, pdUnchanged,
          pdVars, fileVars, sigVars
  <2>4. Counters'
      BY <1>16, ReadsfAssumption, FileFacts DEF IInv, Counters, Frames, Fifo, Named, Feeding,
          Position, ChildOpen, Unlock, pdUnchanged, pdVars, fileVars, sigVars
  <2>5. Position'
      BY <1>16, ReadsfAssumption, FileFacts DEF IInv, Position, Feeding, Named, Fifo, Places,
          ChildOpen, Unlock, pdUnchanged, pdVars, fileVars, sigVars
  <2>6. Fifo'
      BY <1>16, ReadsfAssumption, FileFacts DEF IInv, Fifo, Places, Frames, Named, Feeding,
          Position, Counters, ChildOpen, Unlock, pdUnchanged, pdVars, fileVars, sigVars
  <2>7. Descriptors'
      BY <1>16, ReadsfAssumption DEF IInv, Descriptors, Feeding, Places, Flags, ChildOpen,
          Unlock, pdUnchanged, pdVars, fileVars, sigVars
  <2>8. Frames' /\ Signals' /\ Buffer'
      BY <1>16 DEF IInv, Frames, Signals, Buffer, ChildOpen, Unlock, pdUnchanged, pdVars,
          fileVars, sigVars
  <2> QED BY <2>1, <2>2, <2>3, <2>4, <2>5, <2>6, <2>7, <2>8 DEF IInv
<1>17. CASE ChildOpened
  <2>1. Flags'
      BY <1>17, ReadsfAssumption DEF IInv, Flags, ChildOpened, Lock, sigVars, pdUnchanged,
          pdVars
  <2>2. Places'
      BY <1>17, ReadsfAssumption DEF IInv, Places, ChildOpened, Lock, sigVars, pdUnchanged,
          pdVars
  <2>3. Named'
      BY <1>17, ReadsfAssumption DEF IInv, Named, Feeding, ChildOpened, Lock, sigVars,
          pdUnchanged, pdVars
  <2>4. Frames'
      BY <1>17, ReadsfAssumption, FileFacts DEF IInv, Frames, Named, Feeding, ChildOpened,
          Lock, sigVars, pdUnchanged, pdVars
  <2>5. Counters'
      BY <1>17, ReadsfAssumption, FileFacts DEF IInv, Counters, Frames, Fifo, Named, Feeding,
          Position, ChildOpened, Lock, sigVars, pdUnchanged, pdVars
  <2>6. Position'
      BY <1>17, ReadsfAssumption, FileFacts DEF IInv, Position, Feeding, Named, Fifo, Places,
          ChildOpened, Lock, sigVars, pdUnchanged, pdVars
  <2>7. Fifo'
      BY <1>17, ReadsfAssumption, FileFacts DEF IInv, Fifo, Places, Frames, Named, Feeding,
          Position, Counters, ChildOpened, Lock, sigVars, pdUnchanged, pdVars
  <2>8. Signals'
    <3>1. CASE UNCHANGED sigVars
        BY <3>1 DEF IInv, Signals, sigVars
    <3>2. CASE ~UNCHANGED sigVars
      <4>1. x_sigperiod' = x_fifosize' \div (SIGS * c_file.frame * VEC)
            /\ x_sigcountdown' = x_sigperiod'
          BY <1>17, <3>2 DEF ChildOpened
      <4>2. c_file.frame \in Nat \ {0}
          BY <1>17, FileFacts DEF IInv, Named, ChildOpened
      <4>3. SIGS * c_file.frame \in Nat \ {0}
          BY <4>2, PositiveProduct, ReadsfAssumption
      <4>4. SIGS * c_file.frame * VEC \in Nat \ {0}
          BY <4>3, PositiveProduct, ReadsfAssumption
      <4>5. x_fifosize' \in Nat /\ x_fifosize' <= BUFSIZE
          BY <2>7, ReadsfAssumption DEF Fifo
      <4>6. x_sigperiod' \in 0 .. x_fifosize'
          BY <4>1, <4>4, <4>5, DivBound
      <4> QED BY <4>1, <4>5, <4>6, ReadsfAssumption DEF Signals
    <3> QED BY <3>1, <3>2
  <2>9. Descriptors'
      BY <1>17, ReadsfAssumption DEF IInv, Descriptors, Feeding, Places, Flags, ChildOpened,
          Lock, sigVars, pdUnchanged, pdVars
  <2>10. Buffer'
      BY <1>17 DEF IInv, Buffer, ChildOpened, Lock, sigVars, pdUnchanged, pdVars
  <2> QED BY <2>1, <2>2, <2>3, <2>4, <2>5, <2>6, <2>7, <2>8, <2>9, <2>10 DEF IInv
<1>18. CASE ChildRead
  <2>1. Flags'
      BY <1>18, ReadsfAssumption DEF IInv, Flags, ChildRead, Wanted, AtMost, Unlock,
          pdUnchanged, pdVars, fileVars, sigVars
  <2>2. Places'
      BY <1>18, ReadsfAssumption DEF IInv, Places, ChildRead, Wanted, AtMost, Unlock,
          pdUnchanged, pdVars, fileVars, sigVars
  <2>3. Named'
      BY <1>18, ReadsfAssumption DEF IInv, Named, Feeding, ChildRead, Wanted, AtMost, Unlock,
          pdUnchanged, pdVars, fileVars, sigVars
  <2>4. Position'
      BY <1>18, ReadsfAssumption, FileFacts DEF IInv, Position, Feeding, Named, Fifo, Places,
          ChildRead, Wanted, AtMost, Unlock, pdUnchanged, pdVars, fileVars, sigVars
  <2>5. Fifo'
      BY <1>18, ReadsfAssumption, FileFacts DEF IInv, Fifo, Places, Frames, Named, Feeding,
          Position, Counters, ChildRead, Wanted, AtMost, Unlock, pdUnchanged, pdVars, fileVars,
          sigVars
  <2>6. Buffer'
      BY <1>18, ReadsfAssumption DEF IInv, Buffer, ChildRead, Wanted, AtMost, Unlock,
          pdUnchanged, pdVars, fileVars, sigVars
  <2>7. Descriptors'
      BY <1>18, ReadsfAssumption DEF IInv, Descriptors, Feeding, Places, Flags, ChildRead,
          Wanted, AtMost, Unlock, pdUnchanged, pdVars, fileVars, sigVars
  <2>8. Frames' /\ Counters' /\ Signals'
      BY <1>18 DEF IInv, Frames, Counters, Signals, ChildRead, Wanted, AtMost, Unlock,
          pdUnchanged, pdVars, fileVars, sigVars
  <2> QED BY <2>1, <2>2, <2>3, <2>4, <2>5, <2>6, <2>7, <2>8 DEF IInv
<1>19. CASE ChildFeedWait
  <2>1. Flags'
      BY <1>19, ReadsfAssumption DEF IInv, Flags, ChildFeedWait, Wanted, AtMost, WakeAndSleep,
          Unlock, pdUnchanged, pdVars, fileVars, sigVars
  <2>2. Places'
      BY <1>19, ReadsfAssumption DEF IInv, Places, ChildFeedWait, Wanted, AtMost, WakeAndSleep,
          Unlock, pdUnchanged, pdVars, fileVars, sigVars
  <2>3. Named'
      BY <1>19, ReadsfAssumption DEF IInv, Named, Feeding, ChildFeedWait, Wanted, AtMost,
          WakeAndSleep, Unlock, pdUnchanged, pdVars, fileVars, sigVars
  <2>4. Position'
      BY <1>19, ReadsfAssumption, FileFacts DEF IInv, Position, Feeding, Named, Fifo, Places,
          ChildFeedWait, Wanted, AtMost, WakeAndSleep, Unlock, pdUnchanged, pdVars, fileVars,
          sigVars
  <2>5. Fifo'
      BY <1>19, ReadsfAssumption, FileFacts DEF IInv, Fifo, Places, Frames, Named, Feeding,
          Position, Counters, ChildFeedWait, Wanted, AtMost, WakeAndSleep, Unlock, pdUnchanged,
          pdVars, fileVars, sigVars
  <2>6. Descriptors'
      BY <1>19, ReadsfAssumption DEF IInv, Descriptors, Feeding, Places, Flags, ChildFeedWait,
          Wanted, AtMost, WakeAndSleep, Unlock, pdUnchanged, pdVars, fileVars, sigVars
  <2>7. Frames' /\ Counters' /\ Signals' /\ Buffer'
      BY <1>19 DEF IInv, Frames, Counters, Signals, Buffer, ChildFeedWait, Wanted, AtMost,
          WakeAndSleep, Unlock, pdUnchanged, pdVars, fileVars, sigVars
  <2> QED BY <2>1, <2>2, <2>3, <2>4, <2>5, <2>6, <2>7 DEF IInv
<1>20. CASE ChildFeedLock
  <2>1. Flags'
      BY <1>20, ReadsfAssumption DEF IInv, Flags, ChildFeedLock, Lock, pdUnchanged, pdVars,
          fileVars, sigVars
  <2>2. Places'
      BY <1>20, ReadsfAssumption DEF IInv, Places, ChildFeedLock, Lock, pdUnchanged, pdVars,
          fileVars, sigVars
  <2>3. Named'
      BY <1>20, ReadsfAssumption DEF IInv, Named, Feeding, ChildFeedLock, Lock, pdUnchanged,
          pdVars, fileVars, sigVars
  <2>4. Position'
      BY <1>20, ReadsfAssumption, FileFacts DEF IInv, Position, Feeding, Named, Fifo, Places,
          ChildFeedLock, Lock, pdUnchanged, pdVars, fileVars, sigVars
  <2>5. Fifo'
      BY <1>20, ReadsfAssumption, FileFacts DEF IInv, Fifo, Places, Frames, Named, Feeding,
          Position, Counters, ChildFeedLock, Lock, pdUnchanged, pdVars, fileVars, sigVars
  <2>6. Descriptors'
      BY <1>20, ReadsfAssumption DEF IInv, Descriptors, Feeding, Places, Flags, ChildFeedLock,
          Lock, pdUnchanged, pdVars, fileVars, sigVars
  <2>7. Frames' /\ Counters' /\ Signals' /\ Buffer'
      BY <1>20 DEF IInv, Frames, Counters, Signals, Buffer, ChildFeedLock, Lock, pdUnchanged,
          pdVars, fileVars, sigVars
  <2> QED BY <2>1, <2>2, <2>3, <2>4, <2>5, <2>6, <2>7 DEF IInv
<1>21. CASE ChildFed
  <2>1. Places'
      BY <1>21, ReadsfAssumption DEF IInv, Places, ChildFed, pdUnchanged, pdVars, fileVars,
          sigVars
  <2>2. Named'
      BY <1>21, ReadsfAssumption DEF IInv, Named, Feeding, ChildFed, pdUnchanged, pdVars,
          fileVars, sigVars
  <2>3. Position'
      BY <1>21, ReadsfAssumption, FileFacts DEF IInv, Position, Feeding, Named, Fifo, Places,
          ChildFed, pdUnchanged, pdVars, fileVars, sigVars
  <2>4. Fifo'
      BY <1>21, ReadsfAssumption, FileFacts DEF IInv, Fifo, Places, Frames, Named, Feeding,
          Position, Counters, ChildFed, pdUnchanged, pdVars, fileVars, sigVars
  <2>5. Descriptors'
      BY <1>21, ReadsfAssumption DEF IInv, Descriptors, Feeding, Places, Flags, ChildFed,
          pdUnchanged, pdVars, fileVars, sigVars
  <2>6. Flags' /\ Frames' /\ Counters' /\ Signals' /\ Buffer'
      BY <1>21 DEF IInv, Flags, Frames, Counters, Signals, Buffer, ChildFed, pdUnchanged,
          pdVars, fileVars, sigVars
  <2> QED BY <2>1, <2>2, <2>3, <2>4, <2>5, <2>6 DEF IInv
<1>22. CASE ChildGot
  <2>1. Flags'
      BY <1>22, ReadsfAssumption DEF IInv, Flags, ChildGot, Lock, AtMost, Stored, Wake,
          pdUnchanged, pdVars, sigVars
  <2>2. Places'
      BY <1>22, ReadsfAssumption DEF IInv, Places, ChildGot, Lock, AtMost, Stored, Wake,
          pdUnchanged, pdVars, sigVars
  <2>3. Named'
      BY <1>22, ReadsfAssumption DEF IInv, Named, Feeding, ChildGot, Lock, AtMost, Stored,
          Wake, pdUnchanged, pdVars, sigVars
  <2>4. Counters'
      BY <1>22, ReadsfAssumption, FileFacts DEF IInv, Counters, Frames, Fifo, Named, Feeding,
          Position, ChildGot, Lock, AtMost, Stored, Wake, pdUnchanged, pdVars, sigVars
  <2>5. Position'
      BY <1>22, ReadsfAssumption, FileFacts DEF IInv, Position, Feeding, Named, Fifo, Places,
          ChildGot, Lock, AtMost, Stored, Wake, pdUnchanged, pdVars, sigVars
  <2>6. Fifo'
      BY <1>22, ReadsfAssumption, FileFacts DEF IInv, Fifo, Places, Frames, Named, Feeding,
          Position, Counters, ChildGot, Lock, AtMost, Stored, Wake, pdUnchanged, pdVars,
          sigVars
  <2>7. Buffer'
      BY <1>22, ReadsfAssumption DEF IInv, Buffer, ChildGot, Lock, AtMost, Stored, Wake,
          pdUnchanged, pdVars, sigVars
  <2>8. Descriptors'
      BY <1>22, ReadsfAssumption DEF IInv, Descriptors, Feeding, Places, Flags, ChildGot, Lock,
          AtMost, Stored, Wake, pdUnchanged, pdVars, sigVars
  <2>9. Frames' /\ Signals'
      BY <1>22 DEF IInv, Frames, Signals, ChildGot, Lock, AtMost, Stored, Wake, pdUnchanged,
          pdVars, sigVars
  <2> QED BY <2>1, <2>2, <2>3, <2>4, <2>5, <2>6, <2>7, <2>8, <2>9 DEF IInv
<1>23. CASE ChildReadError
  <2>1. Flags'
      BY <1>23, ReadsfAssumption DEF IInv, Flags, ChildReadError, Lock, pdUnchanged, pdVars,
          fileVars, sigVars
  <2>2. Places'
      BY <1>23, ReadsfAssumption DEF IInv, Places, ChildReadError, Lock, pdUnchanged, pdVars,
          fileVars, sigVars
  <2>3. Named'
      BY <1>23, ReadsfAssumption DEF IInv, Named, Feeding, ChildReadError, Lock, pdUnchanged,
          pdVars, fileVars, sigVars
  <2>4. Position'
      BY <1>23, ReadsfAssumption, FileFacts DEF IInv, Position, Feeding, Named, Fifo, Places,
          ChildReadError, Lock, pdUnchanged, pdVars, fileVars, sigVars
  <2>5. Fifo'
      BY <1>23, ReadsfAssumption, FileFacts DEF IInv, Fifo, Places, Frames, Named, Feeding,
          Position, Counters, ChildReadError, Lock, pdUnchanged, pdVars, fileVars, sigVars
  <2>6. Descriptors'
      BY <1>23, ReadsfAssumption DEF IInv, Descriptors, Feeding, Places, Flags, ChildReadError,
          Lock, pdUnchanged, pdVars, fileVars, sigVars
  <2>7. Frames' /\ Counters' /\ Signals' /\ Buffer'
      BY <1>23 DEF IInv, Frames, Counters, Signals, Buffer, ChildReadError, Lock, pdUnchanged,
          pdVars, fileVars, sigVars
  <2> QED BY <2>1, <2>2, <2>3, <2>4, <2>5, <2>6, <2>7 DEF IInv
<1>24. CASE ChildLost
  <2>1. Flags'
      BY <1>24, ReadsfAssumption DEF IInv, Flags, ChildLost, Unlock, Keep, Wake, pdUnchanged,
          pdVars, fileVars, sigVars
  <2>2. Places'
      BY <1>24, ReadsfAssumption DEF IInv, Places, ChildLost, Unlock, Keep, Wake, pdUnchanged,
          pdVars, fileVars, sigVars
  <2>3. Named'
      BY <1>24, ReadsfAssumption DEF IInv, Named, Feeding, ChildLost, Unlock, Keep, Wake,
          pdUnchanged, pdVars, fileVars, sigVars
  <2>4. Position'
      BY <1>24, ReadsfAssumption, FileFacts DEF IInv, Position, Feeding, Named, Fifo, Places,
          ChildLost, Unlock, Keep, Wake, pdUnchanged, pdVars, fileVars, sigVars
  <2>5. Fifo'
      BY <1>24, ReadsfAssumption, FileFacts DEF IInv, Fifo, Places, Frames, Named, Feeding,
          Position, Counters, ChildLost, Unlock, Keep, Wake, pdUnchanged, pdVars, fileVars,
          sigVars
  <2>6. Descriptors'
      BY <1>24, ReadsfAssumption DEF IInv, Descriptors, Feeding, Places, Flags, ChildLost,
          Unlock, Keep, Wake, pdUnchanged, pdVars, fileVars, sigVars
  <2>7. Frames' /\ Counters' /\ Signals' /\ Buffer'
      BY <1>24 DEF IInv, Frames, Counters, Signals, Buffer, ChildLost, Unlock, Keep, Wake,
          pdUnchanged, pdVars, fileVars, sigVars
  <2> QED BY <2>1, <2>2, <2>3, <2>4, <2>5, <2>6, <2>7 DEF IInv
<1>25. CASE ChildClosedLost
  <2>1. Flags'
      BY <1>25, ReadsfAssumption DEF IInv, Flags, ChildClosedLost, Lock, Wake, pdUnchanged,
          pdVars, sigVars
  <2>2. Places'
      BY <1>25, ReadsfAssumption DEF IInv, Places, ChildClosedLost, Lock, Wake, pdUnchanged,
          pdVars, sigVars
  <2>3. Named'
      BY <1>25, ReadsfAssumption DEF IInv, Named, Feeding, ChildClosedLost, Lock, Wake,
          pdUnchanged, pdVars, sigVars
  <2>4. Position'
      BY <1>25, ReadsfAssumption, FileFacts DEF IInv, Position, Feeding, Named, Fifo, Places,
          ChildClosedLost, Lock, Wake, pdUnchanged, pdVars, sigVars
  <2>5. Fifo'
      BY <1>25, ReadsfAssumption, FileFacts DEF IInv, Fifo, Places, Frames, Named, Feeding,
          Position, Counters, ChildClosedLost, Lock, Wake, pdUnchanged, pdVars, sigVars
  <2>6. Descriptors'
      BY <1>25, ReadsfAssumption DEF IInv, Descriptors, Feeding, Places, Flags,
          ChildClosedLost, Lock, Wake, pdUnchanged, pdVars, sigVars
  <2>7. Frames' /\ Counters' /\ Signals' /\ Buffer'
      BY <1>25 DEF IInv, Frames, Counters, Signals, Buffer, ChildClosedLost, Lock, Wake,
          pdUnchanged, pdVars, sigVars
  <2> QED BY <2>1, <2>2, <2>3, <2>4, <2>5, <2>6, <2>7 DEF IInv
<1>26. CASE ChildClose
  <2>1. Places'
      BY <1>26, ReadsfAssumption DEF IInv, Places, ChildClose, Wake, pdUnchanged, pdVars,
          fileVars, sigVars, childVars
  <2>2. Named'
      BY <1>26, ReadsfAssumption DEF IInv, Named, Feeding, ChildClose, Wake, pdUnchanged,
          pdVars, fileVars, sigVars, childVars
  <2>3. Fifo'
      BY <1>26, ReadsfAssumption, FileFacts DEF IInv, Fifo, Places, Frames, Named, Feeding,
          Position, Counters, ChildClose, Wake, pdUnchanged, pdVars, fileVars, sigVars,
          childVars
  <2>4. Flags' /\ Frames' /\ Counters' /\ Position' /\ Signals' /\ Buffer' /\ Descriptors'
      BY <1>26 DEF IInv, Flags, Frames, Counters, Position, Feeding, Signals, Buffer,
          Descriptors, ChildClose, Wake, pdUnchanged, pdVars, fileVars, sigVars, childVars
  <2> QED BY <2>1, <2>2, <2>3, <2>4 DEF IInv
<1>27. CASE ChildQuit
  <2>1. Flags'
      BY <1>27, ReadsfAssumption DEF IInv, Flags, ChildQuit, Wake, Unlock, pdUnchanged, pdVars,
          fileVars, sigVars
  <2>2. Places'
      BY <1>27, ReadsfAssumption DEF IInv, Places, ChildQuit, Wake, Unlock, pdUnchanged,
          pdVars, fileVars, sigVars
  <2>3. Named'
      BY <1>27, ReadsfAssumption DEF IInv, Named, Feeding, ChildQuit, Wake, Unlock,
          pdUnchanged, pdVars, fileVars, sigVars
  <2>4. Position'
      BY <1>27, ReadsfAssumption, FileFacts DEF IInv, Position, Feeding, Named, Fifo, Places,
          ChildQuit, Wake, Unlock, pdUnchanged, pdVars, fileVars, sigVars
  <2>5. Fifo'
      BY <1>27, ReadsfAssumption, FileFacts DEF IInv, Fifo, Places, Frames, Named, Feeding,
          Position, Counters, ChildQuit, Wake, Unlock, pdUnchanged, pdVars, fileVars, sigVars
  <2>6. Descriptors'
      BY <1>27, ReadsfAssumption DEF IInv, Descriptors, Feeding, Places, Flags, ChildQuit,
          Wake, Unlock, pdUnchanged, pdVars, fileVars, sigVars
  <2>7. Frames' /\ Counters' /\ Signals' /\ Buffer'
      BY <1>27 DEF IInv, Frames, Counters, Signals, Buffer, ChildQuit, Wake, Unlock,
          pdUnchanged, pdVars, fileVars, sigVars
  <2> QED BY <2>1, <2>2, <2>3, <2>4, <2>5, <2>6, <2>7 DEF IInv
<1>28. CASE SpuriousWakeup
  <2>1. Places'
      BY <1>28, ReadsfAssumption DEF IInv, Places, SpuriousWakeup, Wake, fileVars, fifoVars,
          sigVars, pdVars, childVars
  <2>2. Flags' /\ Named' /\ Frames' /\ Counters' /\ Position' /\ Fifo' /\ Signals' /\ Buffer'
        /\ Descriptors'
      BY <1>28 DEF IInv, Flags, Named, Feeding, Frames, Counters, Position, Fifo, Signals,
          Buffer, Descriptors, SpuriousWakeup, Wake, fileVars, fifoVars, sigVars, pdVars,
          childVars
  <2> QED BY <2>1, <2>2 DEF IInv
<1> QED BY <1>1, <1>2, <1>3, <1>4, <1>5, <1>6, <1>7, <1>8, <1>9, <1>10, <1>11, <1>12, <1>13,
    <1>14, <1>15, <1>16, <1>17, <1>18, <1>19, <1>20, <1>21, <1>22, <1>23, <1>24, <1>25, <1>26,
    <1>27, <1>28 DEF Next, readsf_perform, readsf_child_main

-----------------------------------------------------------------------------
(* The theorems.                                                           *)

\* The invariant implies the invariants that the run checks.
LEMMA IInvImplies == IInv => TypeOK /\ DescriptorHeld
<1> SUFFICES ASSUME IInv PROVE TypeOK /\ DescriptorHeld
    OBVIOUS
<1>1. TypeOK
    BY DEF IInv, TypeOK, Flags, Places, Named, Frames, Counters, Position, Fifo, Signals, Buffer,
        Descriptors
<1>2. DescriptorHeld
    BY DEF IInv, DescriptorHeld, Descriptors
<1> QED BY <1>1, <1>2

\* The invariant holds throughout.
LEMMA Invariance == Spec => []IInv
    BY InitIInv, NextIInv, PTL DEF Spec

\* The fifo's indices stay inside the buffer, and the other variables in their types.
THEOREM TypeCorrect == Spec => []TypeOK
    BY Invariance, IInvImplies, PTL

\* At most one descriptor is open, x_fd stands for it, and it is closed before the child
\* looks for another request.
THEOREM DescriptorNeverLost == Spec => []DescriptorHeld
    BY Invariance, IInvImplies, PTL

-----------------------------------------------------------------------------
(* What is played, for files of one format.  While the format of the file  *)
(* before may still be in use (x_frame, p_frame) nothing of this holds.    *)

\* The bytes of a vector, and of the buffer that are used.
Vector == DEFFRAME * VEC
FullSize == BUFSIZE - (BUFSIZE % Vector)

Multiple(n, m) == \E q \in Nat : n = q * m

\* One format at a time.
Formats == x_frame = DEFFRAME /\ p_frame = DEFFRAME

\* readsf_perform works in the state STREAM only.
Performs == pd \in {"perform", "waiting"} => x_state = "STREAM"

\* The indices: the tail moves by vectors; the head is at the end only after the last byte.
Indices ==
    /\ x_fifosize \in {0, FullSize}
    /\ Multiple(x_fifotail, Vector)
    /\ x_fifotail < x_fifosize \/ x_fifotail = 0
    /\ x_fifohead < x_fifosize \/ (x_fifohead = x_fifosize /\ (x_eof \/ x_fifosize = 0))

\* The child has not been told of another request.
Serving == x_requestcode = "BUSY" /\ (Feeding \/ child = "open")

\* What the child reads is the file of the last open message, from the start to its
\* position, by whole reads but for the last.
Progress ==
    /\ x_state # "IDLE" => x_filename \in Files
    /\ Serving => c_open = opens /\ c_file = x_filename
    /\ (Serving /\ Feeding) =>
          /\ x_fifosize = FullSize
          /\ pos <= c_file.limit /\ x_bytelimit = c_file.limit - pos
          /\ ~x_eof => Multiple(x_fifohead, READSIZE) \/ pos = c_file.bytes
    /\ (Serving /\ child = "read") =>
          /\ ~x_eof /\ x_fifohead < x_fifosize /\ x_fifohead + c_want <= x_fifosize
          /\ c_want \in {x_bytelimit, READSIZE, x_fifosize - x_fifohead}

\* Until its file is open, an open message has an empty buffer and nothing is played.
\* The end can only have been declared by the failure of an earlier open.
Fresh ==
    (x_state # "IDLE" /\ (x_requestcode = "OPEN" \/ (Serving /\ child = "open"))) =>
        x_fifohead = 0 /\ x_fifotail = 0 /\ next = 0 /\ (x_eof => failed)

\* The bytes in the buffer that are still to be played.
Filled ==
    IF x_fifotail <= x_fifohead THEN x_fifohead - x_fifotail
    ELSE x_fifosize - x_fifotail + x_fifohead

\* The places from lo to hi hold the bytes of the file from n on.
Holds(lo, hi, n) == \A i \in lo .. hi - 1 : x_buf[i] = <<opens, n + (i - lo)>>

\* The buffer continues what was played, as far as the child has got; and read() has room.
Content ==
    (x_state # "IDLE" /\ ~HeadPassed /\ ~OneShort) =>
        /\ IF x_fifotail <= x_fifohead THEN Holds(x_fifotail, x_fifohead, next)
           ELSE /\ Holds(x_fifotail, x_fifosize, next)
                /\ Holds(0, x_fifohead, next + (x_fifosize - x_fifotail))
        /\ next + Filled < MaxPlayed
        /\ Multiple(next, DEFFRAME)
        /\ (Serving /\ Feeding) => pos = next + Filled
        /\ (Serving /\ child = "read") =>
              /\ x_fifotail > x_fifohead => x_fifohead + c_want < x_fifotail
              /\ x_fifotail <= x_fifohead => x_fifotail # 0 \/ x_fifohead + c_want < x_fifosize
        /\ (x_eof /\ ~failed) => next + Filled = AtMost(x_filename.bytes, x_filename.limit)

PInv == Formats /\ Performs /\ Indices /\ Progress /\ Fresh /\ Content

\* A vector has at least two bytes, and the buffer that is used a whole number of vectors.
LEMMA VectorFacts ==
    ASSUME OneFormat
    PROVE  /\ Vector \in Nat /\ Vector >= 2 /\ FullSize \in Nat /\ FullSize <= BUFSIZE
           /\ Multiple(FullSize, Vector) /\ Multiple(0, Vector)
<1>1. DEFFRAME \in Nat /\ DEFFRAME >= 2 /\ VEC \in Nat /\ VEC >= 1 /\ BUFSIZE \in Nat
    BY ReadsfAssumption DEF OneFormat
<1>2. Vector \in Nat /\ Vector >= 2
  <2>1. \A a, b \in Nat : a >= 2 /\ b >= 1 => a * b \in Nat /\ a * b >= 2
    BY SMT
  <2> QED BY <1>1, <2>1 DEF Vector
<1>3. BUFSIZE % Vector \in 0 .. Vector - 1 /\ BUFSIZE \div Vector \in Nat
    BY <1>1, <1>2
<1>4. FullSize = (BUFSIZE \div Vector) * Vector
    BY <1>1, <1>2, <1>3 DEF FullSize
<1>5. FullSize \in Nat /\ FullSize <= BUFSIZE
  <2>1. (BUFSIZE \div Vector) * Vector \in Nat
    BY <1>2, <1>3
  <2> QED BY <1>1, <1>2, <1>3, <1>4, <2>1 DEF FullSize
<1>6. Multiple(FullSize, Vector)
    BY <1>3, <1>4 DEF Multiple
<1>7. Multiple(0, Vector)
    BY <1>2 DEF Multiple
<1> QED BY <1>2, <1>5, <1>6, <1>7

\* Products grow with their factors.
LEMMA ProductGrows == \A a, b, c \in Nat : a <= b => a * c <= b * c
    BY SMT

\* Below a multiple there is room for one step more.
LEMMA MultipleStep ==
    ASSUME NEW m \in Nat \ {0}, NEW a \in Nat, NEW b \in Nat,
           Multiple(a, m), Multiple(b, m), a < b
    PROVE  a + m <= b
<1>1. PICK q \in Nat : a = q * m
    BY DEF Multiple
<1>2. PICK r \in Nat : b = r * m
    BY DEF Multiple
<1>3. q < r
    BY <1>1, <1>2, ProductGrows
<1>4. (q + 1) * m <= r * m
    BY <1>3, ProductGrows
<1> QED BY <1>1, <1>2, <1>4

\* The next multiple.
LEMMA MultipleNext ==
    ASSUME NEW m \in Nat, NEW a \in Nat, Multiple(a, m)
    PROVE  Multiple(a + m, m)
<1>1. PICK q \in Nat : a = q * m
    BY DEF Multiple
<1>2. a + m = (q + 1) * m /\ q + 1 \in Nat
    BY <1>1
<1> QED BY <1>2 DEF Multiple

\* What follows a multiple is its own remainder.
LEMMA Remainder ==
    ASSUME NEW m \in Nat \ {0}, NEW a \in Nat, Multiple(a, m), NEW r \in 0 .. m - 1
    PROVE  (a + r) % m = r
<1>1. PICK q \in Nat : a = q * m
    BY DEF Multiple
<1> DEFINE d == (a + r) \div m
           s == (a + r) % m
<1>2. d \in Nat /\ s \in 0 .. m - 1 /\ a + r = m * d + s
    BY <1>1
<1> HIDE DEF d, s
<1>3. ~(q + 1 <= d)
  <2>1. q + 1 <= d => (q + 1) * m <= d * m
    BY <1>2, ProductGrows
  <2> QED BY <1>1, <1>2, <2>1
<1>4. ~(d + 1 <= q)
  <2>1. d + 1 <= q => (d + 1) * m <= q * m
    BY <1>2, ProductGrows
  <2> QED BY <1>1, <1>2, <2>1
<1>5. d = q
    BY <1>2, <1>3, <1>4
<1> QED BY <1>1, <1>2, <1>5 DEF s

-----------------------------------------------------------------------------
(* The steps that leave the fifo alone.                                    *)

dataVars == <<x_fifosize, x_fifotail, x_fifohead, x_eof, x_buf, next, opens, x_filename, x_frame,
              failed>>

\* A step that leaves the data alone and brings the child nothing new but, perhaps, the
\* request that was pending.
Quiet ==
    /\ UNCHANGED dataVars
    /\ p_frame' \in {p_frame, x_frame}
    /\ x_state' # "IDLE" => x_state # "IDLE"
    /\ pd' \in {"perform", "waiting"} => x_state' = "STREAM"
    /\ x_requestcode' = "OPEN" => x_requestcode = "OPEN"
    /\ (Serving /\ Feeding)' =>
          Serving /\ Feeding /\ UNCHANGED <<c_open, c_file, pos, x_bytelimit>>
    /\ (Serving /\ child = "read")' => Serving /\ child = "read" /\ UNCHANGED c_want
    /\ (Serving /\ child = "open")' =>
          \/ Serving /\ child = "open" /\ UNCHANGED <<c_open, c_file>>
          \/ x_requestcode = "OPEN" /\ c_open' = opens /\ c_file' = x_filename

\* Such a step keeps everything.
LEMMA QuietStep == ASSUME PInv, Quiet PROVE PInv'
<1>1. UNCHANGED <<x_fifosize, x_fifotail, x_fifohead, x_eof, x_buf, next, opens, x_filename,
                  x_frame, failed>>
    BY DEF Quiet, dataVars
<1>2. Formats' /\ Performs' /\ Indices'
    BY <1>1 DEF PInv, Quiet, Formats, Performs, Indices
<1>3. Progress'
  <2>1. (x_state # "IDLE" => x_filename \in Files)'
    BY <1>1 DEF PInv, Quiet, Progress
  <2>2. (Serving => c_open = opens /\ c_file = x_filename)'
    BY <1>1 DEF PInv, Quiet, Progress, Serving
  <2>3. (Serving /\ Feeding =>
            /\ x_fifosize = FullSize
            /\ pos <= c_file.limit /\ x_bytelimit = c_file.limit - pos
            /\ ~x_eof => Multiple(x_fifohead, READSIZE) \/ pos = c_file.bytes)'
    <3> SUFFICES ASSUME (Serving /\ Feeding)'
                 PROVE  /\ x_fifosize' = FullSize
                        /\ pos' <= c_file'.limit /\ x_bytelimit' = c_file'.limit - pos'
                        /\ ~x_eof' => Multiple(x_fifohead', READSIZE) \/ pos' = c_file'.bytes
        OBVIOUS
    <3>1. Serving /\ Feeding /\ UNCHANGED <<c_open, c_file, pos, x_bytelimit>>
        BY DEF Quiet
    <3> QED BY <1>1, <3>1 DEF PInv, Progress
  <2>4. (Serving /\ child = "read" =>
            /\ ~x_eof /\ x_fifohead < x_fifosize /\ x_fifohead + c_want <= x_fifosize
            /\ c_want \in {x_bytelimit, READSIZE, x_fifosize - x_fifohead})'
    <3> SUFFICES ASSUME (Serving /\ child = "read")'
                 PROVE  /\ ~x_eof' /\ x_fifohead' < x_fifosize'
                        /\ x_fifohead' + c_want' <= x_fifosize'
                        /\ c_want' \in {x_bytelimit', READSIZE, x_fifosize' - x_fifohead'}
        OBVIOUS
    <3>1. Serving /\ child = "read" /\ c_want' = c_want
        BY DEF Quiet
    <3>2. x_bytelimit' = x_bytelimit
        BY DEF Quiet, Feeding
    <3> QED BY <1>1, <3>1, <3>2 DEF PInv, Progress
  <2> QED BY <2>1, <2>2, <2>3, <2>4 DEF Progress
<1>4. Fresh'
    BY <1>1 DEF PInv, Quiet, Fresh
<1>5. Content'
  <2> SUFFICES ASSUME x_state' # "IDLE", ~HeadPassed', ~OneShort' PROVE Content'
    BY DEF Content
  <2>1. x_state # "IDLE" /\ ~HeadPassed /\ ~OneShort /\ Filled' = Filled
    BY <1>1 DEF Quiet, HeadPassed, OneShort, Filled
  <2>2. (IF x_fifotail <= x_fifohead THEN Holds(x_fifotail, x_fifohead, next)
         ELSE /\ Holds(x_fifotail, x_fifosize, next)
              /\ Holds(0, x_fifohead, next + (x_fifosize - x_fifotail)))'
    BY <1>1, <2>1 DEF PInv, Content, Holds
  <2>3. /\ (next + Filled < MaxPlayed)' /\ Multiple(next, DEFFRAME)'
        /\ (x_eof /\ ~failed => next + Filled = AtMost(x_filename.bytes, x_filename.limit))'
    BY <1>1, <2>1 DEF PInv, Content
  <2>4. (Serving /\ Feeding => pos = next + Filled)'
    BY <1>1, <2>1 DEF PInv, Content, Quiet
  <2>5. (Serving /\ child = "read" =>
            /\ x_fifotail > x_fifohead => x_fifohead + c_want < x_fifotail
            /\ x_fifotail <= x_fifohead => x_fifotail # 0 \/ x_fifohead + c_want < x_fifosize)'
    BY <1>1, <2>1 DEF PInv, Content, Quiet
  <2> QED BY <2>2, <2>3, <2>4, <2>5 DEF Content
<1> QED BY <1>2, <1>3, <1>4, <1>5 DEF PInv

\* The methods other than open, and the ways of Pd's thread that play nothing.
LEMMA QuietPd ==
    ASSUME IInv, PInv,
           \/ readsf_start \/ readsf_stop \/ readsf_dsp \/ readsf_tick
           \/ readsf_free \/ FreeWait \/ FreeJoin \/ PerformEnter
           \/ \E frame \in {p_frame, x_frame} : PerformWait(frame)
           \/ SpuriousWakeup \/ UNCHANGED vars
    PROVE  Quiet
<1> USE DEF Quiet, dataVars, Serving, Feeding, fifoVars, pdVars, childVars, fileVars, PInv, Performs
<1>1. CASE readsf_start
    BY <1>1 DEF readsf_start
<1>2. CASE readsf_stop
    BY <1>2 DEF readsf_stop
<1>3. CASE readsf_dsp \/ readsf_tick
    BY <1>3 DEF readsf_dsp, readsf_tick
<1>4. CASE readsf_free
    BY <1>4 DEF readsf_free
<1>5. CASE FreeWait \/ FreeJoin
    BY <1>5 DEF FreeWait, FreeJoin
<1>6. CASE PerformEnter
    BY <1>6 DEF PerformEnter
<1>7. CASE \E frame \in {p_frame, x_frame} : PerformWait(frame)
    BY <1>7 DEF PerformWait, Performing
<1>8. CASE SpuriousWakeup \/ UNCHANGED vars
    BY <1>8 DEF SpuriousWakeup, vars
<1> QED BY <1>1, <1>2, <1>3, <1>4, <1>5, <1>6, <1>7, <1>8

\* The child's steps other than those that open and read the file.
LEMMA QuietChild ==
    ASSUME IInv, PInv,
           \/ ChildLock \/ ChildNothing \/ ChildOpen \/ ChildFeedWait \/ ChildFeedLock \/ ChildFed
           \/ ChildReadError \/ ChildLost \/ ChildClosedLost \/ ChildClose \/ ChildQuit
    PROVE  Quiet
<1> USE DEF Quiet, dataVars, Serving, Feeding, pdUnchanged, pdVars, childVars, fileVars, PInv,
        Performs
<1>1. CASE ChildLock \/ ChildNothing
    BY <1>1 DEF ChildLock, ChildNothing
<1>2. CASE ChildOpen
    BY <1>2 DEF ChildOpen
<1>3. CASE ChildFeedWait \/ ChildFeedLock \/ ChildFed
    BY <1>3 DEF ChildFeedWait, ChildFeedLock, ChildFed
<1>4. CASE ChildReadError
    BY <1>4 DEF ChildReadError
<1>5. CASE ChildLost \/ ChildClosedLost
    BY <1>5 DEF ChildLost, ChildClosedLost
<1>6. CASE ChildClose \/ ChildQuit
    BY <1>6 DEF ChildClose, ChildQuit
<1> QED BY <1>1, <1>2, <1>3, <1>4, <1>5, <1>6

-----------------------------------------------------------------------------
(* The steps that move the fifo.                                           *)

\* The types that the steps below need.
LEMMA FifoTypes ==
    ASSUME IInv, PInv, OneFormat
    PROVE  /\ x_fifosize \in Nat /\ x_fifohead \in Nat /\ x_fifotail \in Nat
           /\ x_fifosize <= BUFSIZE /\ x_fifohead <= x_fifosize
           /\ next \in Nat /\ pos \in Nat /\ x_bytelimit \in Nat /\ opens \in Nat /\ c_want \in Nat
           /\ DEFFRAME \in Nat /\ DEFFRAME >= 2 /\ READSIZE \in Nat /\ READSIZE >= 1
           /\ MaxPlayed \in Nat
           /\ DOMAIN x_buf = 0 .. BUFSIZE - 1 /\ BUFSIZE \in Nat
<1>1. x_fifohead <= x_fifosize
    BY ReadsfAssumption DEF IInv, Fifo, PInv, Indices
<1> QED BY <1>1, ReadsfAssumption DEF IInv, Fifo, Counters, Position, Buffer, OneFormat

\* An open message finds the buffer in any state and leaves it empty.
LEMMA OpenStep ==
    ASSUME OneFormat, IInv, PInv, NEW f \in Files, readsf_open(f)
    PROVE  PInv'
<1>1. /\ x_state' = "STARTUP" /\ x_requestcode' = "OPEN" /\ x_filename' = f
      /\ x_fifotail' = 0 /\ x_fifohead' = 0 /\ next' = 0 /\ x_eof' = FALSE
      /\ x_frame' = DEFFRAME /\ pd = "ready"
      /\ UNCHANGED <<x_fifosize, x_buf, p_frame, pd, failed>>
    BY DEF readsf_open, pdVars
<1>2. Multiple(0, Vector) /\ Multiple(0, DEFFRAME) /\ Vector >= 2 /\ 0 < MaxPlayed
  <2>1. f.bytes \in Nat /\ f.bytes < MaxPlayed /\ MaxPlayed \in Nat
    BY FileFacts, ReadsfAssumption
  <2>2. Multiple(0, DEFFRAME)
    BY ReadsfAssumption DEF Multiple
  <2> QED BY <2>1, <2>2, VectorFacts
<1>3. x_fifosize \in Nat
    BY FifoTypes
<1>4. Formats' /\ Performs'
    BY <1>1 DEF PInv, Formats, Performs
<1>5. Indices'
    BY <1>1, <1>2, <1>3 DEF PInv, Indices
<1>6. Progress' /\ Fresh'
    BY <1>1 DEF Progress, Fresh, Serving
<1>7. Content'
  <2>1. Filled' = 0 /\ Holds(0, 0, 0)'
    BY <1>1 DEF Filled, Holds
  <2> QED BY <1>1, <1>2, <2>1 DEF Content, Serving
<1> QED BY <1>4, <1>5, <1>6, <1>7 DEF PInv

\* The end of the stream: nothing is claimed of the buffer any more.
LEMMA EndStep ==
    ASSUME PInv, NEW frame \in {p_frame, x_frame}, PerformEnd(frame)
    PROVE  PInv'
<1>1. /\ x_state' = "IDLE" /\ pd' = "ready"
      /\ UNCHANGED <<x_fifosize, x_fifotail, x_fifohead, x_eof, opens, x_filename, x_frame,
                     p_frame, x_requestcode, child, c_file, c_open, c_want, pos, x_bytelimit>>
    BY DEF PerformEnd, fifoVars, fileVars, childVars
<1>2. Formats' /\ Performs' /\ Indices' /\ Fresh' /\ Content'
    BY <1>1 DEF PInv, Formats, Performs, Indices, Fresh, Content
<1>3. Progress'
    BY <1>1 DEF PInv, Progress, Serving, Feeding
<1> QED BY <1>2, <1>3 DEF PInv

\* The file is open, or not.
LEMMA OpenedStep ==
    ASSUME OneFormat, IInv, PInv, ChildOpened
    PROVE  PInv'
<1>1. /\ UNCHANGED <<x_state, x_filename, x_fifotail, opens, next, pd, p_frame, x_requestcode, x_buf,
                     c_file, c_open, c_want>>
      /\ child = "open"
    BY DEF ChildOpened, pdUnchanged, pdVars
<1>2. c_file \in Files /\ c_file.frame = DEFFRAME /\ c_file.limit \in Nat
    BY <1>1, FileFacts DEF IInv, Named, Feeding, OneFormat
<1>3. CASE x_eof' = TRUE /\ failed' = TRUE /\ x_frame' = DEFFRAME /\ child' = "lost"
           /\ UNCHANGED <<x_fifosize, x_fifohead>>
  <2>1. Formats' /\ Performs' /\ Indices'
    BY <1>1, <1>3 DEF PInv, Formats, Performs, Indices
  <2>2. Progress' /\ Fresh'
    BY <1>1, <1>3 DEF PInv, Progress, Fresh, Serving, Feeding
  <2>3. Content'
    <3> SUFFICES ASSUME x_state' # "IDLE", ~HeadPassed', ~OneShort' PROVE Content'
        BY DEF Content
    <3>1. x_state # "IDLE" /\ ~HeadPassed /\ ~OneShort /\ Filled' = Filled
        BY <1>1, <1>3 DEF PInv, Formats, HeadPassed, OneShort, Filled
    <3>2. (IF x_fifotail <= x_fifohead THEN Holds(x_fifotail, x_fifohead, next)
           ELSE /\ Holds(x_fifotail, x_fifosize, next)
                /\ Holds(0, x_fifohead, next + (x_fifosize - x_fifotail)))'
        BY <1>1, <1>3, <3>1 DEF PInv, Content, Holds
    <3>3. (next + Filled < MaxPlayed)' /\ Multiple(next, DEFFRAME)'
        BY <1>1, <3>1 DEF PInv, Content
    <3> QED BY <1>3, <3>2, <3>3 DEF Content, Serving, Feeding
  <2> QED BY <2>1, <2>2, <2>3 DEF PInv
<1>4. CASE x_requestcode # "BUSY" /\ x_frame' = c_file.frame /\ child' = "lost"
           /\ UNCHANGED <<x_fifosize, x_fifohead, x_eof, failed>>
  <2>1. Quiet
    BY <1>1, <1>2, <1>4 DEF Quiet, dataVars, Serving, Feeding, PInv, Formats, Performs
  <2> QED BY <2>1, QuietStep
<1>5. CASE x_requestcode = "BUSY" /\ x_frame' = c_file.frame /\ child' = "feed"
           /\ x_bytelimit' = c_file.limit /\ pos' = 0 /\ x_fifohead' = 0
           /\ x_fifosize' = BUFSIZE - (BUFSIZE % (c_file.frame * VEC))
           /\ UNCHANGED <<x_eof, failed>>
  <2>1. x_fifosize' = FullSize /\ FullSize \in Nat /\ Serving
    BY <1>1, <1>2, <1>5, VectorFacts DEF FullSize, Vector, Serving
  <2>2. Formats' /\ Performs'
    BY <1>1, <1>2, <1>5 DEF PInv, Formats, Performs
  <2>3. Indices'
    <3>1. x_fifotail < FullSize \/ x_fifotail = 0
      <4>1. x_fifotail \in Nat
        BY FifoTypes
      <4> QED BY <2>1, <4>1 DEF PInv, Indices
    <3> QED BY <1>1, <1>5, <2>1, <3>1 DEF PInv, Indices
  <2>4. Progress'
    <3>1. Multiple(0, READSIZE)
        BY ReadsfAssumption DEF Multiple
    <3> QED BY <1>1, <1>2, <1>5, <2>1, <3>1 DEF PInv, Progress, Serving, Feeding
  <2>5. Fresh'
    BY <1>1, <1>5 DEF Fresh, Serving
  <2>6. Content'
    <3> SUFFICES ASSUME x_state' # "IDLE" PROVE Content'
        BY DEF Content
    <3>1. x_fifotail = 0 /\ next = 0 /\ (x_eof => failed)
        BY <1>1, <2>1 DEF PInv, Fresh
    <3>2. Filled' = 0 /\ Holds(0, 0, 0)'
        BY <1>1, <1>5, <3>1 DEF Filled, Holds
    <3>3. Multiple(0, DEFFRAME) /\ 0 < MaxPlayed
      <4>1. c_file.bytes \in Nat /\ c_file.bytes < MaxPlayed /\ MaxPlayed \in Nat
        BY <1>2, FileFacts, ReadsfAssumption
      <4>2. Multiple(0, DEFFRAME)
        BY ReadsfAssumption DEF Multiple
      <4> QED BY <4>1, <4>2
    <3> QED BY <1>1, <1>5, <3>1, <3>2, <3>3 DEF Content, Serving, Feeding
  <2> QED BY <2>2, <2>3, <2>4, <2>5, <2>6 DEF PInv
<1> QED BY <1>3, <1>4, <1>5 DEF ChildOpened, sigVars

\* Where the child reads to: inside the buffer, short of the tail.
LEMMA WantedFacts ==
    ASSUME OneFormat, IInv, PInv, Wanted > 0
    PROVE  /\ Wanted \in {READSIZE, x_fifosize - x_fifohead}
           /\ x_fifohead < x_fifosize /\ x_fifohead + Wanted <= x_fifosize
           /\ x_fifotail > x_fifohead => x_fifohead + Wanted < x_fifotail
           /\ x_fifotail <= x_fifohead => x_fifotail # 0 \/ x_fifohead + Wanted < x_fifosize
<1>1. /\ x_fifosize \in Nat /\ x_fifohead \in Nat /\ x_fifotail \in Nat
      /\ READSIZE \in Nat /\ READSIZE >= 1
    BY FifoTypes
<1>2. x_fifotail < x_fifosize \/ x_fifotail = 0
    BY DEF PInv, Indices
<1> QED BY <1>1, <1>2 DEF Wanted, AtMost

\* read() is called: the places it may write to are none of those still to be played.
LEMMA ReadStep ==
    ASSUME OneFormat, IInv, PInv, ChildRead
    PROVE  PInv'
<1> DEFINE T == x_fifotail
           H == x_fifohead
           S == x_fifosize
<1>1. /\ UNCHANGED <<x_state, x_filename, x_fifotail, opens, next, pd, p_frame, x_requestcode, x_eof,
                     x_frame, pos, x_bytelimit, x_fifosize, x_fifohead, c_file, c_open, failed>>
      /\ child = "feed" /\ child' = "read" /\ x_requestcode = "BUSY" /\ ~x_eof
      /\ Wanted > 0 /\ c_want' = AtMost(Wanted, x_bytelimit)
    BY DEF ChildRead, pdUnchanged, pdVars, fileVars
<1>2. x_buf' = [i \in DOMAIN x_buf |-> IF i \in H .. H + c_want' - 1 THEN Garbage ELSE x_buf[i]]
    BY DEF ChildRead
<1>3. /\ S \in Nat /\ H \in Nat /\ T \in Nat /\ x_bytelimit \in Nat /\ H <= S /\ S <= BUFSIZE
      /\ BUFSIZE \in Nat /\ READSIZE \in Nat /\ DOMAIN x_buf = 0 .. BUFSIZE - 1
    BY FifoTypes
<1>4. PICK h \in Nat, s \in Nat, t \in Nat, w \in Nat :
         /\ h = H /\ s = S /\ t = T /\ w = Wanted
         /\ h < s /\ h + w <= s
         /\ t > h => h + w < t
         /\ t <= h => t # 0 \/ h + w < s
  <2>1. Wanted \in {READSIZE, S - H} /\ H < S
    BY <1>1, WantedFacts
  <2>2. Wanted \in Nat
    BY <1>3, <2>1
  <2> QED BY <1>1, <1>3, <2>2, WantedFacts
<1>5. PICK n \in Nat : n = c_want' /\ n <= w /\ n \in {x_bytelimit, READSIZE, S - H}
  <2>1. Wanted \in {READSIZE, S - H}
    BY <1>1, WantedFacts
  <2> QED BY <1>1, <1>3, <1>4, <2>1 DEF AtMost
<1>v. /\ h + n <= s
      /\ t > h => h + n < t
      /\ t <= h => t # 0 \/ h + n < s
  <2>1. n <= w /\ h < s /\ h + w <= s /\ (t > h => h + w < t) /\ (t <= h => t # 0 \/ h + w < s)
    BY <1>4, <1>5
  <2> QED BY <2>1
<1>w. /\ H + n <= S
      /\ T > H => H + n < T
      /\ T <= H => T # 0 \/ H + n < S
    BY <1>4, <1>v
<1>6. Serving /\ Feeding
    BY <1>1 DEF Serving, Feeding
<1>7. Formats' /\ Performs' /\ Indices'
    BY <1>1 DEF PInv, Formats, Performs, Indices
<1>8. Progress'
  <2>1. /\ x_state # "IDLE" => x_filename \in Files
        /\ c_open = opens /\ c_file = x_filename /\ x_fifosize = FullSize
        /\ pos <= c_file.limit /\ x_bytelimit = c_file.limit - pos
        /\ Multiple(x_fifohead, READSIZE) \/ pos = c_file.bytes
    BY <1>1, <1>6 DEF PInv, Progress
  <2> QED BY <1>1, <1>4, <1>5, <1>w, <2>1 DEF Progress
<1>9. Fresh'
    BY <1>1 DEF PInv, Fresh, Serving
<1>10. Content'
  <2> SUFFICES ASSUME x_state' # "IDLE", ~HeadPassed', ~OneShort' PROVE Content'
    BY DEF Content
  <2>1. x_state # "IDLE" /\ ~HeadPassed /\ ~OneShort /\ Filled' = Filled
    BY <1>1 DEF HeadPassed, OneShort, Filled
  <2>2. ASSUME NEW i \in 0 .. S - 1, i < H \/ (T > H /\ i >= T) PROVE x_buf'[i] = x_buf[i]
    <3>1. i \in DOMAIN x_buf
        BY <1>3
    <3>2. ~(i \in H .. H + n - 1)
      <4>1. i \in Int /\ (i < h \/ (t > h /\ i >= t))
        BY <1>3, <1>4, <2>2
      <4>2. ~(h <= i /\ i <= h + n - 1)
        BY <1>v, <4>1
      <4> QED BY <1>4, <4>1, <4>2
    <3> QED BY <1>2, <1>5, <3>1, <3>2
  <2>3. IF T <= H THEN Holds(T, H, next) ELSE Holds(T, S, next) /\ Holds(0, H, next + (S - T))
    BY <2>1 DEF PInv, Content
  <2>4. IF T <= H THEN Holds(T, H, next)' ELSE Holds(T, S, next)' /\ Holds(0, H, next + (S - T))'
    <3>1. CASE T <= H
      <4>1. \A i \in T .. H - 1 : x_buf[i] = <<opens, next + (i - T)>>
        BY <2>3, <3>1 DEF Holds
      <4>2. \A i \in T .. H - 1 : x_buf'[i] = x_buf[i]
        BY <1>3, <2>2, <3>1
      <4> QED BY <1>1, <3>1, <4>1, <4>2 DEF Holds
    <3>2. CASE ~(T <= H)
      <4>1. /\ \A i \in T .. S - 1 : x_buf[i] = <<opens, next + (i - T)>>
            /\ \A i \in 0 .. H - 1 : x_buf[i] = <<opens, next + (S - T) + (i - 0)>>
        BY <2>3, <3>2 DEF Holds
      <4>2. /\ \A i \in T .. S - 1 : x_buf'[i] = x_buf[i]
            /\ \A i \in 0 .. H - 1 : x_buf'[i] = x_buf[i]
        BY <1>3, <2>2, <3>2
      <4> QED BY <1>1, <3>2, <4>1, <4>2 DEF Holds
    <3> QED BY <3>1, <3>2
  <2>5. /\ next + Filled < MaxPlayed /\ Multiple(next, DEFFRAME) /\ pos = next + Filled
        /\ x_eof /\ ~failed => next + Filled = AtMost(x_filename.bytes, x_filename.limit)
    BY <1>6, <2>1 DEF PInv, Content
  <2> QED BY <1>1, <1>5, <1>w, <2>1, <2>4, <2>5 DEF Content
<1> QED BY <1>7, <1>8, <1>9, <1>10 DEF PInv

\* The rest of a run of bytes continues it.
LEMMA HoldsRest ==
    ASSUME NEW lo \in Nat, NEW hi \in Nat, NEW n \in Nat, NEW v \in Nat, Holds(lo, hi, n)
    PROVE  Holds(lo + v, hi, n + v)
<1> SUFFICES ASSUME NEW i \in lo + v .. hi - 1 PROVE x_buf[i] = <<opens, n + v + (i - (lo + v))>>
    BY DEF Holds
<1>1. i \in lo .. hi - 1 /\ n + v + (i - (lo + v)) = n + (i - lo)
    OBVIOUS
<1> QED BY <1>1 DEF Holds

\* A vector of frames is a whole number of frames.
LEMMA FramesOfVector ==
    ASSUME OneFormat, NEW n \in Nat, Multiple(n, DEFFRAME)
    PROVE  Multiple(n + Vector, DEFFRAME)
<1>1. PICK d \in Nat, c \in Nat : d = DEFFRAME /\ c = VEC
    BY ReadsfAssumption
<1>2. PICK q \in Nat : n = q * d
    BY <1>1 DEF Multiple
<1>3. q * d + d * c = (q + c) * d /\ q + c \in Nat
    BY SMT
<1> QED BY <1>1, <1>2, <1>3 DEF Multiple, Vector

\* A vector is played: all of it is in the buffer, short of the head or of the end.
LEMMA PlayFacts ==
    ASSUME OneFormat, IInv, PInv, NEW frame \in {p_frame, x_frame}, PerformPlay(frame),
           ~HeadPassed, ~OneShort
    PROVE  \E t \in Nat, h \in Nat, s \in Nat, n \in Nat, v \in Nat :
             /\ t = x_fifotail /\ h = x_fifohead /\ s = x_fifosize /\ n = next /\ v = Vector
             /\ v >= 2 /\ next' = n + v
             /\ \/ /\ t + v <= h /\ h < s /\ x_fifotail' = t + v
                   /\ Holds(t, h, n)
                \/ /\ t > h /\ t + v <= s
                   /\ x_fifotail' = IF t + v >= s THEN 0 ELSE t + v
                   /\ Holds(t, s, n) /\ Holds(0, h, n + (s - t))
<1>1. PICK t \in Nat, h \in Nat, s \in Nat, n \in Nat, v \in Nat, m \in Nat :
         /\ t = x_fifotail /\ h = x_fifohead /\ s = x_fifosize /\ n = next /\ v = Vector
         /\ m = MaxPlayed
    BY FifoTypes, VectorFacts
<1>2. v >= 2 /\ h <= s /\ v \in Nat \ {0}
    BY <1>1, VectorFacts, FifoTypes
<1>3. frame = DEFFRAME /\ x_frame = DEFFRAME /\ x_state = "STREAM"
    BY DEF PInv, Formats, Performs, PerformPlay, Performing
<1>4. /\ ~(h >= t /\ h < t + v - 1)
      /\ next' = AtMost(n + v, m)
      /\ x_fifotail' = IF t + v >= s THEN 0 ELSE t + v
    BY <1>1, <1>3 DEF PerformPlay, TooFew, Vector
<1>5. /\ IF t <= h THEN Holds(t, h, n) ELSE Holds(t, s, n) /\ Holds(0, h, n + (s - t))
      /\ n + Filled < m
      /\ Filled = IF t <= h THEN h - t ELSE s - t + h
    BY <1>1, <1>3 DEF PInv, Content, Filled
<1>6. Multiple(t, v) /\ Multiple(s, v) /\ (t < s \/ t = 0) /\ (h < s \/ h = 0)
  <2>1. Multiple(s, v)
    BY <1>1, VectorFacts DEF PInv, Indices
  <2>2. Multiple(t, v) /\ (t < s \/ t = 0)
    BY <1>1 DEF PInv, Indices
  <2>3. h < s \/ (h = s /\ s = 0)
    <3>1. h < s \/ (h = s /\ (x_eof \/ s = 0))
        BY <1>1 DEF PInv, Indices
    <3>2. ~(x_eof /\ h = s)
        BY <1>1 DEF HeadPassed
    <3>3. CASE h = s /\ (x_eof \/ s = 0)
        BY <3>2, <3>3, Zenon
    <3> QED BY <3>1, <3>3, Zenon
  <2> QED BY <2>1, <2>2, <2>3
<1>7. CASE t <= h
  <2>1. h # t + v - 1
    <3>1. h = t + v - 1 => h % v = v - 1
      <4>1. v - 1 \in 0 .. v - 1 /\ t + (v - 1) = t + v - 1
        BY <1>2
      <4>2. (t + (v - 1)) % v = v - 1
        BY <1>2, <1>6, <4>1, Remainder
      <4> QED BY <4>1, <4>2
    <3>2. h % v # v - 1
        BY <1>1, <1>3 DEF OneShort, Vector
    <3> QED BY <3>1, <3>2
  <2>2. t + v <= h
    BY <1>2, <1>4, <1>7, <2>1
  <2>3. h < s /\ n + v < m
    <3>1. n + (h - t) < m
        BY <1>5, <1>7
    <3>2. h < s
        BY <1>2, <1>6, <2>2
    <3> QED BY <2>2, <3>1, <3>2
  <2>4. next' = n + v /\ x_fifotail' = t + v
    BY <1>4, <2>2, <2>3 DEF AtMost
  <2> QED BY <1>1, <1>2, <1>5, <1>7, <2>2, <2>3, <2>4
<1>8. CASE ~(t <= h)
  <2>1. t > h /\ t < s
    BY <1>6, <1>8
  <2>2. t + v <= s
    BY <1>2, <1>6, <2>1, MultipleStep
  <2>3. n + v < m
    <3>1. n + (s - t + h) < m
        BY <1>5, <1>8
    <3> QED BY <2>2, <3>1
  <2>4. next' = n + v
    BY <1>4, <2>3 DEF AtMost
  <2> QED BY <1>1, <1>2, <1>4, <1>5, <1>8, <2>1, <2>2, <2>4
<1> QED BY <1>7, <1>8

\* Playing a vector takes it from the front of what is still to be played.
LEMMA PlayStep ==
    ASSUME OneFormat, IInv, PInv, NEW frame \in {p_frame, x_frame}, PerformPlay(frame)
    PROVE  PInv'
<1>1. /\ UNCHANGED <<x_state, x_requestcode, x_filename, x_eof, x_frame, pos, x_bytelimit, x_buf,
                     x_fifosize, x_fifohead, p_frame, child, c_file, c_open, c_want, opens, failed>>
      /\ pd' = "ready"
    BY DEF PerformPlay, fileVars, childVars
<1>2. frame = DEFFRAME /\ x_state = "STREAM"
    BY DEF PInv, Formats, Performs, PerformPlay, Performing
<1>3. Formats' /\ Performs'
    BY <1>1 DEF PInv, Formats, Performs
<1>4. Progress'
    BY <1>1 DEF PInv, Progress, Serving, Feeding
<1>5. Indices'
  <2>1. PICK t \in Nat, s \in Nat, v \in Nat : t = x_fifotail /\ s = x_fifosize /\ v = Vector
    BY FifoTypes, VectorFacts
  <2>2. x_fifotail' = IF t + v >= s THEN 0 ELSE t + v
    BY <1>2, <2>1 DEF PerformPlay, Vector
  <2>3. Multiple(0, v) /\ Multiple(t + v, v)
    BY <2>1, VectorFacts, MultipleNext DEF PInv, Indices
  <2>4. Multiple(x_fifotail', Vector) /\ (x_fifotail' < s \/ x_fifotail' = 0)
    BY <2>1, <2>2, <2>3
  <2> QED BY <1>1, <2>1, <2>4 DEF PInv, Indices
<1>6. Fresh'
  <2> SUFFICES ASSUME x_requestcode = "OPEN" \/ (Serving /\ child = "open") PROVE FALSE
    BY <1>1 DEF Fresh, Serving, Feeding
  <2>1. x_fifohead = 0 /\ x_fifotail = 0
    BY <1>2 DEF PInv, Fresh
  <2>2. ~(0 < 0 + Vector - 1)
    BY <1>2, <2>1 DEF PerformPlay, TooFew, Vector
  <2> QED BY <2>2, VectorFacts
<1>7. Content'
  <2> SUFFICES ASSUME ~HeadPassed', ~OneShort' PROVE Content'
    BY DEF Content
  <2>1. ~HeadPassed /\ ~OneShort
    BY <1>1 DEF HeadPassed, OneShort
  <2>2. PICK t \in Nat, h \in Nat, s \in Nat, n \in Nat, v \in Nat :
             /\ t = x_fifotail /\ h = x_fifohead /\ s = x_fifosize /\ n = next /\ v = Vector
             /\ v >= 2 /\ next' = n + v
             /\ \/ /\ t + v <= h /\ h < s /\ x_fifotail' = t + v
                   /\ Holds(t, h, n)
                \/ /\ t > h /\ t + v <= s
                   /\ x_fifotail' = IF t + v >= s THEN 0 ELSE t + v
                   /\ Holds(t, s, n) /\ Holds(0, h, n + (s - t))
    BY <2>1, PlayFacts
  <2>3. PICK t1 \in Nat : /\ t1 = x_fifotail'
                          /\ \/ t1 = t + v /\ ((t + v <= h /\ h < s) \/ (t > h /\ t + v < s))
                             \/ t1 = 0 /\ t > h /\ t + v = s
    BY <2>2
  <2>4. next + Filled = (next + Filled)'
    <3>1. next + Filled = IF t <= h THEN n + (h - t) ELSE n + (s - t + h)
        BY <2>2 DEF Filled
    <3>2. (next + Filled)' = IF t1 <= h THEN n + v + (h - t1) ELSE n + v + (s - t1 + h)
        BY <1>1, <2>2, <2>3 DEF Filled
    <3>3. CASE t1 = t + v /\ t + v <= h
        BY <3>1, <3>2, <3>3
    <3>4. CASE t1 = t + v /\ t > h
        BY <3>1, <3>2, <3>4
    <3>5. CASE t1 = 0 /\ t > h /\ t + v = s
        BY <3>1, <3>2, <3>5
    <3> QED BY <2>3, <3>3, <3>4, <3>5
  <2>5. IF t1 <= h THEN Holds(t1, h, n + v)
        ELSE Holds(t1, s, n + v) /\ Holds(0, h, n + v + (s - t1))
    <3>1. CASE t1 = t + v /\ t + v <= h
      <4>1. Holds(t, h, n)
        BY <2>2, <3>1
      <4> QED BY <3>1, <4>1, HoldsRest
    <3>2. CASE t1 = t + v /\ t > h
      <4>1. Holds(t, s, n) /\ Holds(0, h, n + (s - t))
        BY <2>2, <3>2
      <4>2. ~(t1 <= h) /\ n + v + (s - t1) = n + (s - t)
        BY <3>2
      <4> QED BY <3>2, <4>1, <4>2, HoldsRest
    <3>3. CASE t1 = 0 /\ t > h /\ t + v = s
      <4>1. Holds(0, h, n + (s - t))
        BY <2>2, <3>3
      <4>2. t1 <= h /\ n + (s - t) = n + v
        BY <3>3
      <4> QED BY <3>3, <4>1, <4>2
    <3> QED BY <2>3, <3>1, <3>2, <3>3
  <2>6. (IF x_fifotail <= x_fifohead THEN Holds(x_fifotail, x_fifohead, next)
         ELSE /\ Holds(x_fifotail, x_fifosize, next)
              /\ Holds(0, x_fifohead, next + (x_fifosize - x_fifotail)))'
    <3>1. /\ x_fifotail' = t1 /\ x_fifohead' = h /\ x_fifosize' = s /\ next' = n + v
          /\ x_buf' = x_buf /\ opens' = opens
        BY <1>1, <2>2, <2>3
    <3> QED BY <2>5, <3>1 DEF Holds
  <2>7. /\ next + Filled < MaxPlayed /\ Multiple(next, DEFFRAME)
        /\ Serving /\ Feeding => pos = next + Filled
        /\ x_eof /\ ~failed => next + Filled = AtMost(x_filename.bytes, x_filename.limit)
    BY <1>2, <2>1 DEF PInv, Content
  <2>8. Multiple(next, DEFFRAME)'
    BY <2>2, <2>7, FramesOfVector DEF Multiple
  <2>9. ASSUME Serving, child = "read"
        PROVE  /\ t1 > h => h + c_want < t1
               /\ t1 <= h => t1 # 0 \/ h + c_want < s
    <3>1. /\ t > h => h + c_want < t
          /\ t <= h => t # 0 \/ h + c_want < s
        BY <1>2, <2>1, <2>2, <2>9 DEF PInv, Content
    <3>2. PICK w \in Nat : w = c_want
        BY FifoTypes
    <3>3. /\ t > h => h + w < t
          /\ t <= h => t # 0 \/ h + w < s
        BY <3>1, <3>2
    <3>4. /\ t1 > h => h + w < t1
          /\ t1 <= h => t1 # 0 \/ h + w < s
        BY <2>2, <2>3, <3>3
    <3> QED BY <3>2, <3>4
  <2>10. UNCHANGED <<Serving, Feeding>>
    BY <1>1 DEF Serving, Feeding
  <2>11. (Serving /\ child = "read" =>
            /\ x_fifotail > x_fifohead => x_fifohead + c_want < x_fifotail
            /\ x_fifotail <= x_fifohead => x_fifotail # 0 \/ x_fifohead + c_want < x_fifosize)'
    BY <1>1, <2>2, <2>3, <2>9, <2>10
  <2>12. /\ (next + Filled < MaxPlayed)'
         /\ (Serving /\ Feeding => pos = next + Filled)'
         /\ (x_eof /\ ~failed => next + Filled = AtMost(x_filename.bytes, x_filename.limit))'
    BY <1>1, <2>4, <2>7, <2>10
  <2> QED BY <2>6, <2>8, <2>11, <2>12 DEF Content
<1> QED BY <1>3, <1>4, <1>5, <1>6, <1>7 DEF PInv

\* n bytes of the file, from the p-th on, are stored at the place h.
StoredAt(h, n, p) ==
    x_buf' = [i \in DOMAIN x_buf |-> IF i \in h .. h + n - 1 THEN <<opens, p + i - h>> ELSE x_buf[i]]

\* What a run of bytes is, after a step.
LEMMA HoldsThen ==
    ASSUME NEW lo \in Nat, NEW hi \in Nat, NEW k \in Nat,
           \A i \in lo .. hi - 1 : x_buf'[i] = <<opens', k + (i - lo)>>
    PROVE  Holds(lo, hi, k)'
    BY DEF Holds

\* Bytes that are stored behind a run of bytes, and continue it, lengthen it.
LEMMA Lengthened ==
    ASSUME NEW lo \in Nat, NEW h \in Nat, NEW n \in Nat, NEW k \in Nat, NEW p \in Nat,
           NEW b \in Nat, DOMAIN x_buf = 0 .. b - 1, h + n <= b, lo <= h, p = k + (h - lo),
           Holds(lo, h, k), StoredAt(h, n, p), opens' = opens
    PROVE  Holds(lo, h + n, k)'
<1>1. PICK hi \in Nat : hi = h + n
    OBVIOUS
<1> SUFFICES ASSUME NEW i \in lo .. hi - 1 PROVE x_buf'[i] = <<opens', k + (i - lo)>>
  <2>1. Holds(lo, hi, k)'
    BY HoldsThen
  <2> QED BY <1>1, <2>1
<1>2. i \in 0 .. b - 1
    BY <1>1
<1>3. x_buf'[i] = IF i \in h .. h + n - 1 THEN <<opens, p + i - h>> ELSE x_buf[i]
    BY <1>2 DEF StoredAt
<1>4. CASE i \in h .. h + n - 1
  <2>1. p + i - h = k + (i - lo)
    OBVIOUS
  <2> QED BY <1>3, <1>4, <2>1
<1>5. CASE ~(i \in h .. h + n - 1)
  <2>1. i \in lo .. h - 1
    BY <1>1, <1>5
  <2> QED BY <1>3, <1>5, <2>1 DEF Holds
<1> QED BY <1>4, <1>5

\* A run of bytes beyond those that are stored is left alone.
LEMMA LeftAlone ==
    ASSUME NEW lo \in Nat, NEW hi \in Nat, NEW h \in Nat, NEW n \in Nat, NEW k \in Nat, NEW p \in Nat,
           NEW b \in Nat, DOMAIN x_buf = 0 .. b - 1, hi <= b, h + n <= lo,
           Holds(lo, hi, k), StoredAt(h, n, p), opens' = opens
    PROVE  Holds(lo, hi, k)'
<1> SUFFICES ASSUME NEW i \in lo .. hi - 1 PROVE x_buf'[i] = <<opens', k + (i - lo)>>
    BY HoldsThen
<1>1. i \in 0 .. b - 1 /\ ~(i \in h .. h + n - 1)
    OBVIOUS
<1>2. x_buf'[i] = x_buf[i]
    BY <1>1 DEF StoredAt
<1> QED BY <1>2 DEF Holds

\* Whole reads do not end one byte short of a vector.
LEMMA WholeReads ==
    ASSUME OneFormat, IInv, PInv, Multiple(x_fifohead, READSIZE)
    PROVE  ~OneShort
<1>1. PICK h \in Nat, r \in Nat, b \in Nat : /\ h = x_fifohead /\ r = READSIZE /\ b = BUFSIZE
                                             /\ h <= b /\ r >= 1
    BY FifoTypes
<1>2. PICK q \in Nat : h = q * r
    BY <1>1 DEF Multiple
<1>3. q <= q * r
  <2>1. \A a, c \in Nat : c >= 1 => a <= a * c
    BY SMT
  <2> QED BY <1>1, <2>1
<1>4. q \in 0 .. BUFSIZE
  <2>1. q \in 0 .. b
    BY <1>1, <1>2, <1>3
  <2> QED BY <1>1, <2>1
<1>5. (q * READSIZE) % (DEFFRAME * VEC) # DEFFRAME * VEC - 1
    BY <1>4 DEF OneFormat
<1>6. x_fifohead = q * READSIZE /\ x_frame = DEFFRAME
    BY <1>1, <1>2 DEF PInv, Formats
<1> QED BY <1>5, <1>6 DEF OneShort

\* read() has returned.
LEMMA GotStep ==
    ASSUME OneFormat, IInv, PInv, ChildGot
    PROVE  PInv'
<1>1. /\ UNCHANGED <<x_state, x_filename, x_fifotail, opens, next, pd, p_frame, x_requestcode,
                     x_frame, x_fifosize, c_file, c_open, c_want, failed>>
      /\ child = "read"
    BY DEF ChildGot, pdUnchanged, pdVars
<1>2. CASE x_requestcode # "BUSY"
  <2>1. Quiet
    BY <1>1, <1>2 DEF ChildGot, Quiet, dataVars, Serving, Feeding, PInv, Performs
  <2> QED BY <2>1, QuietStep
<1>3. CASE x_requestcode = "BUSY"
  <2>1. /\ Serving /\ Feeding /\ c_file \in Files /\ c_open = opens /\ c_file = x_filename
        /\ x_fifosize = FullSize /\ ~x_eof
        /\ Multiple(x_fifohead, READSIZE) \/ pos = c_file.bytes
    <3>1. Serving /\ Feeding /\ c_file \in Files
        BY <1>1, <1>3 DEF Serving, Feeding, IInv, Named
    <3> QED BY <1>1, <3>1 DEF PInv, Progress
  <2>a. PICK h \in Nat, s \in Nat, t \in Nat, p \in Nat, b \in Nat, l \in Nat, w \in Nat, r \in Nat,
             c \in Nat :
         /\ h = x_fifohead /\ s = x_fifosize /\ t = x_fifotail /\ p = pos /\ w = c_want
         /\ b = c_file.bytes /\ l = c_file.limit /\ r = READSIZE /\ c = BUFSIZE
         /\ r >= 1 /\ s <= c /\ DOMAIN x_buf = 0 .. c - 1
    BY <2>1, FifoTypes, FileFacts
  <2>b. /\ r >= 1 /\ p <= l /\ p <= b /\ w <= l - p /\ x_bytelimit = l - p
        /\ h < s /\ h + w <= s /\ (w = l - p \/ w = r \/ w = s - h)
    <3>1. pos <= c_file.bytes /\ c_want <= x_bytelimit
        BY <1>1, <2>1 DEF IInv, Position, Fifo
    <3>2. /\ pos <= c_file.limit /\ x_bytelimit = c_file.limit - pos
          /\ x_fifohead < x_fifosize /\ x_fifohead + c_want <= x_fifosize
          /\ c_want \in {x_bytelimit, READSIZE, x_fifosize - x_fifohead}
        BY <1>1, <2>1 DEF PInv, Progress
    <3> QED BY <2>a, <3>1, <3>2
  <2>c. PICK n \in Nat : n = AtMost(w, b - p)
    <3>1. AtMost(w, b - p) \in Nat
        BY <2>b DEF AtMost
    <3> QED BY <3>1
  <2>2. /\ n <= w /\ p + n <= b /\ p + n <= l /\ (n = w \/ n = b - p)
        /\ t < s \/ t = 0
    <3>1. n <= w /\ p + n <= b /\ p + n <= l /\ (n = w \/ n = b - p)
        BY <2>b, <2>c DEF AtMost
    <3> QED BY <2>a, <3>1 DEF PInv, Indices
  <2>3. /\ pos' = p + n
        /\ \/ /\ n = 0 /\ x_eof' = TRUE /\ child' = "lost" /\ UNCHANGED <<x_buf, x_fifohead>>
           \/ /\ n # 0 /\ Stored(n) /\ x_bytelimit' = l - p - n
              /\ \/ /\ x_bytelimit' <= 0 /\ x_eof' = TRUE /\ child' = "lost" /\ x_fifohead' = h + n
                 \/ /\ ~(x_bytelimit' <= 0) /\ child' = "feed" /\ x_eof' = x_eof
                    /\ x_fifohead' = IF h + n = s THEN 0 ELSE h + n
    BY <1>1, <1>3, <2>a, <2>b, <2>c, <2>2 DEF ChildGot
  <2>4. Formats' /\ Performs' /\ Fresh'
    BY <1>1, <1>3, <2>3 DEF PInv, Formats, Performs, Fresh, Serving
  <2>5. x_fifosize \in {0, FullSize} /\ Multiple(x_fifotail, Vector)
    BY DEF PInv, Indices
  <2>6. CASE n = 0
    <3>1. x_eof' = TRUE /\ child' = "lost" /\ UNCHANGED <<x_buf, x_fifohead>>
        BY <2>3, <2>6
    <3>2. Indices'
        BY <1>1, <2>a, <2>b, <2>c, <2>2, <3>1 DEF PInv, Indices
    <3>3. Progress'
        BY <1>1, <3>1 DEF PInv, Progress, Serving, Feeding
    <3>4. Content'
      <4> SUFFICES ASSUME x_state' # "IDLE", ~HeadPassed', ~OneShort' PROVE Content'
        BY DEF Content
      <4>1. x_state # "IDLE" /\ ~HeadPassed /\ ~OneShort /\ Filled' = Filled
        BY <1>1, <2>1, <3>1 DEF HeadPassed, OneShort, Filled
      <4>2. (IF x_fifotail <= x_fifohead THEN Holds(x_fifotail, x_fifohead, next)
             ELSE /\ Holds(x_fifotail, x_fifosize, next)
                  /\ Holds(0, x_fifohead, next + (x_fifosize - x_fifotail)))'
        BY <1>1, <3>1, <4>1 DEF PInv, Content, Holds
      <4>3. next + Filled < MaxPlayed /\ Multiple(next, DEFFRAME) /\ p = next + Filled
        BY <2>1, <2>a, <2>b, <2>c, <2>2, <4>1 DEF PInv, Content
      <4>4. p = AtMost(b, l)
        <5>1. p = b \/ p = l
            BY <2>b, <2>2, <2>6
        <5> QED BY <2>b, <5>1 DEF AtMost
      <4>5. (next + Filled = AtMost(x_filename.bytes, x_filename.limit))'
        BY <1>1, <2>1, <2>a, <2>b, <2>c, <2>2, <4>1, <4>3, <4>4
      <4>6. (next + Filled < MaxPlayed)' /\ Multiple(next, DEFFRAME)'
        BY <1>1, <4>1, <4>3
      <4> QED BY <3>1, <4>2, <4>5, <4>6 DEF Content, Serving, Feeding
    <3> QED BY <2>4, <3>2, <3>3, <3>4 DEF PInv
  <2>7. CASE n # 0
    <3>1. n >= 1 /\ w >= 1 /\ p < b
        BY <2>b, <2>2, <2>7
    <3>2. ~OneShort /\ ~HeadPassed /\ Multiple(h, r)
      <4>1. Multiple(x_fifohead, READSIZE)
        BY <2>1, <2>a, <2>b, <2>c, <2>2, <3>1
      <4> QED BY <2>1, <2>a, <2>b, <2>c, <2>2, <4>1, WholeReads DEF HeadPassed
    <3>3. StoredAt(h, n, p)
        BY <2>1, <2>a, <2>b, <2>c, <2>2, <2>3, <2>7 DEF Stored, StoredAt
    <3>a. PICK k \in Nat : k = next
        BY FifoTypes
    <3>b. ASSUME x_state # "IDLE"
          PROVE  /\ p = IF t <= h THEN k + (h - t) ELSE k + (s - t) + h
                 /\ t > h => t > h + n
                 /\ t <= h => t # 0 \/ h + n < s
                 /\ Multiple(next, DEFFRAME)
                 /\ IF t <= h THEN Holds(t, h + n, k)'
                    ELSE Holds(t, s, k)' /\ Holds(0, h + n, k + (s - t))'
      <4>1. Content /\ Filled = (IF t <= h THEN h - t ELSE s - t + h)
        BY <2>a DEF PInv, Filled
      <4>2. /\ IF t <= h THEN Holds(t, h, k) ELSE Holds(t, s, k) /\ Holds(0, h, k + (s - t))
            /\ p = k + Filled /\ Multiple(next, DEFFRAME)
            /\ t > h => h + w < t
            /\ t <= h => t # 0 \/ h + w < s
        BY <1>1, <2>1, <2>a, <3>2, <3>a, <3>b, <4>1 DEF Content
      <4>3. p = IF t <= h THEN k + (h - t) ELSE k + (s - t) + h
        BY <4>1, <4>2
      <4>4. (t > h => t > h + n) /\ (t <= h => t # 0 \/ h + n < s)
        <5>1. (t > h => h + w < t) /\ (t <= h => t # 0 \/ h + w < s) /\ n <= w
            BY <2>2, <4>2
        <5> QED BY <5>1
      <4>5. h + n <= c /\ s <= c /\ DOMAIN x_buf = 0 .. c - 1 /\ opens' = opens
        <5>1. h + n <= c
            BY <2>a, <2>b, <2>2
        <5> QED BY <1>1, <2>a, <5>1
      <4>6. CASE t <= h
        <5>1. Holds(t, h, k) /\ p = k + (h - t)
            BY <4>2, <4>3, <4>6
        <5>2. Holds(t, h + n, k)'
            BY <3>3, <4>5, <4>6, <5>1, Lengthened
        <5> QED BY <4>2, <4>3, <4>4, <4>6, <5>2
      <4>7. CASE ~(t <= h)
        <5>1. PICK k1 \in Nat : k1 = k + (s - t)
          <6>1. k + (s - t) \in Nat
            BY <2>2, <4>7
          <6> QED BY <6>1
        <5>2. Holds(t, s, k) /\ Holds(0, h, k1) /\ p = k1 + (h - 0) /\ h + n <= t
            BY <4>2, <4>3, <4>4, <4>7, <5>1
        <5>3. Holds(t, s, k)'
            BY <3>3, <4>5, <5>2, LeftAlone
        <5>4. Holds(0, h + n, k1)'
          <6>1. PICK lo \in Nat : lo = 0
            OBVIOUS
          <6>2. Holds(lo, h, k1) /\ lo <= h /\ p = k1 + (h - lo)
            BY <5>2, <6>1
          <6>3. Holds(lo, h + n, k1)'
            BY <3>3, <4>5, <6>2, Lengthened
          <6> QED BY <6>1, <6>3
        <5> QED BY <4>2, <4>3, <4>4, <4>7, <5>1, <5>3, <5>4
      <4> QED BY <4>6, <4>7
    <3>c. p + n < MaxPlayed
      <4>1. MaxPlayed \in Nat /\ b < MaxPlayed
        BY <2>1, <2>a, ReadsfAssumption
      <4> QED BY <2>2, <4>1
    <3>4. CASE ~(l - p - n <= 0)
      <4>1. /\ child' = "feed" /\ x_eof' = x_eof /\ x_bytelimit' = l - (p + n)
            /\ x_fifohead' = IF h + n = s THEN 0 ELSE h + n
        BY <2>a, <2>b, <2>c, <2>2, <2>3, <2>7, <3>4
      <4>2. Multiple(x_fifohead', READSIZE) \/ p + n = b
        <5>1. n = b - p \/ n = r \/ n = s - h
            BY <2>b, <2>2, <3>4
        <5>2. CASE n = b - p
            BY <2>2, <5>2
        <5>3. CASE h + n = s
          <6>1. Multiple(0, READSIZE)
            BY ReadsfAssumption DEF Multiple
          <6> QED BY <4>1, <5>3, <6>1
        <5>4. CASE n = r /\ h + n # s
          <6>1. Multiple(h + r, r)
            BY <3>2, MultipleNext
          <6> QED BY <2>a, <2>b, <2>c, <2>2, <4>1, <5>4, <6>1
        <5>5. n = s - h => h + n = s
            BY <2>a, <2>b, <2>2
        <5> QED BY <5>1, <5>2, <5>3, <5>4, <5>5
      <4>3. Indices'
        <5>1. x_fifohead' < s
          <6>1. h + n <= s
            BY <2>a, <2>b, <2>2
          <6> QED BY <2>a, <2>b, <2>c, <2>2, <4>1, <6>1
        <5> QED BY <1>1, <2>a, <2>b, <2>c, <2>2, <2>5, <5>1 DEF Indices
      <4>4. Progress'
        <5>1. /\ x_state' # "IDLE" => x_filename' \in Files
              /\ c_open' = opens' /\ c_file' = x_filename'
            BY <1>1, <2>1 DEF PInv, Progress
        <5>2. pos' <= c_file'.limit /\ x_bytelimit' = c_file'.limit - pos' /\ x_fifosize' = FullSize
            BY <1>1, <2>1, <2>a, <2>b, <2>c, <2>2, <2>3, <4>1
        <5>3. Multiple(x_fifohead', READSIZE) \/ pos' = c_file'.bytes
            BY <1>1, <2>a, <2>b, <2>c, <2>2, <2>3, <4>2
        <5> QED BY <4>1, <5>1, <5>2, <5>3 DEF Progress
      <4>5. Content'
        <5> SUFFICES ASSUME x_state' # "IDLE" PROVE Content'
            BY DEF Content
        <5>1. PICK h1 \in Nat : h1 = x_fifohead' /\ h1 = IF h + n = s THEN 0 ELSE h + n
            BY <4>1
        <5>2. /\ p = IF t <= h THEN k + (h - t) ELSE k + (s - t) + h
              /\ t > h => t > h + n
              /\ t <= h => t # 0 \/ h + n < s
              /\ Multiple(next, DEFFRAME)
              /\ IF t <= h THEN Holds(t, h + n, k)'
                 ELSE Holds(t, s, k)' /\ Holds(0, h + n, k + (s - t))'
            BY <1>1, <3>b
        <5>3. h + n = s => t <= h /\ t # 0
            BY <2>2, <5>2
        <5>4. IF t <= h1 THEN Holds(t, h1, k)' ELSE Holds(t, s, k)' /\ Holds(0, h1, k + (s - t))'
          <6>1. CASE h + n = s
            <7>1. h1 = 0 /\ ~(t <= h1) /\ Holds(t, s, k)'
                BY <5>1, <5>2, <5>3, <6>1
            <7>2. Holds(0, 0, k + (s - t))'
                BY DEF Holds
            <7> QED BY <7>1, <7>2
          <6>2. CASE h + n # s /\ t <= h
            <7>1. h1 = h + n /\ t <= h1
                BY <5>1, <6>2
            <7> QED BY <5>2, <6>2, <7>1
          <6>3. CASE h + n # s /\ ~(t <= h)
            <7>1. h1 = h + n /\ ~(t <= h1)
                BY <5>1, <5>2, <6>3
            <7> QED BY <5>2, <6>3, <7>1
          <6> QED BY <6>1, <6>2, <6>3
        <5>5. p + n = k + (IF t <= h1 THEN h1 - t ELSE s - t + h1)
          <6>1. CASE h + n = s
            <7>1. h1 = 0 /\ ~(t <= h1) /\ p = k + (h - t)
                BY <5>1, <5>2, <5>3, <6>1
            <7> QED BY <6>1, <7>1
          <6>2. CASE h + n # s /\ t <= h
            <7>1. h1 = h + n /\ t <= h1 /\ p = k + (h - t)
                BY <5>1, <5>2, <6>2
            <7> QED BY <7>1
          <6>3. CASE h + n # s /\ ~(t <= h)
            <7>1. h1 = h + n /\ ~(t <= h1) /\ p = k + (s - t) + h
                BY <5>1, <5>2, <6>3
            <7> QED BY <7>1
          <6> QED BY <6>1, <6>2, <6>3
        <5>6. /\ x_fifohead' = h1 /\ x_fifotail' = t /\ x_fifosize' = s /\ next' = k /\ pos' = p + n
              /\ ~x_eof' /\ child' = "feed"
            BY <1>1, <2>1, <2>a, <2>3, <3>a, <4>1, <5>1
        <5>7. (IF x_fifotail <= x_fifohead THEN Holds(x_fifotail, x_fifohead, next)
               ELSE /\ Holds(x_fifotail, x_fifosize, next)
                    /\ Holds(0, x_fifohead, next + (x_fifosize - x_fifotail)))'
            BY <5>4, <5>6 DEF Holds
        <5>8. pos' = (next + Filled)' /\ (next + Filled < MaxPlayed)'
            BY <3>c, <5>5, <5>6 DEF Filled
        <5>9. Multiple(next, DEFFRAME)'
            BY <1>1, <5>2
        <5> QED BY <5>6, <5>7, <5>8, <5>9 DEF Content
      <4> QED BY <2>4, <4>3, <4>4, <4>5 DEF PInv
    <3>5. CASE l - p - n <= 0
      <4>1. x_eof' = TRUE /\ child' = "lost" /\ x_fifohead' = h + n
        BY <2>3, <2>7, <3>5
      <4>2. Indices'
        <5>1. h + n < s \/ h + n = s
            BY <2>a, <2>b, <2>2
        <5> QED BY <1>1, <2>a, <2>b, <2>c, <2>2, <2>5, <4>1, <5>1 DEF Indices
      <4>3. Progress'
        BY <1>1, <4>1 DEF PInv, Progress, Serving, Feeding
      <4>4. Content'
        <5> SUFFICES ASSUME x_state' # "IDLE" PROVE Content'
            BY DEF Content
        <5>1. /\ p = IF t <= h THEN k + (h - t) ELSE k + (s - t) + h
              /\ t > h => t > h + n
              /\ Multiple(next, DEFFRAME)
              /\ IF t <= h THEN Holds(t, h + n, k)'
                 ELSE Holds(t, s, k)' /\ Holds(0, h + n, k + (s - t))'
            BY <1>1, <3>b
        <5>2. t <= h + n <=> t <= h
            BY <5>1
        <5>3. p + n = k + (IF t <= h + n THEN h + n - t ELSE s - t + (h + n))
            BY <5>1, <5>2
        <5>4. p + n = AtMost(b, l)
            BY <2>2, <3>5 DEF AtMost
        <5>5. /\ x_fifohead' = h + n /\ x_fifotail' = t /\ x_fifosize' = s /\ next' = k
              /\ x_filename'.bytes = b /\ x_filename'.limit = l
            BY <1>1, <2>1, <2>a, <3>a, <4>1
        <5>6. (IF x_fifotail <= x_fifohead THEN Holds(x_fifotail, x_fifohead, next)
               ELSE /\ Holds(x_fifotail, x_fifosize, next)
                    /\ Holds(0, x_fifohead, next + (x_fifosize - x_fifotail)))'
            BY <5>1, <5>2, <5>5 DEF Holds
        <5>7. /\ (next + Filled < MaxPlayed)'
              /\ (next + Filled = AtMost(x_filename.bytes, x_filename.limit))'
            BY <3>c, <5>3, <5>4, <5>5 DEF Filled
        <5>8. Multiple(next, DEFFRAME)'
            BY <1>1, <5>1
        <5> QED BY <4>1, <5>6, <5>7, <5>8 DEF Content, Serving, Feeding
      <4> QED BY <2>4, <4>2, <4>3, <4>4 DEF PInv
    <3> QED BY <2>4, <3>4, <3>5 DEF PInv
  <2> QED BY <2>6, <2>7
<1> QED BY <1>2, <1>3

\* An end of the file that was read, not one that was declared because there is no file,
\* needs a buffer.
EndRead == x_eof /\ ~failed => x_fifosize > 0

\* Before the first open message there is nothing to play.
LEMMA InitPInv == Init => PInv /\ EndRead
<1> SUFFICES ASSUME Init PROVE PInv /\ EndRead
    OBVIOUS
<1>1. Multiple(0, Vector)
  <2>1. Vector \in Nat
    BY ReadsfAssumption DEF Vector
  <2> QED BY <2>1 DEF Multiple
<1>2. Formats /\ Performs /\ Indices /\ EndRead
    BY <1>1 DEF Init, Formats, Performs, Indices, EndRead
<1>3. Progress /\ Fresh /\ Content
    BY DEF Init, Progress, Fresh, Content, Serving
<1> QED BY <1>2, <1>3 DEF PInv

\* Each step is one of those above.
LEMMA NextPInv ==
    ASSUME OneFormat, IInv, PInv, EndRead, [Next]_vars
    PROVE  PInv' /\ EndRead'
<1> USE DEF EndRead
<1>1. ASSUME Quiet PROVE PInv' /\ EndRead'
    BY <1>1, QuietStep DEF Quiet, dataVars
<1>2. ASSUME NEW f \in Files, readsf_open(f) PROVE PInv' /\ EndRead'
    BY <1>2, OpenStep DEF readsf_open
<1>3. ASSUME NEW frame \in {p_frame, x_frame}, PerformEnd(frame) PROVE PInv' /\ EndRead'
    BY <1>3, EndStep DEF PerformEnd, fifoVars
<1>4. ASSUME NEW frame \in {p_frame, x_frame}, PerformPlay(frame) PROVE PInv' /\ EndRead'
    BY <1>4, PlayStep DEF PerformPlay
<1>5. CASE ChildOpened
  <2>1. EndRead'
    <3>1. CASE failed'
        BY <3>1
    <3>2. CASE UNCHANGED <<x_eof, failed, x_fifosize>>
        BY <3>2
    <3>3. CASE x_fifosize' = BUFSIZE - (BUFSIZE % (c_file.frame * VEC)) /\ UNCHANGED <<x_eof, failed>>
      <4>1. c_file.frame = DEFFRAME
        BY <1>5 DEF ChildOpened, IInv, Named, OneFormat
      <4>2. x_fifosize' = FullSize /\ FullSize \in Nat
        BY <3>3, <4>1, VectorFacts DEF FullSize, Vector
      <4>3. x_fifosize > 0 => FullSize > 0
        BY <4>2 DEF PInv, Indices
      <4> QED BY <3>3, <4>2, <4>3
    <3> QED BY <1>5, <3>1, <3>2, <3>3 DEF ChildOpened
  <2> QED BY <1>5, <2>1, OpenedStep
<1>6. CASE ChildRead
    BY <1>6, ReadStep DEF ChildRead
<1>7. CASE ChildGot
  <2>1. EndRead'
    <3>1. CASE x_requestcode # "BUSY"
        BY <1>7, <3>1 DEF ChildGot
    <3>2. CASE x_requestcode = "BUSY"
      <4>1. x_fifohead < x_fifosize
        BY <1>7, <3>2 DEF ChildGot, PInv, Progress, Serving, Feeding
      <4> QED BY <1>7, <4>1, FifoTypes DEF ChildGot
    <3> QED BY <3>1, <3>2
  <2> QED BY <1>7, <2>1, GotStep
<1>8. CASE \/ readsf_start \/ readsf_stop \/ readsf_dsp \/ readsf_tick
           \/ readsf_free \/ FreeWait \/ FreeJoin \/ PerformEnter
           \/ \E frame \in {p_frame, x_frame} : PerformWait(frame)
           \/ SpuriousWakeup \/ UNCHANGED vars
  <2>1. Quiet
    BY <1>8, QuietPd
  <2> QED BY <1>1, <2>1
<1>9. CASE \/ ChildLock \/ ChildNothing \/ ChildOpen \/ ChildFeedWait \/ ChildFeedLock \/ ChildFed
           \/ ChildReadError \/ ChildLost \/ ChildClosedLost \/ ChildClose \/ ChildQuit
  <2>1. Quiet
    BY <1>9, QuietChild
  <2> QED BY <1>1, <2>1
<1> QED BY <1>2, <1>3, <1>4, <1>5, <1>6, <1>7, <1>8, <1>9 DEF Next, readsf_perform, readsf_child_main

\* For files of one format the buffer continues what was played throughout.
LEMMA Played ==
    ASSUME OneFormat
    PROVE  Spec => [](IInv /\ PInv /\ EndRead)
<1>1. Init => IInv /\ PInv /\ EndRead
    BY InitIInv, InitPInv
<1>2. IInv /\ PInv /\ EndRead /\ [Next]_vars => (IInv /\ PInv /\ EndRead)'
    BY NextIInv, NextPInv
<1> QED BY <1>1, <1>2, PTL DEF Spec

\* The last frames of the file: those that are complete, or lack a byte.
LEMMA LastFrames ==
    ASSUME NEW f \in Nat \ {0}, NEW a \in Nat
    PROVE  /\ f * (a \div f) \in Nat /\ f * (a \div f) <= a
           /\ f * (a \div f) = a => Multiple(a, f)
<1>1. PICK q \in Nat, r \in Nat : q = a \div f /\ a = f * q + r
    OBVIOUS
<1>2. f * q \in Nat /\ f * q = q * f
    OBVIOUS
<1>3. PICK m \in Nat : m = f * q /\ m = q * f /\ a = m + r
    BY <1>1, <1>2
<1>4. m <= a
    BY <1>3
<1>5. m = a => Multiple(a, f)
    BY <1>3 DEF Multiple
<1> QED BY <1>1, <1>3, <1>4, <1>5

\* Whole frames before them do not matter.
LEMMA FramesBefore ==
    ASSUME NEW f \in Nat \ {0}, NEW k \in Nat, NEW a \in Nat, Multiple(k, f)
    PROVE  f * ((k + a) \div f) = k + f * (a \div f)
<1>1. PICK q \in Nat : k = q * f
    BY DEF Multiple
<1>2. PICK d \in Nat, r \in Nat : d = a \div f /\ r < f /\ a = f * d + r
    OBVIOUS
<1>3. PICK e \in Nat, s \in Nat : e = (k + a) \div f /\ s < f /\ k + a = f * e + s
    OBVIOUS
<1>4. q * f + f * d = (q + d) * f /\ f * e = e * f
    BY SMT
<1>5. (q + d) * f + r = e * f + s
    BY <1>1, <1>2, <1>3, <1>4
<1>6. ~(q + d + 1 <= e)
  <2>1. q + d + 1 <= e => (q + d + 1) * f <= e * f
    BY ProductGrows
  <2>2. (q + d + 1) * f = (q + d) * f + f
    BY SMT
  <2> QED BY <1>2, <1>5, <2>1, <2>2
<1>7. ~(e + 1 <= q + d)
  <2>1. e + 1 <= q + d => (e + 1) * f <= (q + d) * f
    BY ProductGrows
  <2>2. (e + 1) * f = e * f + f
    BY SMT
  <2> QED BY <1>3, <1>5, <2>1, <2>2
<1>8. e = q + d
    BY <1>6, <1>7
<1>9. f * e = k + f * d
  <2>1. e * f = (q + d) * f
    BY <1>8
  <2> QED BY <1>1, <1>4, <2>1
<1> QED BY <1>2, <1>3, <1>9

\* At the end of the stream, all that is still to be played is before the head, less than
\* a vector of it: the tail has not passed the head.
LEMMA EndFacts ==
    ASSUME OneFormat, IInv, PInv, EndRead, NEW frame \in {p_frame, x_frame}, PerformEnd(frame),
           ~failed \/ (~HeadPassed /\ ~OneShort)
    PROVE  \E t \in Nat, h \in Nat, k \in Nat, f \in Nat, v \in Nat :
             /\ t = x_fifotail /\ h = x_fifohead /\ k = next /\ f = DEFFRAME /\ v = Vector
             /\ f >= 2 /\ t <= h /\ h < t + v - 1
             /\ Multiple(t, v) /\ Multiple(k, f) /\ k + (h - t) < MaxPlayed
             /\ Holds(t, h, k)
             /\ ~failed => k + (h - t) = AtMost(x_filename.bytes, x_filename.limit)
             /\ next' = AtMost(k + f * ((h - t + 1) \div f), MaxPlayed)
<1>1. PICK t \in Nat, h \in Nat, s \in Nat, k \in Nat, f \in Nat, v \in Nat :
         /\ t = x_fifotail /\ h = x_fifohead /\ s = x_fifosize /\ k = next
         /\ f = DEFFRAME /\ v = Vector /\ f >= 2 /\ v >= 2
    BY FifoTypes, VectorFacts
<1>2. frame = DEFFRAME /\ x_frame = DEFFRAME /\ x_state = "STREAM" /\ x_eof
    BY DEF PInv, Formats, Performs, PerformEnd, Performing
<1>3. /\ t <= h /\ h < t + v - 1
      /\ next' = AtMost(k + f * ((h - t + 1) \div f), MaxPlayed)
    BY <1>1, <1>2 DEF PerformEnd, TooFew, Vector
<1>4. Multiple(t, v) /\ Multiple(s, v) /\ (t < s \/ t = 0)
  <2>1. Multiple(s, v)
    BY <1>1, VectorFacts DEF PInv, Indices
  <2> QED BY <1>1, <2>1 DEF PInv, Indices
<1>5. ~OneShort
  <2>1. h - t \in 0 .. v - 1 /\ h - t # v - 1 /\ t + (h - t) = h /\ v \in Nat \ {0}
    BY <1>1, <1>3
  <2>2. h % v = h - t
    BY <1>4, <2>1, Remainder
  <2> QED BY <1>1, <1>2, <2>1, <2>2 DEF OneShort, Vector
<1>6. ~HeadPassed
  <2> SUFFICES ASSUME ~failed, h = s PROVE FALSE
    BY <1>1 DEF HeadPassed
  <2>1. s > 0
    BY <1>1, <1>2 DEF EndRead
  <2>2. t < s
    BY <1>4, <2>1
  <2>3. t + v <= s
    BY <1>1, <1>4, <2>2, MultipleStep
  <2> QED BY <1>3, <2>3
<1>7. Filled = h - t
    BY <1>1, <1>3 DEF Filled
<1>8. /\ Multiple(k, f) /\ k + (h - t) < MaxPlayed /\ Holds(t, h, k)
      /\ ~failed => k + (h - t) = AtMost(x_filename.bytes, x_filename.limit)
    BY <1>1, <1>2, <1>3, <1>5, <1>6, <1>7 DEF PInv, Content
<1> QED BY <1>1, <1>3, <1>4, <1>8

\* A whole number of vectors is a whole number of frames.
LEMMA FramesOfVectors ==
    ASSUME OneFormat, NEW t \in Nat, Multiple(t, Vector)
    PROVE  Multiple(t, DEFFRAME)
<1>1. PICK d \in Nat, c \in Nat : d = DEFFRAME /\ c = VEC
    BY ReadsfAssumption
<1>2. PICK q \in Nat : t = q * (d * c)
    BY <1>1 DEF Multiple, Vector
<1>3. q * (d * c) = (q * c) * d /\ q * c \in Nat
    BY SMT
<1> QED BY <1>1, <1>2, <1>3 DEF Multiple

-----------------------------------------------------------------------------
(* What is played: the theorems.                                           *)

\* The step of PlaysInOrder.
LEMMA InOrderStep ==
    ASSUME OneFormat, IInv, PInv, EndRead, [Next]_vars, opens' = opens, ~HeadPassed, ~OneShort,
           NEW j \in 0 .. next' - next - 1
    PROVE  \/ CutShort /\ x_fifotail + j = x_fifohead
           \/ /\ x_fifotail + j \in DOMAIN x_buf
              /\ x_buf[x_fifotail + j] = <<opens, next + j>>
<1>1. next' # next /\ DOMAIN x_buf = 0 .. BUFSIZE - 1 /\ BUFSIZE \in Nat /\ next \in Nat
  <2>1. next \in Nat
    BY FifoTypes
  <2>2. next' = next => next' - next - 1 = 0 - 1
    BY <2>1
  <2> QED BY <2>1, <2>2, FifoTypes
<1>2. ASSUME NEW lo \in Nat, NEW hi \in Nat, NEW k \in Nat, lo = x_fifotail, k = next,
             Holds(lo, hi, k), hi <= x_fifosize, lo + j < hi
      PROVE  /\ x_fifotail + j \in DOMAIN x_buf
             /\ x_buf[x_fifotail + j] = <<opens, next + j>>
  <2>1. lo + j \in lo .. hi - 1 /\ k + ((lo + j) - lo) = k + j
    BY <1>2
  <2>2. x_buf[lo + j] = <<opens, k + j>>
    BY <1>2, <2>1 DEF Holds
  <2>3. lo + j \in 0 .. BUFSIZE - 1
    <3>1. hi <= BUFSIZE
        BY <1>2, FifoTypes
    <3> QED BY <1>1, <2>1, <3>1
  <2> QED BY <1>1, <1>2, <2>2, <2>3
<1>3. ASSUME NEW frame \in {p_frame, x_frame}, PerformPlay(frame)
      PROVE  /\ x_fifotail + j \in DOMAIN x_buf
             /\ x_buf[x_fifotail + j] = <<opens, next + j>>
  <2>1. PICK t \in Nat, h \in Nat, s \in Nat, n \in Nat, v \in Nat :
             /\ t = x_fifotail /\ h = x_fifohead /\ s = x_fifosize /\ n = next /\ v = Vector
             /\ v >= 2 /\ next' = n + v
             /\ \/ /\ t + v <= h /\ h < s /\ x_fifotail' = t + v
                   /\ Holds(t, h, n)
                \/ /\ t > h /\ t + v <= s
                   /\ x_fifotail' = IF t + v >= s THEN 0 ELSE t + v
                   /\ Holds(t, s, n) /\ Holds(0, h, n + (s - t))
    BY <1>3, PlayFacts
  <2>2. j < v
    <3>1. next' - next - 1 = v - 1
        BY <2>1
    <3> QED BY <3>1
  <2>3. CASE t + v <= h /\ h < s /\ Holds(t, h, n)
    <3>1. t + j < h /\ h <= s
        BY <2>2, <2>3
    <3> QED BY <1>2, <2>1, <2>3, <3>1
  <2>4. CASE t + v <= s /\ Holds(t, s, n)
    <3>1. t + j < s /\ s <= s
        BY <2>2, <2>4
    <3> QED BY <1>2, <2>1, <2>4, <3>1
  <2> QED BY <2>1, <2>3, <2>4
<1>4. ASSUME NEW frame \in {p_frame, x_frame}, PerformEnd(frame)
      PROVE  \/ CutShort /\ x_fifotail + j = x_fifohead
             \/ /\ x_fifotail + j \in DOMAIN x_buf
                /\ x_buf[x_fifotail + j] = <<opens, next + j>>
  <2>1. PICK t \in Nat, h \in Nat, k \in Nat, f \in Nat, v \in Nat :
             /\ t = x_fifotail /\ h = x_fifohead /\ k = next /\ f = DEFFRAME /\ v = Vector
             /\ f >= 2 /\ t <= h /\ h < t + v - 1
             /\ Multiple(t, v) /\ Multiple(k, f) /\ k + (h - t) < MaxPlayed
             /\ Holds(t, h, k)
             /\ ~failed => k + (h - t) = AtMost(x_filename.bytes, x_filename.limit)
             /\ next' = AtMost(k + f * ((h - t + 1) \div f), MaxPlayed)
    BY <1>4, EndFacts
  <2>2. PICK a \in Nat, m \in Nat, g \in Nat :
           /\ a = h - t + 1 /\ m = MaxPlayed
           /\ g = f * (a \div f) /\ g <= a /\ (g = a => Multiple(a, f))
    <3>1. h - t + 1 \in Nat /\ MaxPlayed \in Nat /\ f \in Nat \ {0}
        BY <2>1, FifoTypes
    <3> QED BY <3>1, LastFrames
  <2>3. j < g
    <3>1. next' = AtMost(k + g, m) /\ k = next
        BY <2>1, <2>2
    <3>2. PICK e \in Nat : e = next' /\ e <= k + g
        BY <3>1 DEF AtMost
    <3>3. j \in 0 .. e - k - 1
      <4>1. 0 .. next' - next - 1 = 0 .. e - k - 1
        BY <3>1, <3>2, Zenon
      <4> QED BY <4>1
    <3>4. PICK i \in Nat : i = j /\ i <= e - k - 1
        BY <3>3
    <3>5. i < g
      <4>1. e <= k + g
        BY <3>2
      <4>2. i <= e - k - 1
        BY <3>4
      <4> QED BY <4>1, <4>2
    <3> QED BY <3>4, <3>5
  <2>4. CASE t + j < h
    <3>1. h <= x_fifosize
        BY <2>1, FifoTypes
    <3> QED BY <1>2, <2>1, <2>4, <3>1
  <2>5. CASE ~(t + j < h)
    <3>1. t + j = h /\ g = a
        BY <2>1, <2>2, <2>3, <2>5
    <3>2. Multiple(a, f) /\ Multiple(t, f)
        BY <2>1, <2>2, <3>1, FramesOfVectors
    <3>3. h % f = f - 1
      <4>1. PICK q \in Nat : a = q * f
        BY <3>2 DEF Multiple
      <4>2. PICK q1 \in Nat : t = q1 * f
        BY <3>2 DEF Multiple
      <4>3. q >= 1
        <5>1. a >= 1
            BY <2>1, <2>2
        <5>2. q = 0 => q * f = 0
            OBVIOUS
        <5> QED BY <4>1, <5>1, <5>2
      <4>4. PICK z \in Nat : z = (q1 + (q - 1)) * f /\ Multiple(z, f)
        <5>1. q1 + (q - 1) \in Nat
            BY <4>3
        <5>2. (q1 + (q - 1)) * f \in Nat
            BY <5>1
        <5> QED BY <5>1, <5>2 DEF Multiple
      <4>5. \A c, d, e \in Int : (c + (d - 1)) * e = c * e + d * e - e
        BY SMT
      <4>6. h = z + (f - 1)
        <5>1. z = t + a - f
          <6>1. (q1 + (q - 1)) * f = q1 * f + q * f - f
            BY <4>5
          <6>2. z = q1 * f + q * f - f
            BY <4>4, <6>1
          <6> QED BY <4>1, <4>2, <6>2
        <5>2. a = h - t + 1
            BY <2>2
        <5> QED BY <5>1, <5>2
      <4>7. f \in Nat \ {0} /\ f - 1 \in 0 .. f - 1
        BY <2>1
      <4>8. (z + (f - 1)) % f = f - 1
        BY <4>4, <4>7, Remainder
      <4> QED BY <4>6, <4>8
    <3>4. CutShort
        BY <1>4, <2>1, <3>3 DEF CutShort, PerformEnd, PInv, Formats
    <3> QED BY <2>1, <3>1, <3>4
  <2> QED BY <2>4, <2>5
<1>5. ASSUME NEW f \in Files, readsf_open(f) PROVE FALSE
    BY <1>5 DEF readsf_open, IInv, Counters
<1>6. CASE readsf_child_main
    BY <1>1, <1>6 DEF readsf_child_main, ChildLock, ChildNothing, ChildOpen, ChildOpened, ChildRead,
        ChildFeedWait, ChildFeedLock, ChildFed, ChildGot, ChildReadError, ChildLost,
        ChildClosedLost, ChildClose, ChildQuit, pdUnchanged
<1>7. CASE \/ readsf_start \/ readsf_stop \/ readsf_dsp \/ readsf_tick
           \/ readsf_free \/ FreeWait \/ FreeJoin \/ PerformEnter
           \/ \E frame \in {p_frame, x_frame} : PerformWait(frame)
           \/ SpuriousWakeup \/ UNCHANGED vars
  <2>1. Quiet
    BY <1>7, QuietPd
  <2> QED BY <1>1, <2>1 DEF Quiet, dataVars
<1> QED BY <1>3, <1>4, <1>5, <1>6, <1>7 DEF Next, readsf_perform

\* The step of BangsAtEnd.
LEMMA BangStep ==
    ASSUME OneFormat, IInv, PInv, EndRead, [Next]_vars, ~failed
    PROVE  PlayedWhole
<1> SUFFICES ASSUME x_clock', ~x_clock PROVE next' = Playable(x_filename)
    BY DEF PlayedWhole
<1>1. ASSUME NEW frame \in {p_frame, x_frame}, PerformEnd(frame) PROVE next' = Playable(x_filename)
  <2>1. PICK t \in Nat, h \in Nat, k \in Nat, f \in Nat, v \in Nat :
             /\ t = x_fifotail /\ h = x_fifohead /\ k = next /\ f = DEFFRAME /\ v = Vector
             /\ f >= 2 /\ t <= h /\ h < t + v - 1
             /\ Multiple(t, v) /\ Multiple(k, f) /\ k + (h - t) < MaxPlayed
             /\ Holds(t, h, k)
             /\ ~failed => k + (h - t) = AtMost(x_filename.bytes, x_filename.limit)
             /\ next' = AtMost(k + f * ((h - t + 1) \div f), MaxPlayed)
    BY <1>1, EndFacts
  <2>2. x_filename \in Files /\ x_filename.frame = f
    BY <1>1, <2>1 DEF PInv, Progress, Performs, PerformEnd, Performing, OneFormat
  <2>3. PICK a \in Nat, m \in Nat : a = h - t + 1 /\ m = MaxPlayed
    <3>1. h - t + 1 \in Nat /\ MaxPlayed \in Nat
        BY <2>1, FifoTypes
    <3> QED BY <3>1
  <2>4. f \in Nat \ {0} /\ k + a \in Nat /\ k + a <= m
    BY <2>1, <2>3
  <2>5. AtMost(x_filename.bytes, x_filename.limit) + 1 = k + a
    BY <2>1, <2>3
  <2>6. Playable(x_filename) = f * ((k + a) \div f)
    BY <2>2, <2>5 DEF Playable
  <2>7. PICK g \in Nat : g = f * ((k + a) \div f) /\ g <= k + a
    BY <2>4, LastFrames
  <2>8. g = k + f * (a \div f)
    <3>1. Multiple(k, f)
        BY <2>1
    <3>2. f * ((k + a) \div f) = k + f * (a \div f)
        BY <2>4, <3>1, FramesBefore
    <3> QED BY <2>7, <3>2
  <2>9. next' = AtMost(g, m)
    BY <2>1, <2>3, <2>8
  <2>10. AtMost(g, m) = g
    BY <2>4, <2>7 DEF AtMost
  <2> QED BY <2>6, <2>7, <2>9, <2>10
<1>2. ASSUME NEW f \in Files, readsf_open(f) PROVE FALSE
    BY <1>2 DEF readsf_open
<1>3. CASE readsf_child_main
    BY <1>3 DEF readsf_child_main, ChildLock, ChildNothing, ChildOpen, ChildOpened, ChildRead,
        ChildFeedWait, ChildFeedLock, ChildFed, ChildGot, ChildReadError, ChildLost,
        ChildClosedLost, ChildClose, ChildQuit, pdUnchanged
<1>4. CASE \/ readsf_start \/ readsf_stop \/ readsf_dsp \/ readsf_tick
           \/ readsf_free \/ FreeWait \/ FreeJoin \/ PerformEnter \/ SpuriousWakeup
    BY <1>4 DEF readsf_start, readsf_stop, readsf_dsp, readsf_tick, readsf_free, FreeWait, FreeJoin,
        PerformEnter, SpuriousWakeup
<1>5. CASE UNCHANGED vars
    BY <1>5 DEF vars
<1>6. ASSUME NEW frame \in {p_frame, x_frame}, PerformWait(frame) \/ PerformPlay(frame) PROVE FALSE
    BY <1>6 DEF PerformWait, PerformPlay
<1> QED BY <1>1, <1>2, <1>3, <1>4, <1>5, <1>6 DEF Next, readsf_perform

\* For files of one format, whatever the sizes: every byte of the file is played once, in
\* order, and none that the child has not read, is just reading or has read for the file
\* before; the exceptions are those of the property.
THEOREM InOrder == OneFormat => (Spec => PlaysInOrder)
<1> SUFFICES ASSUME OneFormat PROVE Spec => PlaysInOrder
    OBVIOUS
<1>1. IInv /\ PInv /\ EndRead /\ [Next]_vars =>
        [opens' = opens /\ ~HeadPassed /\ ~OneShort =>
           \A k \in 0 .. next' - next - 1 :
              \/ CutShort /\ x_fifotail + k = x_fifohead
              \/ /\ x_fifotail + k \in DOMAIN x_buf
                 /\ x_buf[x_fifotail + k] = <<opens, next + k>>]_vars
  <2> SUFFICES ASSUME IInv, PInv, EndRead, [Next]_vars, opens' = opens, ~HeadPassed, ~OneShort,
                      NEW k \in 0 .. next' - next - 1
               PROVE  \/ CutShort /\ x_fifotail + k = x_fifohead
                      \/ /\ x_fifotail + k \in DOMAIN x_buf
                         /\ x_buf[x_fifotail + k] = <<opens, next + k>>
    OBVIOUS
  <2> QED BY InOrderStep
<1> QED BY <1>1, Played, PTL DEF Spec, PlaysInOrder

\* For files of one format, whatever the sizes: the bang of readsf~ says that every frame of
\* the file was played, unless an open has failed.
THEOREM WholeFile == OneFormat => (Spec => BangsAtEnd)
<1> SUFFICES ASSUME OneFormat PROVE Spec => BangsAtEnd
    OBVIOUS
<1>1. IInv /\ PInv /\ EndRead /\ [Next]_vars => [~failed => PlayedWhole]_vars
  <2> SUFFICES ASSUME IInv, PInv, EndRead, [Next]_vars, ~failed PROVE PlayedWhole
    OBVIOUS
  <2> QED BY BangStep
<1> QED BY <1>1, Played, PTL DEF Spec, BangsAtEnd
=============================================================================
