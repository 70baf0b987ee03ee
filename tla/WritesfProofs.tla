--------------------------- MODULE WritesfProofs ---------------------------
(***************************************************************************)
(* For every size of vector, buffer and write: the indices of the fifo     *)
(* stay in their types, a finished file is closed before the next is       *)
(* opened, and until the first overrun the file gets every recorded byte   *)
(* once and in order, the last of them before it is closed.                *)
(***************************************************************************)
EXTENDS Writesf, TLAPS

-----------------------------------------------------------------------------
(* The inductive invariant.                                                *)

Flags ==
    /\ x_fileerror \in BOOLEAN /\ x_eof \in BOOLEAN /\ x_fd \in BOOLEAN
    /\ x_mutex \in BOOLEAN /\ overrun \in BOOLEAN

Places ==
    /\ x_state \in {"IDLE", "STARTUP", "STREAM"}
    /\ x_requestcode \in {"NOTHING", "OPEN", "CLOSE", "QUIT", "BUSY"}
    /\ asleep \subseteq {"pd", "child"}
    /\ pd \in {"ready", "open", "perform", "freeing", "joining", "gone"}
    /\ child \in {"locktop", "top", "create", "feed", "lockfeed", "write", "close", "quit",
                  "exited"}

Counters ==
    /\ opens \in 0 .. MaxOpens /\ c_open \in 0 .. MaxOpens /\ (pd = "open" => opens < MaxOpens)
    /\ recorded \in 0 .. MaxRecorded /\ written \in Nat
    /\ pd = "perform" => recorded + WANT <= MaxRecorded
    /\ fds \in Nat /\ (x_fd => fds >= 1)

Signals == x_sigperiod \in 0 .. BUFSIZE /\ x_sigcountdown \in 0 .. BUFSIZE

\* The child has the mutex exactly at these places.
Mutex == x_mutex <=> child \in {"top", "feed"}

\* Where the child may be while x_fd stands for a file, and under which requests.
Serving == child \in {"feed", "lockfeed", "write"}
Files ==
    /\ (Serving \/ child \in {"close", "quit"}) => x_fd
    /\ child \in {"locktop", "create", "exited"} => ~x_fd
    /\ (Serving \/ child \in {"create", "close", "quit"} \/ (child = "top" /\ x_fd)) =>
          x_requestcode \in {"BUSY", "CLOSE", "QUIT"}

\* Pd records only in a stream, and has asked for CLOSE only outside one.
States ==
    /\ pd = "perform" => x_state = "STREAM"
    /\ (x_requestcode = "CLOSE" \/ child = "close") => x_state = "IDLE"

\* The size of the fifo, a multiple of the vector's.
FIFO == BUFSIZE - (BUFSIZE % WANT)
Aligned(n) == \E q \in Nat : n = q * WANT

\* Somebody has opened a file, or is about to.
Recording == x_requestcode = "OPEN" \/ Serving \/ child = "create"

Fifo ==
    /\ x_fifosize \in {0, FIFO}
    /\ (Recording \/ x_state # "IDLE") => x_fifosize = FIFO
    /\ x_fifohead \in 0 .. BUFSIZE - 1 /\ x_fifotail \in 0 .. BUFSIZE - 1
    /\ Aligned(x_fifohead)
    /\ x_fifosize = FIFO => x_fifohead < FIFO /\ x_fifotail < FIFO
    /\ c_write \in 0 .. WRITESIZE
    /\ child = "write" => x_fifotail + c_write <= FIFO

Buffer == DOMAIN x_buf = 0 .. BUFSIZE - 1

\* Bytes of the file before the tail of the fifo.
Before == IF Serving THEN written ELSE 0

\* The bytes between tail and head follow those of the file.  The regions: the head
\* has not wrapped; it has, and the byte is at the end, or at the beginning.
Follows(j) ==
    /\ x_fifotail <= j /\ j < x_fifohead => x_buf[j] = <<opens, Before + (j - x_fifotail)>>
    /\ x_fifohead < x_fifotail /\ x_fifotail <= j =>
          x_buf[j] = <<opens, Before + (j - x_fifotail)>>
    /\ x_fifohead < x_fifotail /\ j < x_fifohead =>
          x_buf[j] = <<opens, Before + (FIFO - x_fifotail) + j>>

InFifo == x_fifohead - x_fifotail + (IF x_fifohead < x_fifotail THEN FIFO ELSE 0)

\* What is on its way to the file, as long as no byte was stored over another.
Content ==
    Recording =>
        /\ ~Serving => x_fifotail = 0
        /\ x_requestcode # "OPEN" => c_open = opens
        /\ ~overrun =>
              /\ recorded = Before + InFifo
              /\ \A j \in 0 .. FIFO - 1 : Follows(j)
              /\ (child = "write" /\ x_fifohead >= x_fifotail) =>
                    x_fifotail + c_write <= x_fifohead

\* A file that is about to be closed for CLOSE is complete.
Flushed ==
    (x_fd /\ ((child = "top" /\ x_requestcode = "CLOSE") \/ child = "close")
        /\ ~x_fileerror /\ ~overrun) => written = recorded

IInv ==
    /\ Flags /\ Places /\ Counters /\ Signals /\ Mutex
    /\ Files /\ States /\ Fifo /\ Buffer /\ Content /\ Flushed

-----------------------------------------------------------------------------
(* Sizes.                                                                   *)
\* Quotients of natural numbers.
LEMMA DivBound ==
    ASSUME NEW a \in Nat, NEW b \in Nat \ {0}
    PROVE  a \div b \in 0 .. a
    OBVIOUS

\* The fifo holds at least one vector, and a whole number of them.
LEMMA FifoFacts == FIFO \in Nat /\ WANT <= FIFO /\ FIFO <= BUFSIZE /\ Aligned(FIFO) /\ Aligned(0)
<1>1. BUFSIZE \in Nat /\ WANT \in Nat /\ WANT > 0 /\ BUFSIZE >= WANT
    BY WritesfAssumption
<1>2. BUFSIZE % WANT \in 0 .. WANT - 1
    BY <1>1
<1>3. BUFSIZE \div WANT \in Nat
    BY <1>1
<1>4. FIFO = (BUFSIZE \div WANT) * WANT
    BY <1>1 DEF FIFO
<1>5. FIFO \in Nat /\ FIFO <= BUFSIZE
    BY <1>1, <1>2 DEF FIFO
<1>6. BUFSIZE \div WANT >= 1
    BY <1>1
<1>7. WANT <= FIFO
    BY <1>1, <1>3, <1>4, <1>6
<1>8. Aligned(FIFO) /\ Aligned(0)
    BY <1>1, <1>3, <1>4 DEF Aligned
<1> QED BY <1>5, <1>7, <1>8

\* Below a multiple of the vector's size there is room for one more vector.
LEMMA AlignedStep ==
    ASSUME NEW n \in Nat, NEW m \in Nat, Aligned(n), Aligned(m), n < m
    PROVE  n + WANT <= m /\ Aligned(n + WANT)
<1>1. WANT \in Nat /\ WANT > 0
    BY WritesfAssumption
<1>2. PICK q \in Nat : n = q * WANT
    BY DEF Aligned
<1>3. PICK r \in Nat : m = r * WANT
    BY DEF Aligned
<1>4. q < r
    BY <1>1, <1>2, <1>3
<1>5. (q + 1) * WANT = n + WANT /\ q + 1 \in Nat
    BY <1>1, <1>2
<1>6. (q + 1) * WANT <= r * WANT
  <2>1. \A a, b, c \in Nat : a <= b => a * c <= b * c
      BY SMT
  <2> QED BY <1>1, <1>4, <1>5, <2>1
<1> QED BY <1>3, <1>5, <1>6 DEF Aligned

-----------------------------------------------------------------------------
(* The invariant is inductive.                                             *)

\* At the start no file is open and nothing is recorded.
LEMMA InitIInv == Init => IInv
<1> SUFFICES ASSUME Init PROVE IInv
    OBVIOUS
<1>1. Flags /\ Places /\ Mutex /\ Files /\ States /\ Content /\ Flushed
    BY DEF Init, Flags, Places, Mutex, Files, Serving, States, Content, Recording, Flushed
<1>2. Counters /\ Signals /\ Buffer
    BY WritesfAssumption DEF Init, Counters, Signals, Buffer
<1>3. Fifo
    BY WritesfAssumption, FifoFacts DEF Init, Fifo, Recording, Serving
<1> QED BY <1>1, <1>2, <1>3 DEF IInv

\* Every step of the two threads preserves the invariant.
LEMMA NextIInv == IInv /\ [Next]_vars => IInv'
<1> SUFFICES ASSUME IInv, [Next]_vars PROVE IInv'
    OBVIOUS
<1>1. CASE UNCHANGED vars
  <2>1. Flags' /\ Places' /\ Counters' /\ Signals' /\ Mutex' /\ Files' /\ States'
      BY <1>1 DEF vars, sigVars, childVars, IInv, Flags, Places, Counters, Signals, Mutex,
          Files, Serving, States
  <2>2. Fifo' /\ Buffer'
      BY <1>1 DEF vars, fifoVars, childVars, IInv, Fifo, Recording, Serving, Buffer
  <2>3. Content'
      BY <1>1 DEF vars, fifoVars, childVars, IInv, Content, Recording, Serving, Before, InFifo,
          Follows
  <2>4. Flushed'
      BY <1>1 DEF vars, childVars, IInv, Flushed
  <2> QED BY <2>1, <2>2, <2>3, <2>4 DEF IInv
<1>2. CASE writesf_start
  <2>1. Places'
      BY <1>2 DEF IInv, Places, writesf_start, childVars
  <2>2. States'
      BY <1>2 DEF IInv, States, writesf_start, childVars
  <2>3. Fifo'
      BY <1>2 DEF IInv, Fifo, writesf_start, fifoVars, childVars
  <2>4. Flags' /\ Counters' /\ Signals' /\ Mutex' /\ Files' /\ Buffer' /\ Flushed'
      BY <1>2 DEF IInv, Flags, Counters, Signals, Mutex, Files, Serving, Buffer, Flushed,
          writesf_start, fifoVars, sigVars, childVars
  <2>5. Content'
      BY <1>2 DEF IInv, Content, Recording, Serving, Before, InFifo, Follows, writesf_start,
          fifoVars, childVars
  <2> QED BY <2>1, <2>2, <2>3, <2>4, <2>5 DEF IInv
<1>3. CASE writesf_stop
  <2>1. Places'
      BY <1>3 DEF IInv, Places, writesf_stop, Wake, childVars
  <2>2. Files'
      BY <1>3 DEF IInv, Files, Serving, writesf_stop, childVars
  <2>3. States'
      BY <1>3 DEF IInv, States, writesf_stop
  <2>4. Fifo'
      BY <1>3 DEF IInv, Fifo, Recording, Serving, writesf_stop, fifoVars, childVars
  <2>5. Content'
      BY <1>3 DEF IInv, Content, Recording, Serving, Before, InFifo, Follows, Files,
          writesf_stop, fifoVars, childVars
  <2>6. Flushed'
      BY <1>3 DEF IInv, Flushed, Mutex, writesf_stop, childVars
  <2>7. Flags' /\ Counters' /\ Signals' /\ Mutex' /\ Buffer'
      BY <1>3 DEF IInv, Flags, Counters, Signals, Mutex, Buffer, writesf_stop, fifoVars,
          sigVars, childVars
  <2> QED BY <2>1, <2>2, <2>3, <2>4, <2>5, <2>6, <2>7 DEF IInv
<1>4. CASE writesf_dsp
  <2>1. Signals'
    <3>1. x_fifosize \in Nat /\ x_fifosize <= BUFSIZE
        BY FifoFacts, WritesfAssumption DEF IInv, Fifo
    <3>2. x_fifosize \div WANT \in 0 .. x_fifosize
        BY <3>1, WritesfAssumption
    <3> QED BY <1>4, <3>1, <3>2, WritesfAssumption DEF IInv, Signals, writesf_dsp
  <2>2. Flags' /\ Places' /\ Counters' /\ Mutex' /\ Files' /\ States' /\ Buffer' /\ Flushed'
      BY <1>4 DEF IInv, Flags, Places, Counters, Mutex, Files, Serving, States, Buffer, Flushed,
          writesf_dsp, fifoVars, childVars
  <2>3. Fifo'
      BY <1>4 DEF IInv, Fifo, Recording, Serving, writesf_dsp, fifoVars, childVars
  <2>4. Content'
      BY <1>4 DEF IInv, Content, Recording, Serving, Before, InFifo, Follows, writesf_dsp,
          fifoVars, childVars
  <2> QED BY <2>1, <2>2, <2>3, <2>4 DEF IInv
<1>5. CASE OpenEnter
  <2>1. Places'
      BY <1>5 DEF IInv, Places, OpenEnter, Wake, childVars
  <2>2. Counters'
      BY <1>5 DEF IInv, Counters, OpenEnter, childVars
  <2>3. Files'
      BY <1>5 DEF IInv, Files, Serving, OpenEnter, childVars
  <2>4. States'
      BY <1>5 DEF IInv, States, OpenEnter
  <2>5. Fifo'
      BY <1>5 DEF IInv, Fifo, Recording, Serving, OpenEnter, fifoVars, childVars
  <2>6. Content'
      BY <1>5 DEF IInv, Content, Recording, Serving, Before, InFifo, Follows, Files, OpenEnter,
          fifoVars, childVars
  <2>7. Flushed'
      BY <1>5 DEF IInv, Flushed, Mutex, OpenEnter, childVars
  <2>8. Flags' /\ Signals' /\ Mutex' /\ Buffer'
      BY <1>5 DEF IInv, Flags, Signals, Mutex, Buffer, OpenEnter, fifoVars, sigVars, childVars
  <2> QED BY <2>1, <2>2, <2>3, <2>4, <2>5, <2>6, <2>7, <2>8 DEF IInv
<1>6. CASE OpenWait
  <2>1. Places'
      BY <1>6 DEF IInv, Places, OpenWait, WakeAndSleep, childVars
  <2>2. Flags' /\ Counters' /\ Signals' /\ Mutex' /\ Files' /\ States' /\ Buffer' /\ Flushed'
      BY <1>6 DEF IInv, Flags, Counters, Signals, Mutex, Files, Serving, States, Buffer,
          Flushed, OpenWait, fifoVars, sigVars, childVars
  <2>3. Fifo'
      BY <1>6 DEF IInv, Fifo, Recording, Serving, OpenWait, fifoVars, childVars
  <2>4. Content'
      BY <1>6 DEF IInv, Content, Recording, Serving, Before, InFifo, Follows, OpenWait,
          fifoVars, childVars
  <2> QED BY <2>1, <2>2, <2>3, <2>4 DEF IInv
<1>7. CASE writesf_open
  <2>1. Flags'
      BY <1>7 DEF IInv, Flags, writesf_open
  <2>2. Places'
      BY <1>7 DEF IInv, Places, writesf_open, Wake, childVars
  <2>3. Counters'
      BY <1>7, WritesfAssumption DEF IInv, Counters, writesf_open, childVars
  <2>4. Signals'
      BY <1>7, WritesfAssumption DEF IInv, Signals, writesf_open
  <2>5. Files'
      BY <1>7 DEF IInv, Files, Serving, writesf_open, childVars
  <2>6. States'
      BY <1>7 DEF IInv, States, Files, writesf_open, childVars
  <2>7. Fifo'
    <3>1. x_fifosize' = FIFO /\ x_fifohead' = 0 /\ x_fifotail' = 0 /\ c_write' = c_write
        BY <1>7 DEF writesf_open, FIFO, childVars
    <3>2. child' # "write"
        BY <1>7 DEF IInv, Files, Serving, writesf_open, childVars
    <3> QED BY <3>1, <3>2, FifoFacts, WritesfAssumption DEF IInv, Fifo
  <2>8. Content'
      BY <1>7 DEF IInv, Content, Serving, Before, InFifo, Follows, Files, writesf_open,
          childVars
  <2>9. Flushed'
      BY <1>7 DEF IInv, Flushed, Files, writesf_open, childVars
  <2>10. Mutex' /\ Buffer'
      BY <1>7 DEF IInv, Mutex, Buffer, writesf_open, childVars
  <2> QED BY <2>1, <2>2, <2>3, <2>4, <2>5, <2>6, <2>7, <2>8, <2>9, <2>10 DEF IInv
<1>8. CASE writesf_free
  <2>1. Places'
      BY <1>8 DEF IInv, Places, writesf_free, WakeAndSleep, childVars
  <2>2. Counters'
      BY <1>8 DEF IInv, Counters, writesf_free, childVars
  <2>3. Files'
      BY <1>8 DEF IInv, Files, Serving, writesf_free, childVars
  <2>4. States'
      BY <1>8 DEF IInv, States, writesf_free, childVars
  <2>5. Fifo'
      BY <1>8 DEF IInv, Fifo, Recording, Serving, writesf_free, fifoVars, childVars
  <2>6. Content'
      BY <1>8 DEF IInv, Content, Recording, Serving, Before, InFifo, Follows, Files,
          writesf_free, fifoVars, childVars
  <2>7. Flushed'
      BY <1>8 DEF IInv, Flushed, writesf_free, childVars
  <2>8. Flags' /\ Signals' /\ Mutex' /\ Buffer'
      BY <1>8 DEF IInv, Flags, Signals, Mutex, Buffer, writesf_free, fifoVars, sigVars,
          childVars
  <2> QED BY <2>1, <2>2, <2>3, <2>4, <2>5, <2>6, <2>7, <2>8 DEF IInv
<1>9. CASE FreeWait
  <2>1. Places'
      BY <1>9 DEF IInv, Places, FreeWait, WakeAndSleep, childVars
  <2>2. Counters'
      BY <1>9 DEF IInv, Counters, FreeWait, childVars
  <2>3. States'
      BY <1>9 DEF IInv, States, FreeWait, childVars
  <2>4. Flags' /\ Signals' /\ Mutex' /\ Files' /\ Buffer' /\ Flushed'
      BY <1>9 DEF IInv, Flags, Signals, Mutex, Files, Serving, Buffer, Flushed, FreeWait,
          fifoVars, sigVars, childVars
  <2>5. Fifo'
      BY <1>9 DEF IInv, Fifo, Recording, Serving, FreeWait, fifoVars, childVars
  <2>6. Content'
      BY <1>9 DEF IInv, Content, Recording, Serving, Before, InFifo, Follows, FreeWait,
          fifoVars, childVars
  <2> QED BY <2>1, <2>2, <2>3, <2>4, <2>5, <2>6 DEF IInv
<1>10. CASE FreeJoin
  <2>1. Places'
      BY <1>10 DEF IInv, Places, FreeJoin, childVars
  <2>2. Counters'
      BY <1>10 DEF IInv, Counters, FreeJoin, childVars
  <2>3. States'
      BY <1>10 DEF IInv, States, FreeJoin, childVars
  <2>4. Flags' /\ Signals' /\ Mutex' /\ Files' /\ Buffer' /\ Flushed'
      BY <1>10 DEF IInv, Flags, Signals, Mutex, Files, Serving, Buffer, Flushed, FreeJoin,
          fifoVars, sigVars, childVars
  <2>5. Fifo'
      BY <1>10 DEF IInv, Fifo, Recording, Serving, FreeJoin, fifoVars, childVars
  <2>6. Content'
      BY <1>10 DEF IInv, Content, Recording, Serving, Before, InFifo, Follows, FreeJoin,
          fifoVars, childVars
  <2> QED BY <2>1, <2>2, <2>3, <2>4, <2>5, <2>6 DEF IInv
<1>11. CASE PerformEnter
  <2>1. Places'
      BY <1>11 DEF IInv, Places, PerformEnter, childVars
  <2>2. Counters'
      BY <1>11 DEF IInv, Counters, PerformEnter, childVars
  <2>3. States'
      BY <1>11 DEF IInv, States, PerformEnter, childVars
  <2>4. Flags' /\ Signals' /\ Mutex' /\ Files' /\ Buffer' /\ Flushed'
      BY <1>11 DEF IInv, Flags, Signals, Mutex, Files, Serving, Buffer, Flushed, PerformEnter,
          fifoVars, sigVars, childVars
  <2>5. Fifo'
      BY <1>11 DEF IInv, Fifo, PerformEnter, fifoVars, childVars
  <2>6. Content'
      BY <1>11 DEF IInv, Content, Recording, Serving, Before, InFifo, Follows, PerformEnter,
          fifoVars, childVars
  <2> QED BY <2>1, <2>2, <2>3, <2>4, <2>5, <2>6 DEF IInv
<1>12. CASE PerformWait
  <2>1. Places'
      BY <1>12 DEF IInv, Places, PerformWait, WakeAndSleep, childVars
  <2>2. Flags' /\ Counters' /\ Signals' /\ Mutex' /\ Files' /\ States' /\ Buffer' /\ Flushed'
      BY <1>12 DEF IInv, Flags, Counters, Signals, Mutex, Files, Serving, States, Buffer,
          Flushed, PerformWait, fifoVars, sigVars, childVars
  <2>3. Fifo'
      BY <1>12 DEF IInv, Fifo, Recording, Serving, PerformWait, fifoVars, childVars
  <2>4. Content'
      BY <1>12 DEF IInv, Content, Recording, Serving, Before, InFifo, Follows, PerformWait,
          fifoVars, childVars
  <2> QED BY <2>1, <2>2, <2>3, <2>4 DEF IInv
<1>13. CASE PerformStore
  <2>1. Flags'
      BY <1>13 DEF IInv, Flags, PerformStore
  <2>2. Places'
      BY <1>13 DEF IInv, Places, PerformStore, Wake, childVars
  <2>3. Counters'
      BY <1>13, WritesfAssumption DEF IInv, Counters, PerformStore, childVars
  <2>4. Signals'
      BY <1>13, WritesfAssumption DEF IInv, Signals, PerformStore
  <2>5. States'
      BY <1>13 DEF IInv, States, PerformStore, childVars
  <2>6. Fifo'
    <3>1. x_fifosize = FIFO /\ x_fifohead \in Nat /\ x_fifohead < FIFO
        BY <1>13 DEF IInv, Fifo, States, PerformStore
    <3>2. x_fifohead + WANT <= FIFO /\ Aligned(x_fifohead + WANT)
        BY <3>1, AlignedStep, FifoFacts DEF IInv, Fifo
    <3>3. x_fifohead' = (IF x_fifohead + WANT >= FIFO THEN 0 ELSE x_fifohead + WANT)
          /\ UNCHANGED <<x_fifosize, x_fifotail, c_write, child, x_requestcode, x_state>>
        BY <1>13, <3>1 DEF PerformStore, childVars
    <3>4. x_fifohead' \in Nat /\ x_fifohead' < FIFO /\ Aligned(x_fifohead')
        BY <3>1, <3>2, <3>3, FifoFacts, WritesfAssumption
    <3> QED BY <3>1, <3>3, <3>4, FifoFacts, WritesfAssumption DEF IInv, Fifo
  <2>7. Buffer'
      BY <1>13 DEF IInv, Buffer, PerformStore
  <2>8. Content'
    <3> SUFFICES ASSUME Recording PROVE Content'
        BY <1>13 DEF Content, Recording, Serving, PerformStore, childVars
    <3>1. x_fifosize = FIFO /\ x_fifohead \in Nat /\ x_fifohead < FIFO
          /\ x_fifotail \in Nat /\ x_fifotail < FIFO
        BY DEF IInv, Fifo
    <3>2. x_fifohead + WANT <= FIFO /\ FIFO \in Nat /\ FIFO <= BUFSIZE
          /\ WANT \in Nat /\ WANT > 0 /\ BUFSIZE \in Nat
        BY <3>1, AlignedStep, FifoFacts, WritesfAssumption DEF IInv, Fifo
    <3>3. x_fifohead' = (IF x_fifohead + WANT >= FIFO THEN 0 ELSE x_fifohead + WANT)
          /\ recorded' = recorded + WANT
          /\ UNCHANGED <<x_fifotail, opens, written, c_write, c_open, child, x_requestcode>>
        BY <1>13, <3>1 DEF PerformStore, childVars
    <3>4. Before' = Before /\ Before \in Nat /\ recorded \in Nat
        BY <3>3 DEF Before, Serving, IInv, Counters
    <3>5. x_fifotail <= x_fifohead \/ x_fifotail > x_fifohead + WANT
        BY <1>13, <3>1, <3>2 DEF PerformStore, NoRoom
    <3>6. ASSUME ~overrun'
          PROVE  /\ recorded' = Before' + InFifo'
                 /\ \A j \in 0 .. FIFO - 1 : Follows(j)'
                 /\ (child' = "write" /\ x_fifohead' >= x_fifotail') =>
                       x_fifotail' + c_write' <= x_fifohead'
      <4>1. ~overrun /\ x_fifohead' # x_fifotail
          BY <1>13, <3>6, Zenon DEF PerformStore
      <4>2. /\ recorded = Before + InFifo
            /\ (child = "write" /\ x_fifohead >= x_fifotail) =>
                  x_fifotail + c_write <= x_fifohead
          BY <4>1 DEF IInv, Content
      <4>3. recorded' = Before' + InFifo'
          BY <3>1, <3>2, <3>3, <3>4, <3>5, <4>1, <4>2 DEF InFifo
      <4>4. c_write \in Nat
          BY DEF IInv, Fifo
      <4>5. (child' = "write" /\ x_fifohead' >= x_fifotail') =>
              x_fifotail' + c_write' <= x_fifohead'
          BY <3>1, <3>2, <3>3, <3>5, <4>1, <4>2, <4>4
      <4>6. ASSUME NEW j \in 0 .. FIFO - 1 PROVE Follows(j)'
        <5>1. x_buf'[j] = IF x_fifohead <= j /\ j < x_fifohead + WANT
                          THEN <<opens, recorded + (j - x_fifohead)>> ELSE x_buf[j]
            BY <1>13, <3>1, <3>2, <3>4, SMTT(20) DEF PerformStore, IInv, Buffer
        <5>2. Follows(j)
            BY <4>1 DEF IInv, Content
        <5> QED BY <3>1, <3>2, <3>3, <3>4, <3>5, <4>1, <4>2, <5>1, <5>2 DEF Follows, InFifo
      <4> QED BY <4>3, <4>5, <4>6
    <3>7. (~Serving => x_fifotail = 0) /\ (x_requestcode # "OPEN" => c_open = opens)
        BY DEF IInv, Content
    <3> QED BY <3>3, <3>6, <3>7 DEF Content, Serving
  <2>9. Flushed'
      BY <1>13 DEF IInv, Flushed, States, PerformStore, childVars
  <2>10. Mutex' /\ Files'
      BY <1>13 DEF IInv, Mutex, Files, Serving, PerformStore, childVars
  <2> QED BY <2>1, <2>2, <2>3, <2>4, <2>5, <2>6, <2>7, <2>8, <2>9, <2>10 DEF IInv
<1>14. CASE ChildLock
  <2>1. Flags'
      BY <1>14 DEF IInv, Flags, ChildLock, Lock, pdUnchanged
  <2>2. Places'
      BY <1>14 DEF IInv, Places, ChildLock, pdUnchanged
  <2>3. Mutex'
      BY <1>14 DEF IInv, Mutex, ChildLock, Lock
  <2>4. Files'
      BY <1>14 DEF IInv, Files, Serving, ChildLock
  <2>5. States'
      BY <1>14 DEF IInv, States, ChildLock, pdUnchanged
  <2>6. Fifo'
      BY <1>14 DEF IInv, Fifo, Recording, Serving, ChildLock, pdUnchanged
  <2>7. Content'
      BY <1>14 DEF IInv, Content, Recording, Serving, Before, InFifo, Follows, ChildLock,
          pdUnchanged
  <2>8. Flushed'
      BY <1>14 DEF IInv, Flushed, Files, ChildLock
  <2>9. Counters' /\ Signals' /\ Buffer'
      BY <1>14 DEF IInv, Counters, Signals, Buffer, ChildLock, pdUnchanged, sigVars
  <2> QED BY <2>1, <2>2, <2>3, <2>4, <2>5, <2>6, <2>7, <2>8, <2>9 DEF IInv
<1>15. CASE ChildNothing
  <2>1. Flags'
      BY <1>15 DEF IInv, Flags, ChildNothing, Unlock, pdUnchanged
  <2>2. Places'
      BY <1>15 DEF IInv, Places, ChildNothing, WakeAndSleep, pdUnchanged
  <2>3. Mutex'
      BY <1>15 DEF IInv, Mutex, ChildNothing, Unlock
  <2>4. Files'
      BY <1>15 DEF IInv, Files, Serving, ChildNothing
  <2>5. States'
      BY <1>15 DEF IInv, States, ChildNothing, pdUnchanged
  <2>6. Fifo'
      BY <1>15 DEF IInv, Fifo, Recording, Serving, ChildNothing, pdUnchanged
  <2>7. Content'
      BY <1>15 DEF IInv, Content, Recording, Serving, ChildNothing
  <2>8. Flushed'
      BY <1>15 DEF IInv, Flushed, ChildNothing
  <2>9. Counters' /\ Signals' /\ Buffer'
      BY <1>15 DEF IInv, Counters, Signals, Buffer, ChildNothing, pdUnchanged, sigVars
  <2> QED BY <2>1, <2>2, <2>3, <2>4, <2>5, <2>6, <2>7, <2>8, <2>9 DEF IInv
<1>16. CASE ChildOpen
  <2>1. Flags'
      BY <1>16 DEF IInv, Flags, ChildOpen, Unlock, pdUnchanged
  <2>2. Places'
      BY <1>16 DEF IInv, Places, ChildOpen, pdUnchanged
  <2>3. Counters'
      BY <1>16 DEF IInv, Counters, ChildOpen, pdUnchanged
  <2>4. Mutex'
      BY <1>16 DEF IInv, Mutex, ChildOpen, Unlock
  <2>5. Files'
      BY <1>16 DEF IInv, Files, Serving, ChildOpen
  <2>6. States'
      BY <1>16 DEF IInv, States, ChildOpen, pdUnchanged
  <2>7. Fifo'
      BY <1>16 DEF IInv, Fifo, Recording, ChildOpen, pdUnchanged
  <2>8. Content'
      BY <1>16 DEF IInv, Content, Recording, Serving, Before, InFifo, Follows, ChildOpen,
          pdUnchanged
  <2>9. Flushed'
      BY <1>16 DEF IInv, Flushed, ChildOpen
  <2>10. Signals' /\ Buffer'
      BY <1>16 DEF IInv, Signals, Buffer, ChildOpen, pdUnchanged, sigVars
  <2> QED BY <2>1, <2>2, <2>3, <2>4, <2>5, <2>6, <2>7, <2>8, <2>9, <2>10 DEF IInv
<1>17. CASE ChildCreateFailed
  <2>1. Flags'
      BY <1>17 DEF IInv, Flags, ChildCreateFailed, Lock, pdUnchanged
  <2>2. Places'
      BY <1>17 DEF IInv, Places, ChildCreateFailed, pdUnchanged
  <2>3. Mutex'
      BY <1>17 DEF IInv, Mutex, ChildCreateFailed, Lock
  <2>4. Files'
      BY <1>17 DEF IInv, Files, Serving, ChildCreateFailed
  <2>5. States'
      BY <1>17 DEF IInv, States, ChildCreateFailed, pdUnchanged
  <2>6. Fifo'
      BY <1>17 DEF IInv, Fifo, Recording, ChildCreateFailed, pdUnchanged
  <2>7. Content'
      BY <1>17 DEF IInv, Content, Recording, Serving, ChildCreateFailed
  <2>8. Flushed'
      BY <1>17 DEF IInv, Flushed, ChildCreateFailed
  <2>9. Counters' /\ Signals' /\ Buffer'
      BY <1>17 DEF IInv, Counters, Signals, Buffer, ChildCreateFailed, pdUnchanged, sigVars
  <2> QED BY <2>1, <2>2, <2>3, <2>4, <2>5, <2>6, <2>7, <2>8, <2>9 DEF IInv
<1>18. CASE ChildCreated
  <2>1. Flags'
      BY <1>18 DEF IInv, Flags, ChildCreated, Lock, pdUnchanged
  <2>2. Places'
      BY <1>18 DEF IInv, Places, ChildCreated, pdUnchanged
  <2>3. Counters'
      BY <1>18 DEF IInv, Counters, ChildCreated, pdUnchanged
  <2>4. Mutex'
      BY <1>18 DEF IInv, Mutex, ChildCreated, Lock
  <2>5. Files'
      BY <1>18 DEF IInv, Files, Serving, ChildCreated
  <2>6. States'
      BY <1>18 DEF IInv, States, ChildCreated, pdUnchanged
  <2>7. Fifo'
      BY <1>18, WritesfAssumption DEF IInv, Fifo, Recording, ChildCreated, pdUnchanged
  <2>8. Content'
      BY <1>18 DEF IInv, Content, Recording, Serving, Before, InFifo, Follows, ChildCreated,
          pdUnchanged
  <2>9. Flushed'
      BY <1>18 DEF IInv, Flushed, Files, ChildCreated
  <2>10. Signals' /\ Buffer'
      BY <1>18 DEF IInv, Signals, Buffer, ChildCreated, pdUnchanged, sigVars
  <2> QED BY <2>1, <2>2, <2>3, <2>4, <2>5, <2>6, <2>7, <2>8, <2>9, <2>10 DEF IInv
<1>19. CASE ChildWrite
  <2>1. Flags'
      BY <1>19 DEF IInv, Flags, ChildWrite, Unlock, pdUnchanged
  <2>2. Places'
      BY <1>19 DEF IInv, Places, ChildWrite, pdUnchanged
  <2>3. Mutex'
      BY <1>19 DEF IInv, Mutex, ChildWrite, Unlock
  <2>4. Files'
      BY <1>19 DEF IInv, Files, Serving, ChildWrite
  <2>5. States'
      BY <1>19 DEF IInv, States, ChildWrite, pdUnchanged
  <2>6. Fifo'
      BY <1>19, WritesfAssumption DEF IInv, Fifo, Recording, Serving, ChildWrite, AtMost,
          pdUnchanged
  <2>7. Content'
      BY <1>19, WritesfAssumption DEF IInv, Content, Recording, Serving, Before, InFifo,
          Follows, Fifo, ChildWrite, AtMost, pdUnchanged
  <2>8. Flushed'
      BY <1>19 DEF IInv, Flushed, ChildWrite
  <2>9. Counters' /\ Signals' /\ Buffer'
      BY <1>19 DEF IInv, Counters, Signals, Buffer, ChildWrite, pdUnchanged, sigVars
  <2> QED BY <2>1, <2>2, <2>3, <2>4, <2>5, <2>6, <2>7, <2>8, <2>9 DEF IInv
<1>20. CASE ChildFeedWait
  <2>1. Flags'
      BY <1>20 DEF IInv, Flags, ChildFeedWait, Unlock, pdUnchanged
  <2>2. Places'
      BY <1>20 DEF IInv, Places, ChildFeedWait, WakeAndSleep, pdUnchanged
  <2>3. Mutex'
      BY <1>20 DEF IInv, Mutex, ChildFeedWait, Unlock
  <2>4. Files'
      BY <1>20 DEF IInv, Files, Serving, ChildFeedWait
  <2>5. States'
      BY <1>20 DEF IInv, States, ChildFeedWait, pdUnchanged
  <2>6. Fifo'
      BY <1>20 DEF IInv, Fifo, Recording, Serving, ChildFeedWait, pdUnchanged
  <2>7. Content'
      BY <1>20 DEF IInv, Content, Recording, Serving, Before, InFifo, Follows, ChildFeedWait,
          pdUnchanged
  <2>8. Flushed'
      BY <1>20 DEF IInv, Flushed, ChildFeedWait
  <2>9. Counters' /\ Signals' /\ Buffer'
      BY <1>20 DEF IInv, Counters, Signals, Buffer, ChildFeedWait, pdUnchanged, sigVars
  <2> QED BY <2>1, <2>2, <2>3, <2>4, <2>5, <2>6, <2>7, <2>8, <2>9 DEF IInv
<1>21. CASE ChildFeedLock
  <2>1. Flags'
      BY <1>21 DEF IInv, Flags, ChildFeedLock, Lock, pdUnchanged
  <2>2. Places'
      BY <1>21 DEF IInv, Places, ChildFeedLock, pdUnchanged
  <2>3. Mutex'
      BY <1>21 DEF IInv, Mutex, ChildFeedLock, Lock
  <2>4. Files'
      BY <1>21 DEF IInv, Files, Serving, ChildFeedLock
  <2>5. States'
      BY <1>21 DEF IInv, States, ChildFeedLock, pdUnchanged
  <2>6. Fifo'
      BY <1>21 DEF IInv, Fifo, Recording, Serving, ChildFeedLock, pdUnchanged
  <2>7. Content'
      BY <1>21 DEF IInv, Content, Recording, Serving, Before, InFifo, Follows, ChildFeedLock,
          pdUnchanged
  <2>8. Flushed'
      BY <1>21 DEF IInv, Flushed, ChildFeedLock
  <2>9. Counters' /\ Signals' /\ Buffer'
      BY <1>21 DEF IInv, Counters, Signals, Buffer, ChildFeedLock, pdUnchanged, sigVars
  <2> QED BY <2>1, <2>2, <2>3, <2>4, <2>5, <2>6, <2>7, <2>8, <2>9 DEF IInv
<1>22. CASE ChildFed
  <2>1. Places'
      BY <1>22 DEF IInv, Places, ChildFed, pdUnchanged
  <2>2. Mutex'
      BY <1>22 DEF IInv, Mutex, ChildFed
  <2>3. Files'
      BY <1>22 DEF IInv, Files, Serving, ChildFed
  <2>4. States'
      BY <1>22 DEF IInv, States, ChildFed, pdUnchanged
  <2>5. Fifo'
      BY <1>22 DEF IInv, Fifo, Recording, Serving, ChildFed, pdUnchanged
  <2>6. Content'
      BY <1>22 DEF IInv, Content, Recording, Serving, Files, ChildFed
  <2>7. Flushed'
      BY <1>22 DEF IInv, Flushed, Serving, Content, Recording, Before, InFifo, Counters, Fifo,
          ChildFed, GoesOn, Pending, pdUnchanged
  <2>8. Flags' /\ Counters' /\ Signals' /\ Buffer'
      BY <1>22 DEF IInv, Flags, Counters, Signals, Buffer, ChildFed, pdUnchanged, sigVars
  <2> QED BY <2>1, <2>2, <2>3, <2>4, <2>5, <2>6, <2>7, <2>8 DEF IInv
<1>23. CASE ChildWrote
  <2>1. Flags'
      BY <1>23 DEF IInv, Flags, ChildWrote, Lock, pdUnchanged
  <2>2. Places'
      BY <1>23 DEF IInv, Places, ChildWrote, Wake, pdUnchanged
  <2>3. Counters'
      BY <1>23 DEF IInv, Counters, Fifo, ChildWrote, pdUnchanged
  <2>4. Mutex'
      BY <1>23 DEF IInv, Mutex, ChildWrote, Lock
  <2>5. Files'
      BY <1>23 DEF IInv, Files, Serving, ChildWrote
  <2>6. States'
      BY <1>23 DEF IInv, States, ChildWrote, pdUnchanged
  <2>7. Fifo'
    <3>1. x_fifosize = FIFO /\ x_fifotail \in Nat /\ c_write \in Nat /\ x_fifotail + c_write <= FIFO
        BY <1>23 DEF IInv, Fifo, Recording, Serving, ChildWrote
    <3>2. x_fifotail' \in Nat /\ x_fifotail' < FIFO
        BY <1>23, <3>1 DEF IInv, Fifo, ChildWrote
    <3>3. UNCHANGED <<x_fifosize, x_fifohead, x_requestcode, x_state>>
          /\ c_write' = 0 /\ child' \in {"feed", "top"}
        BY <1>23 DEF ChildWrote, pdUnchanged
    <3>4. /\ x_fifohead \in 0 .. BUFSIZE - 1 /\ Aligned(x_fifohead) /\ x_fifohead < FIFO
          /\ WRITESIZE \in Nat /\ BUFSIZE \in Nat /\ FIFO \in Nat /\ FIFO <= BUFSIZE
        BY <3>1, FifoFacts, WritesfAssumption DEF IInv, Fifo
    <3>5. x_fifotail' \in 0 .. BUFSIZE - 1 /\ c_write' \in 0 .. WRITESIZE
        BY <3>2, <3>3, <3>4
    <3>6. Aligned(x_fifohead)' /\ child' # "write"
        BY <3>3, <3>4 DEF Aligned
    <3> QED BY <3>1, <3>2, <3>3, <3>4, <3>5, <3>6 DEF Fifo
  <2>8. Content'
    <3> SUFFICES ASSUME x_requestcode \in {"BUSY", "CLOSE"} PROVE Content'
        BY <1>23 DEF IInv, Files, Content, Recording, Serving, ChildWrote
    <3>1. x_fifosize = FIFO /\ x_fifohead \in Nat /\ x_fifohead < FIFO
          /\ x_fifotail \in Nat /\ x_fifotail < FIFO /\ FIFO \in Nat
          /\ c_write \in Nat /\ x_fifotail + c_write <= FIFO
        BY <1>23 DEF IInv, Fifo, Recording, Serving, ChildWrote
    <3>2. x_fifotail' = (IF x_fifotail + c_write = FIFO THEN 0 ELSE x_fifotail + c_write)
          /\ child = "write" /\ child' = "feed" /\ written' = written + c_write
          /\ UNCHANGED <<x_fifohead, x_buf, opens, recorded, c_open, x_requestcode, overrun>>
        BY <1>23, <3>1 DEF ChildWrote, pdUnchanged
    <3>3. Before = written /\ Before' = written + c_write /\ written \in Nat
        BY <3>2 DEF Before, Serving, IInv, Counters
    <3>4. ASSUME ~overrun
          PROVE  recorded = Before' + InFifo' /\ \A j \in 0 .. FIFO - 1 : Follows(j)'
      <4>1. /\ recorded = Before + InFifo
            /\ x_fifohead >= x_fifotail => x_fifotail + c_write <= x_fifohead
          BY <3>2, <3>4 DEF IInv, Content, Recording, Serving
      <4>2. recorded = Before' + InFifo'
          BY <3>1, <3>2, <3>3, <4>1 DEF InFifo
      <4>3. ASSUME NEW j \in 0 .. FIFO - 1 PROVE Follows(j)'
        <5>1. Follows(j)
            BY <3>2, <3>4 DEF IInv, Content, Recording, Serving
        <5> QED BY <3>1, <3>2, <3>3, <4>1, <5>1 DEF Follows
      <4> QED BY <4>2, <4>3
    <3>5. c_open = opens
        BY <3>2 DEF IInv, Content, Recording, Serving
    <3> QED BY <3>2, <3>4, <3>5 DEF Content, Serving
  <2>9. Flushed'
      BY <1>23 DEF IInv, Flushed, ChildWrote
  <2>10. Signals' /\ Buffer'
      BY <1>23 DEF IInv, Signals, Buffer, ChildWrote, pdUnchanged, sigVars
  <2> QED BY <2>1, <2>2, <2>3, <2>4, <2>5, <2>6, <2>7, <2>8, <2>9, <2>10 DEF IInv
<1>24. CASE ChildShortWrite
  <2>1. Flags'
      BY <1>24 DEF IInv, Flags, ChildShortWrite, Lock, pdUnchanged
  <2>2. Places'
      BY <1>24 DEF IInv, Places, ChildShortWrite, pdUnchanged
  <2>3. Mutex'
      BY <1>24 DEF IInv, Mutex, ChildShortWrite, Lock
  <2>4. Files'
      BY <1>24 DEF IInv, Files, Serving, ChildShortWrite
  <2>5. States'
      BY <1>24 DEF IInv, States, ChildShortWrite, pdUnchanged
  <2>6. Fifo'
      BY <1>24, WritesfAssumption DEF IInv, Fifo, Recording, Serving, ChildShortWrite,
          pdUnchanged
  <2>7. Content'
      BY <1>24 DEF IInv, Content, Recording, Serving, Files, ChildShortWrite
  <2>8. Flushed'
      BY <1>24 DEF IInv, Flushed, ChildShortWrite
  <2>9. Counters' /\ Signals' /\ Buffer'
      BY <1>24 DEF IInv, Counters, Signals, Buffer, ChildShortWrite, pdUnchanged, sigVars
  <2> QED BY <2>1, <2>2, <2>3, <2>4, <2>5, <2>6, <2>7, <2>8, <2>9 DEF IInv
<1>25. CASE ChildClose
  <2>1. Flags'
      BY <1>25 DEF IInv, Flags, ChildClose, Unlock, pdUnchanged
  <2>2. Places'
      BY <1>25 DEF IInv, Places, ChildClose, pdUnchanged
  <2>3. Mutex'
      BY <1>25 DEF IInv, Mutex, ChildClose, Unlock
  <2>4. Files'
      BY <1>25 DEF IInv, Files, ChildClose
  <2>5. States'
      BY <1>25 DEF IInv, States, ChildClose, pdUnchanged
  <2>6. Fifo'
      BY <1>25 DEF IInv, Fifo, Recording, Serving, ChildClose, pdUnchanged
  <2>7. Content'
      BY <1>25 DEF IInv, Content, Recording, Serving, ChildClose
  <2>8. Flushed'
      BY <1>25 DEF IInv, Flushed, ChildClose, pdUnchanged
  <2>9. Counters' /\ Signals' /\ Buffer'
      BY <1>25 DEF IInv, Counters, Signals, Buffer, ChildClose, pdUnchanged, sigVars
  <2> QED BY <2>1, <2>2, <2>3, <2>4, <2>5, <2>6, <2>7, <2>8, <2>9 DEF IInv
<1>26. CASE ChildClosed
  <2>1. Flags'
      BY <1>26 DEF IInv, Flags, ChildClosed, Answered, pdUnchanged
  <2>2. Places'
      BY <1>26 DEF IInv, Places, ChildClosed, Answered, Wake, pdUnchanged
  <2>3. Counters'
      BY <1>26 DEF IInv, Counters, Files, ChildClosed, Answered, pdUnchanged
  <2>4. Mutex'
      BY <1>26 DEF IInv, Mutex, ChildClosed, Answered
  <2>5. Files'
      BY <1>26 DEF IInv, Files, Serving, ChildClosed, Answered
  <2>6. States'
      BY <1>26 DEF IInv, States, ChildClosed, Answered, pdUnchanged
  <2>7. Fifo'
      BY <1>26 DEF IInv, Fifo, Recording, Serving, ChildClosed, Answered, pdUnchanged
  <2>8. Content'
      BY <1>26 DEF IInv, Content, Recording, Serving, ChildClosed, Answered
  <2>9. Flushed'
      BY <1>26 DEF IInv, Flushed, ChildClosed
  <2>10. Signals' /\ Buffer'
      BY <1>26 DEF IInv, Signals, Buffer, ChildClosed, Answered, pdUnchanged, sigVars
  <2> QED BY <2>1, <2>2, <2>3, <2>4, <2>5, <2>6, <2>7, <2>8, <2>9, <2>10 DEF IInv
<1>27. CASE ChildNotOpen
  <2>1. Flags'
      BY <1>27 DEF IInv, Flags, ChildNotOpen, Answered, pdUnchanged
  <2>2. Places'
      BY <1>27 DEF IInv, Places, ChildNotOpen, Answered, Wake, pdUnchanged
  <2>3. Mutex'
      BY <1>27 DEF IInv, Mutex, ChildNotOpen, Answered
  <2>4. Files'
      BY <1>27 DEF IInv, Files, Serving, ChildNotOpen, Answered
  <2>5. States'
      BY <1>27 DEF IInv, States, ChildNotOpen, Answered, pdUnchanged
  <2>6. Fifo'
      BY <1>27 DEF IInv, Fifo, Recording, Serving, ChildNotOpen, Answered, pdUnchanged
  <2>7. Content'
      BY <1>27 DEF IInv, Content, Recording, Serving, ChildNotOpen, Answered
  <2>8. Flushed'
      BY <1>27 DEF IInv, Flushed, ChildNotOpen
  <2>9. Counters' /\ Signals' /\ Buffer'
      BY <1>27 DEF IInv, Counters, Signals, Buffer, ChildNotOpen, Answered, pdUnchanged, sigVars
  <2> QED BY <2>1, <2>2, <2>3, <2>4, <2>5, <2>6, <2>7, <2>8, <2>9 DEF IInv
<1>28. CASE SpuriousWakeup
  <2>1. Places'
      BY <1>28 DEF IInv, Places, SpuriousWakeup, Wake, childVars
  <2>2. Flags' /\ Counters' /\ Signals' /\ Mutex' /\ Files' /\ States' /\ Buffer' /\ Flushed'
      BY <1>28 DEF IInv, Flags, Counters, Signals, Mutex, Files, Serving, States, Buffer,
          Flushed, SpuriousWakeup, fifoVars, sigVars, childVars
  <2>3. Fifo'
      BY <1>28 DEF IInv, Fifo, Recording, Serving, SpuriousWakeup, fifoVars, childVars
  <2>4. Content'
      BY <1>28 DEF IInv, Content, Recording, Serving, Before, InFifo, Follows, SpuriousWakeup,
          fifoVars, childVars
  <2> QED BY <2>1, <2>2, <2>3, <2>4 DEF IInv
<1> QED BY <1>1, <1>2, <1>3, <1>4, <1>5, <1>6, <1>7, <1>8, <1>9, <1>10, <1>11, <1>12, <1>13,
    <1>14, <1>15, <1>16, <1>17, <1>18, <1>19, <1>20, <1>21, <1>22, <1>23, <1>24, <1>25,
    <1>26, <1>27, <1>28 DEF Next, writesf_perform, writesf_child_main

-----------------------------------------------------------------------------
(* The theorems.                                                           *)

\* The invariant implies the invariants that the run checks.
LEMMA IInvImplies == IInv => TypeOK /\ IdleIsClosed
<1> SUFFICES ASSUME IInv PROVE TypeOK /\ IdleIsClosed
    OBVIOUS
<1>1. x_fifosize \in 0 .. BUFSIZE
    BY FifoFacts, WritesfAssumption DEF IInv, Fifo
<1>2. TypeOK
    BY <1>1 DEF IInv, TypeOK, Flags, Places, Counters, Signals, Fifo, Buffer
<1>3. IdleIsClosed
    BY DEF IInv, IdleIsClosed, Files
<1> QED BY <1>2, <1>3

\* The invariant holds throughout.
LEMMA Invariance == Spec => []IInv
    BY InitIInv, NextIInv, PTL DEF Spec

\* The fifo's indices, the counters and the states of the threads stay in their types,
\* also after an overrun.
THEOREM TypeCorrect == Spec => []TypeOK
    BY Invariance, IInvImplies, PTL

\* When the child waits for a request, creates a file or has exited, the file before was
\* closed.
THEOREM ClosedWhenIdle == Spec => []IdleIsClosed
    BY Invariance, IInvImplies, PTL

\* What WritesInOrder and FlushedOnClose say of one step.
InOrderStep ==
    ~overrun =>
       \A k \in 0 .. written' - written - 1 : x_buf[x_fifotail + k] = <<c_open, written + k>>
FlushedStep ==
    (child = "close" /\ child' # child /\ ~x_fileerror /\ ~overrun) => written = recorded

\* Only ChildWrote adds to the file, and what it adds lies between tail and head.
LEMMA InOrder == IInv /\ [Next]_vars => [InOrderStep]_vars
<1> SUFFICES ASSUME IInv, Next, ~overrun, NEW k, k \in 0 .. written' - written - 1
             PROVE  x_buf[x_fifotail + k] = <<c_open, written + k>>
    BY DEF InOrderStep
<1>1. written \in Nat /\ written' \in Nat /\ written' > written
  <2>1. IInv'
      BY NextIInv
  <2>2. written \in Nat /\ written' \in Nat
      BY <2>1 DEF IInv, Counters
  <2>3. \A a, b \in Nat : k \in 0 .. b - a - 1 => b > a
      OBVIOUS
  <2> QED BY <2>2, <2>3, Zenon
<1>2. ChildWrote
  <2>1. written' # written /\ written' # 0
      BY <1>1
  <2> QED
    BY <2>1 DEF Next, writesf_perform, writesf_child_main, Answered, writesf_start,
        writesf_stop, writesf_dsp, OpenEnter, OpenWait, writesf_open, writesf_free, FreeWait,
        FreeJoin, PerformEnter, PerformWait, PerformStore, ChildLock, ChildNothing, ChildOpen,
        ChildCreateFailed, ChildCreated, ChildWrite, ChildFeedWait, ChildFeedLock, ChildFed,
        ChildShortWrite, ChildClose, ChildClosed, ChildNotOpen, SpuriousWakeup
<1>3. x_fifohead \in Nat /\ x_fifotail \in Nat /\ x_fifohead < FIFO /\ x_fifotail < FIFO
      /\ FIFO \in Nat /\ c_write \in Nat /\ x_fifotail + c_write <= FIFO
    BY <1>2 DEF IInv, Fifo, Recording, Serving, ChildWrote
<1>4. k \in Nat /\ k < c_write
    BY <1>1, <1>2, <1>3 DEF ChildWrote
<1>5. Before = written /\ c_open = opens /\ x_fifotail + k \in 0 .. FIFO - 1
      /\ (x_fifohead >= x_fifotail => x_fifotail + c_write <= x_fifohead)
    BY <1>2, <1>3, <1>4 DEF IInv, Files, Before, Content, Recording, Serving, ChildWrote
<1>6. Follows(x_fifotail + k)
    BY <1>2, <1>5 DEF IInv, Content, Recording, Serving, ChildWrote
<1>7. x_buf[x_fifotail + k] = <<opens, Before + ((x_fifotail + k) - x_fifotail)>>
    BY <1>3, <1>4, <1>5, <1>6 DEF Follows
<1> QED BY <1>1, <1>3, <1>4, <1>5, <1>7

\* Until the first overrun the file gets the recorded bytes, each once and in order.
THEOREM FileInOrder == Spec => WritesInOrder
<1>1. Spec => [][InOrderStep]_vars
  <2>1. Spec => []IInv /\ [][Next]_vars
      BY Invariance, PTL DEF Spec
  <2> QED BY <2>1, InOrder, PTL
<1> QED BY <1>1 DEF WritesInOrder, InOrderStep

\* A file closed because of "stop" or "open" holds everything that was recorded, unless
\* the disk failed or the buffer was overrun.
THEOREM FileComplete == Spec => FlushedOnClose
<1>1. IInv => [FlushedStep]_vars
    BY DEF IInv, Flushed, Files, FlushedStep
<1>2. Spec => [][FlushedStep]_vars
    BY <1>1, Invariance, PTL
<1> QED BY <1>2 DEF FlushedOnClose, FlushedStep
=============================================================================
