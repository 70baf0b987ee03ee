----------------------------- MODULE JackProofs -----------------------------
(***************************************************************************)
(* For every block, buffer and period size: jack_filled stays inside the   *)
(* buffers as long as the periods and the spurious wake-ups fit,           *)
(* jack_send_dacs copies into buffers that exist and alone, and no sample  *)
(* is lost or used twice without a message.                                *)
(***************************************************************************)
EXTENDS Jack, TLAPS

-----------------------------------------------------------------------------
(* The inductive invariant.                                                *)

\* The flags, which only Zenon reasons about.
Flags ==
    /\ audio \in BOOLEAN /\ jack_client \in BOOLEAN /\ active \in BOOLEAN
    /\ jack_started \in BOOLEAN /\ jack_dio_error \in BOOLEAN /\ allocated \in BOOLEAN
    /\ partial \in BOOLEAN /\ resized \in BOOLEAN /\ torn \in BOOLEAN
    /\ late \in BOOLEAN /\ freed \in BOOLEAN /\ overrun \in BOOLEAN /\ small \in BOOLEAN

Places ==
    /\ jack_mutex \in {"free", "pd", "process"}
    /\ pd \in {"idle", "opening", "lock", "asleep", "woken", "in", "copying"}
    /\ process \in {"idle", "in"}
    /\ shutdown \in {"idle", "closing", "freeing"}

Numbers ==
    /\ jack_filled \in Nat /\ jack_out_max \in Periods \union {0, BLK}
    /\ widest \in Periods \union {0, BLK} /\ jack_out_max <= widest
    /\ nframes \in Periods \union {0}
    /\ spurious \in 0 .. MaxSpurious

Contents == jack_outbuf \in [Slots -> Marks] /\ jack_inbuf \in [Slots -> Marks]

\* What the spurious wake-ups have let Pd write too early.
Extra == spurious * BLK

\* Before each block there is less than the widest period and what came too early: Pd has
\* looked at jack_out_max, or process has taken a period of at least a block, or one more
\* wake-up was spurious.
Room ==
    /\ ~overrun => jack_filled <= BUF_JACK
    /\ overrun => ~Fits
    /\ ~small => jack_filled < widest + BLK + Extra
    /\ (~small /\ (pd = "copying" \/ (pd \in {"woken", "in"} /\ jack_client))) =>
          jack_filled < widest + Extra

\* A server that calls process has a client, and a client has buffers.
Lifetimes ==
    /\ active => jack_client
    /\ process = "in" => active /\ nframes \in Periods /\ widest >= BLK
    /\ (process = "in" /\ ~small) => nframes >= BLK
    /\ ~freed => (jack_client => allocated) /\ (pd = "copying" => allocated)

\* The holders of the mutex.
Mutex ==
    (~torn /\ ~freed) =>
        /\ pd \in {"in", "copying"} => jack_mutex = "pd"
        /\ process = "in" => jack_mutex = "process"

\* Undisturbed, the output up to jack_filled is fresh and the input up to it is taken.
HalfAt(s) ==
    /\ jack_outbuf[s] = "new" => s < jack_filled
    /\ jack_outbuf[s] \in {"taken", "stale"} => s >= jack_filled
    /\ jack_inbuf[s] = "new" => s >= jack_filled /\ s < nframes
    /\ jack_inbuf[s] = "taken" => s < jack_filled
Halves == (~partial /\ ~resized) => \A s \in Slots : HalfAt(s)

\* What Pd has written for a server that is running, it has written since the start.
Started == active => \A s \in Slots : jack_outbuf[s] = "new" => jack_started

IInv ==
    /\ Flags /\ Places /\ Numbers /\ Contents
    /\ Room /\ Lifetimes /\ Mutex /\ Halves /\ Started

\* The numbers, as numbers.
Rooms ==
    /\ BLK \in Nat \ {0} /\ BUF_JACK \in Nat \ {0} /\ Extra \in Nat
    /\ jack_filled \in Nat /\ jack_out_max \in Nat /\ widest \in Nat /\ nframes \in Nat
    /\ spurious \in Nat
    /\ \A n \in Periods : n \in Nat \ {0}

\* From the assumption on the sizes.
LEMMA NumberFacts == Numbers => Rooms
<1> SUFFICES ASSUME Numbers PROVE Rooms
    OBVIOUS
<1>1. BLK \in Nat \ {0} /\ BUF_JACK \in Nat \ {0} /\ MaxSpurious \in Nat
      /\ \A n \in Periods : n \in Nat \ {0}
    BY JackAssumption
<1>2. spurious \in Nat
    BY <1>1 DEF Numbers
<1>3. \A a, b \in Nat : a * b \in Nat
    BY SMT
<1>4. Extra \in Nat
    BY <1>1, <1>2, <1>3 DEF Extra
<1> QED BY <1>1, <1>2, <1>4 DEF Rooms, Numbers

\* A spurious wake-up lets a block in.
LEMMA ExtraStep ==
    ASSUME Numbers, SpuriousWakeup
    PROVE  Extra' = Extra + BLK
<1>1. \A a, b \in Nat : (a + 1) * b = a * b + b
    BY SMT
<1>2. spurious \in Nat /\ BLK \in Nat
    BY NumberFacts DEF Rooms
<1>3. spurious' = spurious + 1
    BY DEF SpuriousWakeup
<1>4. (spurious + 1) * BLK = spurious * BLK + BLK
    BY <1>1, <1>2
<1> QED BY <1>3, <1>4 DEF Extra

\* What Fits says, with the product taken apart.
LEMMA FitsFacts ==
    ASSUME Numbers
    PROVE  Fits <=> (~small /\ widest + Extra + BLK - 1 <= BUF_JACK)
<1>1. \A a, b \in Nat : (a + 1) * b = a * b + b
    BY SMT
<1>2. Rooms
    BY NumberFacts
<1>3. (spurious + 1) * BLK = Extra + BLK
    BY <1>1, <1>2 DEF Rooms, Extra
<1> QED BY <1>2, <1>3 DEF Fits, Rooms

\* At the start nothing is open, nothing is written and no wake-up is spent.
LEMMA InitIInv == Init => IInv
<1> SUFFICES ASSUME Init PROVE IInv
    OBVIOUS
<1>1. Flags /\ Places /\ Lifetimes /\ Mutex /\ Started
    BY DEF Init, Flags, Places, Lifetimes, Mutex, Started
<1>2. Numbers
    BY JackAssumption DEF Init, Numbers
<1>3. Contents /\ Halves
    BY DEF Init, Contents, Halves, HalfAt, Marks
<1>4. Room
    BY <1>2, NumberFacts DEF Init, Rooms, Room
<1> QED BY <1>1, <1>2, <1>3, <1>4 DEF IInv

-----------------------------------------------------------------------------
(* Each action preserves it.                                               *)

\* Every step of the four threads preserves the invariant.
LEMMA NextIInv == IInv /\ [Next]_vars => IInv'
<1> SUFFICES ASSUME IInv, [Next]_vars PROVE IInv'
    OBVIOUS
<1>1. Rooms
    BY NumberFacts DEF IInv
<1>2. CASE UNCHANGED vars
    BY <1>2 DEF vars, client, stream, server, faults, history, IInv, Flags, Places, Numbers,
        Contents, Room, Extra, Fits, Lifetimes, Mutex, Halves, HalfAt, Started
<1>3. CASE ~freed /\ ~overrun /\ OpenNew
    <2>1. Flags'
        BY <1>3 DEF IInv, Flags, OpenNew, faults, history
    <2>2. Places'
        BY <1>3 DEF IInv, Places, OpenNew, history
    <2>3. Numbers'
        BY <1>3 DEF IInv, Numbers, OpenNew, faults, history
    <2>4. Contents'
        BY <1>3 DEF Contents, Marks, OpenNew, Allocate, history
    <2>5. Room'
        BY <1>1, <1>3 DEF IInv, Room, Extra, Fits, OpenNew, faults, history
    <2>6. Lifetimes'
        BY <1>3 DEF IInv, Lifetimes, OpenNew, history
    <2>7. Mutex'
        BY <1>3 DEF IInv, Mutex, OpenNew, faults, history
    <2>8. Halves'
        BY <1>3 DEF Halves, HalfAt, OpenNew, Allocate, history
    <2>9. Started'
        BY <1>3 DEF Started, OpenNew, Allocate, history
    <2> QED BY <2>1, <2>2, <2>3, <2>4, <2>5, <2>6, <2>7, <2>8, <2>9 DEF IInv
<1>3a. CASE ~freed /\ ~overrun /\ OpenFailed
    <2>1. Flags'
        BY <1>3a DEF IInv, Flags, OpenFailed, client, faults, history
    <2>2. Places' /\ Numbers' /\ Contents' /\ Room' /\ Lifetimes' /\ Mutex' /\ Halves' /\
            Started'
        BY <1>3a DEF IInv, Places, Numbers, Contents, Room, Lifetimes, Mutex, Halves, HalfAt,
            Started, Extra, Fits, OpenFailed, client, buffers, server, faults, history
    <2> QED BY <2>1, <2>2 DEF IInv
<1>4. CASE ~freed /\ ~overrun /\ OpenInit
    <2>1. Flags'
        BY <1>4 DEF IInv, Flags, OpenInit, stream, history
    <2>2. Places'
        BY <1>4 DEF IInv, Places, OpenInit, server, history
    <2>3. Room'
        BY <1>1, <1>4 DEF IInv, Room, Extra, Fits, OpenInit, stream, history
    <2>4. Lifetimes'
        BY <1>4 DEF IInv, Lifetimes, OpenInit, server, history
    <2>5. Mutex'
        BY <1>4 DEF IInv, Mutex, OpenInit, server, history
    <2>6. Numbers' /\ Contents' /\ Halves' /\ Started'
        BY <1>4 DEF IInv, Numbers, Contents, Halves, HalfAt, Started, OpenInit, stream,
            server, history
    <2> QED BY <2>1, <2>2, <2>3, <2>4, <2>5, <2>6 DEF IInv
<1>5. CASE ~freed /\ ~overrun /\ OpenAgain
    <2>1. Flags'
        BY <1>5 DEF IInv, Flags, OpenAgain, faults, history
    <2>2. Places' /\ Numbers' /\ Contents' /\ Room' /\ Lifetimes' /\ Mutex' /\ Halves' /\
            Started'
        BY <1>5 DEF IInv, Places, Numbers, Contents, Room, Lifetimes, Mutex, Halves, HalfAt,
            Started, Extra, Fits, OpenAgain, buffers, server, faults, history
    <2> QED BY <2>1, <2>2 DEF IInv
<1>6. CASE ~freed /\ ~overrun /\ Close
    <2>1. Flags'
        BY <1>6 DEF IInv, Flags, Close, faults, history
    <2>2. Places'
        BY <1>6 DEF IInv, Places, Close, Broadcast, server, history
    <2>3. Room'
        BY <1>1, <1>6 DEF IInv, Room, Extra, Fits, Close, Broadcast, faults, history
    <2>4. Lifetimes'
        BY <1>6 DEF Lifetimes, Close, Broadcast, server, history
    <2>5. Mutex'
        BY <1>6 DEF Mutex, Close, Broadcast, server, history
    <2>6. Started'
        BY <1>6 DEF Started, Close
    <2>7. Numbers' /\ Contents' /\ Halves'
        BY <1>6 DEF IInv, Numbers, Contents, Halves, HalfAt, Close, buffers, server, faults, history
    <2> QED BY <2>1, <2>2, <2>3, <2>4, <2>5, <2>6, <2>7 DEF IInv
<1>7. CASE ~freed /\ ~overrun /\ SendEnter
    <2>1. Flags'
        BY <1>7 DEF IInv, Flags, SendEnter, client, faults, history
    <2>2. Places'
        BY <1>7 DEF IInv, Places, SendEnter, server, history
    <2>3. Room'
        BY <1>1, <1>7 DEF IInv, Room, Extra, Fits, SendEnter, faults, history
    <2>4. Lifetimes'
        BY <1>7 DEF IInv, Lifetimes, SendEnter, client, server, history
    <2>5. Mutex'
        BY <1>7 DEF IInv, Mutex, SendEnter, server, faults, history
    <2>6. Numbers' /\ Contents' /\ Halves' /\ Started'
        BY <1>7 DEF IInv, Numbers, Contents, Halves, HalfAt, Started, SendEnter, client,
            buffers, server, faults, history
    <2> QED BY <2>1, <2>2, <2>3, <2>4, <2>5, <2>6 DEF IInv
<1>8. CASE ~freed /\ ~overrun /\ SendLock
    <2>1. Places'
        BY <1>8 DEF IInv, Places, SendLock, server, history
    <2>2. Room'
        BY JackAssumption, <1>1, <1>8 DEF IInv, Room, Extra, Fits, Numbers, SendLock, Full, stream,
            faults, history
    <2>3. Lifetimes'
        BY <1>8 DEF IInv, Lifetimes, SendLock, client, server, history
    <2>4. Mutex'
        BY <1>8 DEF IInv, Mutex, SendLock, server, faults, history
    <2>5. Flags' /\ Numbers' /\ Contents' /\ Halves' /\ Started'
        BY <1>8 DEF IInv, Flags, Numbers, Contents, Halves, HalfAt, Started, SendLock, client,
            stream, server, faults, history
    <2> QED BY <2>1, <2>2, <2>3, <2>4, <2>5 DEF IInv
<1>9. CASE ~freed /\ ~overrun /\ SpuriousWakeup
    <2>1. Places'
        BY <1>9 DEF IInv, Places, SpuriousWakeup, server, history
    <2>2. Numbers'
        BY JackAssumption, <1>9 DEF IInv, Numbers, SpuriousWakeup, stream, server, history
    <2>3. Room'
      <3>1. Extra' = Extra + BLK
          BY <1>9, ExtraStep DEF IInv
      <3>2. UNCHANGED <<jack_filled, widest, small, overrun>>
          BY <1>9 DEF SpuriousWakeup, stream, history
      <3> QED BY <1>1, <1>9, <3>1, <3>2 DEF IInv, Room, Rooms
    <2>4. Lifetimes'
        BY <1>9 DEF IInv, Lifetimes, SpuriousWakeup, client, server, history
    <2>5. Mutex'
        BY <1>9 DEF IInv, Mutex, SpuriousWakeup, server, history
    <2>6. Flags' /\ Contents' /\ Halves' /\ Started'
        BY <1>9 DEF IInv, Flags, Contents, Halves, HalfAt, Started, SpuriousWakeup, client,
            stream, server, history
    <2> QED BY <2>1, <2>2, <2>3, <2>4, <2>5, <2>6 DEF IInv
<1>10. CASE ~freed /\ ~overrun /\ SendRelock
    <2>1. Places'
        BY <1>10 DEF IInv, Places, SendRelock, server, history
    <2>2. Room'
        BY <1>1, <1>10 DEF IInv, Room, Extra, Fits, SendRelock, client, stream, faults, history
    <2>3. Lifetimes'
        BY <1>10 DEF IInv, Lifetimes, SendRelock, client, server, history
    <2>4. Mutex'
        BY <1>10 DEF IInv, Mutex, SendRelock, server, faults, history
    <2>5. Flags' /\ Numbers' /\ Contents' /\ Halves' /\ Started'
        BY <1>10 DEF IInv, Flags, Numbers, Contents, Halves, HalfAt, Started, SendRelock,
            client, stream, server, faults, history
    <2> QED BY <2>1, <2>2, <2>3, <2>4, <2>5 DEF IInv
<1>11. CASE ~freed /\ ~overrun /\ SendCheck
    <2>1. Flags'
        BY <1>11 DEF IInv, Flags, SendCheck, client, stream, history
    <2>2. Places'
        BY <1>11 DEF IInv, Places, SendCheck, server, history
    <2>3. Room'
        BY <1>1, <1>11 DEF IInv, Room, Extra, Fits, SendCheck, stream, history
    <2>4. Lifetimes'
        BY <1>11 DEF IInv, Lifetimes, SendCheck, client, server, history
    <2>5. Mutex'
        BY <1>11 DEF IInv, Mutex, SendCheck, server, history
    <2>6. Numbers' /\ Contents' /\ Halves' /\ Started'
        BY <1>11 DEF IInv, Numbers, Contents, Halves, HalfAt, Started, SendCheck, client,
            stream, server, history
    <2> QED BY <2>1, <2>2, <2>3, <2>4, <2>5, <2>6 DEF IInv
<1>12. CASE ~freed /\ ~overrun /\ SendCopy
    <2>1. Flags'
        BY <1>12 DEF IInv, Flags, SendCopy, client, faults, history
    <2>2. Places'
        BY <1>12 DEF IInv, Places, SendCopy, server, history
    <2>3. Numbers'
        BY JackAssumption, <1>12 DEF IInv, Numbers, SendCopy, server, faults, history
    <2>4. Contents'
        BY <1>12 DEF IInv, Contents, Marks, SendCopy, history
    <2>5. Room'
      <3>1. jack_filled' = jack_filled + BLK /\ overrun' = (jack_filled + BLK > BUF_JACK)
            /\ UNCHANGED <<widest, small, spurious>> /\ pd' = "idle"
          BY <1>12 DEF SendCopy, history
      <3>2. ~small => jack_filled < widest + Extra
          BY <1>12 DEF IInv, Room, SendCopy
      <3>3. Extra' = Extra /\ (Fits' <=> Fits)
          BY <3>1 DEF Extra, Fits
      <3>4. Fits <=> (~small /\ widest + Extra + BLK - 1 <= BUF_JACK)
          BY FitsFacts DEF IInv
      <3>5. overrun' => ~Fits'
        <4>1. overrun' => jack_filled + BLK > BUF_JACK
            BY <3>1, Zenon
        <4>2. jack_filled + BLK > BUF_JACK => ~Fits
            BY <1>1, <3>2, <3>4 DEF Rooms
        <4> QED BY <3>3, <4>1, <4>2
      <3>6. ~overrun' => jack_filled' <= BUF_JACK
        <4>1. ~overrun' => ~(jack_filled + BLK > BUF_JACK)
            BY <3>1, Zenon
        <4>2. ~(jack_filled + BLK > BUF_JACK) => jack_filled + BLK <= BUF_JACK
            BY <1>1 DEF Rooms
        <4> QED BY <3>1, <4>1, <4>2
      <3>7. ~small' => jack_filled' < widest' + BLK + Extra'
          BY <1>1, <3>1, <3>2, <3>3 DEF Rooms
      <3> QED BY <3>1, <3>5, <3>6, <3>7 DEF Room
    <2>6. Lifetimes'
        BY <1>12 DEF IInv, Lifetimes, SendCopy, client, server, history
    <2>7. Mutex'
        BY <1>12 DEF IInv, Mutex, SendCopy, server, faults, history
    <2>8. Halves'
        BY JackAssumption, <1>12 DEF IInv, Halves, HalfAt, Slots, Numbers, SendCopy, Block,
            server, faults, history
    <2>9. Started'
        BY <1>12 DEF Started, SendCopy
    <2> QED BY <2>1, <2>2, <2>3, <2>4, <2>5, <2>6, <2>7, <2>8, <2>9 DEF IInv
<1>13. ASSUME NEW n \in Periods, ~freed, ~overrun, ProcessLock(n) PROVE IInv'
    <2>1. Flags'
        BY <1>13 DEF IInv, Flags, ProcessLock, client, history
    <2>2. Places'
        BY <1>13 DEF IInv, Places, ProcessLock, history
    <2>3. Numbers'
      <3>1. jack_out_max' = (IF n > BLK THEN n ELSE BLK) /\ nframes' = n
            /\ widest' = (IF jack_out_max' > widest THEN jack_out_max' ELSE widest)
            /\ UNCHANGED <<jack_filled, spurious>>
          BY <1>13 DEF ProcessLock
      <3>2. jack_out_max' \in Periods \union {0, BLK} /\ widest' \in Periods \union {0, BLK}
          BY <1>13, <3>1 DEF IInv, Numbers
      <3>3. jack_out_max' <= widest'
          BY <1>1, <1>13, <3>1 DEF Rooms
      <3> QED BY <1>13, <3>1, <3>2, <3>3 DEF IInv, Numbers
    <2>4. Lifetimes'
      <3>1. nframes' = n /\ small' = (small \/ n < BLK)
            /\ jack_out_max' >= BLK /\ widest' >= jack_out_max' /\ widest' \in Nat
          BY <1>1, <1>13 DEF ProcessLock, Rooms
      <3>2. widest' >= BLK
          BY <1>1, <1>13, <3>1 DEF Rooms, ProcessLock
      <3>3. ~small' => nframes' >= BLK
        <4>1. ~small' => ~(n < BLK)
            BY <3>1, Zenon
        <4> QED BY <1>1, <1>13, <3>1, <4>1 DEF Rooms
      <3> QED BY <1>13, <3>1, <3>2, <3>3 DEF IInv, Lifetimes, ProcessLock, client
    <2>5. Mutex'
        BY <1>13 DEF IInv, Mutex, ProcessLock, history
    <2>6. Halves'
        <3> SUFFICES ASSUME ~partial', ~resized', NEW s \in Slots PROVE HalfAt(s)'
            BY Zenon DEF Halves
        <3>1. ~partial /\ ~resized /\ nframes \in {0, n}
            BY <1>13, Zenon DEF ProcessLock, history
        <3>2. nframes' = n /\ jack_filled' = jack_filled
              /\ jack_outbuf' = jack_outbuf /\ jack_inbuf' = jack_inbuf
            BY <1>13 DEF ProcessLock, buffers, history
        <3>3. HalfAt(s)
            BY <3>1, Zenon DEF IInv, Halves
        <3>4. s \in Nat /\ n \in Nat /\ jack_filled \in Nat
            BY JackAssumption DEF Slots, IInv, Numbers
        <3> QED BY <3>1, <3>2, <3>3, <3>4 DEF HalfAt
    <2>7. Contents' /\ Started'
        BY <1>13 DEF IInv, Contents, Started, ProcessLock, client, buffers
    <2>8. Room'
      <3>1. UNCHANGED <<jack_filled, spurious, overrun, pd, jack_client>>
          BY <1>13 DEF ProcessLock, client
      <3>2. widest' >= widest /\ widest' \in Nat
          BY <1>1, <1>13 DEF ProcessLock, Rooms
      <3>3. Extra' = Extra
          BY <3>1 DEF Extra
      <3>4. ~small' => ~small
          BY <1>13, Zenon DEF ProcessLock
      <3>5. ~small => jack_filled < widest + BLK + Extra
          BY DEF IInv, Room
      <3>6. (~small /\ (pd = "copying" \/ (pd \in {"woken", "in"} /\ jack_client))) =>
                jack_filled < widest + Extra
          BY DEF IInv, Room
      <3> DEFINE early == pd = "copying" \/ (pd \in {"woken", "in"} /\ jack_client)
      <3>0. PICK a, w, v, e, b \in Nat :
                a = jack_filled /\ w = widest /\ v = widest' /\ e = Extra /\ b = BLK
          BY <1>1, <3>2 DEF Rooms
      <3>a. v >= w
          BY <3>0, <3>2
      <3>7. ~small' => jack_filled' < widest' + BLK + Extra'
        <4>1. ~small' => a < w + b + e
            BY <3>0, <3>4, <3>5
        <4>2. a < w + b + e => a < v + b + e
            BY <3>a
        <4> QED BY <3>0, <3>1, <3>3, <4>1, <4>2
      <3>8. (~small' /\ (pd' = "copying" \/ (pd' \in {"woken", "in"} /\ jack_client'))) =>
                jack_filled' < widest' + Extra'
        <4>1. (~small' /\ early) => a < w + e
            BY <3>0, <3>4, <3>6
        <4>2. a < w + e => a < v + e
            BY <3>a
        <4>3. early' => early
            BY <3>1
        <4> QED BY <3>0, <3>1, <3>3, <4>1, <4>2, <4>3
      <3> QED BY <1>13, <3>1, <3>7, <3>8 DEF IInv, Room
    <2> QED BY <2>1, <2>2, <2>3, <2>4, <2>5, <2>6, <2>7, <2>8 DEF IInv
<1>14. CASE ~freed /\ ~overrun /\ ProcessPlay
    <2>1. Flags'
        BY <1>14 DEF IInv, Flags, ProcessPlay, client, history
    <2>2. Places'
        BY <1>14 DEF IInv, Places, ProcessPlay, Broadcast, history
    <2>3. Numbers'
        BY JackAssumption, <1>14 DEF IInv, Numbers, ProcessPlay, Enough, history
    <2>4. Contents'
        BY <1>14 DEF IInv, Contents, Marks, ProcessPlay, history
    <2>5. Room'
        BY JackAssumption, <1>1, <1>14 DEF IInv, Room, Extra, Fits, Numbers, Lifetimes,
            ProcessPlay, history
    <2>6. Lifetimes'
        BY <1>14 DEF IInv, Lifetimes, ProcessPlay, client, history
    <2>7. Mutex'
        BY <1>14 DEF IInv, Mutex, ProcessPlay, Broadcast, history
    <2>8. Halves'
        <3> SUFFICES ASSUME ~partial', ~resized', NEW s \in Slots PROVE HalfAt(s)'
            BY Zenon DEF Halves
        <3>1. ~partial /\ ~resized /\ jack_filled = nframes
            BY <1>14, Zenon DEF ProcessPlay, history
        <3>2. HalfAt(s)
            BY <3>1, Zenon DEF IInv, Halves
        <3>3. s \in Nat /\ nframes \in Nat /\ jack_filled \in Nat
            BY JackAssumption DEF Slots, IInv, Numbers
        <3>4. jack_filled' = 0 /\ nframes' = nframes
              /\ jack_outbuf'[s] = (IF s < nframes /\ jack_outbuf[s] = "new" THEN "taken"
                                    ELSE jack_outbuf[s])
              /\ jack_inbuf'[s] = (IF s < nframes THEN "new" ELSE jack_inbuf[s])
            BY <1>14, <3>1, <3>3 DEF ProcessPlay, history
        <3> QED BY <3>1, <3>2, <3>3, <3>4 DEF HalfAt
    <2>9. Started'
        BY <1>14 DEF IInv, Started, ProcessPlay, client, history
    <2> QED BY <2>1, <2>2, <2>3, <2>4, <2>5, <2>6, <2>7, <2>8, <2>9 DEF IInv
<1>15. CASE ~freed /\ ~overrun /\ ProcessUnderrun
    <2>1. Flags'
        BY <1>15 DEF IInv, Flags, ProcessUnderrun, client, faults, history
    <2>2. Places'
        BY <1>15 DEF IInv, Places, ProcessUnderrun, Broadcast, history
    <2>3. Numbers'
        BY <1>15 DEF IInv, Numbers, ProcessUnderrun, faults, history
    <2>4. Contents'
        BY <1>15 DEF Contents, Marks, ProcessUnderrun
    <2>5. Room'
      <3>1. UNCHANGED <<spurious, overrun, widest, small>> /\ jack_filled' = 0
          BY <1>15 DEF ProcessUnderrun, faults, history
      <3>2. Extra' = Extra
          BY <3>1 DEF Extra
      <3>3. widest >= BLK
          BY <1>15 DEF IInv, Lifetimes, ProcessUnderrun
      <3> QED BY <1>1, <1>15, <3>1, <3>2, <3>3 DEF Room, Rooms
    <2>6. Lifetimes'
        BY <1>15 DEF IInv, Lifetimes, ProcessUnderrun, client, history
    <2>7. Mutex'
        BY <1>15 DEF IInv, Mutex, ProcessUnderrun, Broadcast, faults, history
    <2>8. Halves'
        BY <1>15 DEF Halves, HalfAt, ProcessUnderrun, history
    <2>9. Started'
        BY <1>15 DEF Started, ProcessUnderrun
    <2> QED BY <2>1, <2>2, <2>3, <2>4, <2>5, <2>6, <2>7, <2>8, <2>9 DEF IInv
<1>16. CASE ~freed /\ ~overrun /\ Xrun
    <2>1. Flags'
        BY <1>16 DEF IInv, Flags, Xrun, client, faults, history
    <2>2. Places' /\ Numbers' /\ Contents' /\ Room' /\ Lifetimes' /\ Mutex' /\ Halves' /\
            Started'
        BY <1>16 DEF IInv, Places, Numbers, Contents, Room, Lifetimes, Mutex, Halves, HalfAt,
            Started, Extra, Fits, Xrun, client, buffers, server, faults, history
    <2> QED BY <2>1, <2>2 DEF IInv
<1>17. CASE ~freed /\ ~overrun /\ ShutdownClient
    <2>1. Flags'
        BY <1>17 DEF IInv, Flags, ShutdownClient, stream, faults, history
    <2>2. Places'
        BY <1>17 DEF IInv, Places, ShutdownClient, history
    <2>3. Room'
        BY <1>1, <1>17 DEF IInv, Room, Extra, Fits, ShutdownClient, stream, faults, history
    <2>4. Lifetimes'
        BY <1>17 DEF IInv, Lifetimes, ShutdownClient, history
    <2>5. Started'
        BY <1>17 DEF Started, ShutdownClient
    <2>6. Numbers' /\ Contents' /\ Mutex' /\ Halves'
        BY <1>17 DEF IInv, Numbers, Contents, Mutex, Halves, HalfAt, ShutdownClient, stream,
            faults, history
    <2> QED BY <2>1, <2>2, <2>3, <2>4, <2>5, <2>6 DEF IInv
<1>18. CASE ~freed /\ ~overrun /\ ShutdownClose
    <2>1. Flags'
        BY <1>18 DEF IInv, Flags, ShutdownClose, history
    <2>2. Places'
        BY <1>18 DEF IInv, Places, ShutdownClose, Broadcast, history
    <2>3. Room'
        BY <1>1, <1>18 DEF IInv, Room, Extra, Fits, ShutdownClose, Broadcast, history
    <2>4. Lifetimes'
        BY <1>18 DEF IInv, Lifetimes, ShutdownClose, Broadcast, history
    <2>5. Mutex'
        BY <1>18 DEF IInv, Mutex, ShutdownClose, Broadcast, history
    <2>6. Started'
        BY <1>18 DEF IInv, Started, ShutdownClose, buffers, history
    <2>7. Numbers' /\ Contents' /\ Halves'
        BY <1>18 DEF IInv, Numbers, Contents, Halves, HalfAt, ShutdownClose, buffers, history
    <2> QED BY <2>1, <2>2, <2>3, <2>4, <2>5, <2>6, <2>7 DEF IInv
<1>19. CASE ~freed /\ ~overrun /\ ShutdownFree
    <2>1. Flags'
        BY <1>19 DEF IInv, Flags, ShutdownFree, stream, history
    <2>2. Places'
        BY <1>19 DEF IInv, Places, ShutdownFree, history
    <2>3. Lifetimes'
        BY <1>19 DEF IInv, Lifetimes, ShutdownFree, history
    <2>4. Mutex'
        BY <1>19 DEF IInv, Mutex, Lifetimes, ShutdownFree, history
    <2>5. Numbers' /\ Contents' /\ Room' /\ Halves' /\ Started'
        BY <1>19 DEF IInv, Numbers, Contents, Room, Halves, HalfAt, Started, Extra, Fits,
            ShutdownFree, stream, history
    <2> QED BY <2>1, <2>2, <2>3, <2>4, <2>5 DEF IInv
<1>20. QED
    BY <1>2, <1>3, <1>3a, <1>4, <1>5, <1>6, <1>7, <1>8, <1>9, <1>10, <1>11, <1>12, <1>13, <1>14,
        <1>15, <1>16, <1>17, <1>18, <1>19 DEF Next, jack_send_dacs, Process, Shutdown

-----------------------------------------------------------------------------
(* The theorems.                                                           *)

\* The invariant implies the properties that the run checks.
LEMMA IInvImplies == IInv => TypeOK /\ CopiesAreSafe
<1> SUFFICES ASSUME IInv PROVE TypeOK /\ CopiesAreSafe
    OBVIOUS
<1>1. Rooms
    BY NumberFacts DEF IInv
<1>2. TypeOK
  <2>1. {audio, jack_client, active, jack_started, jack_dio_error, allocated} \subseteq BOOLEAN
        /\ {partial, resized, torn, late, freed, overrun, small} \subseteq BOOLEAN
      BY Zenon DEF IInv, Flags
  <2>2. jack_filled \in Nat /\ (~overrun => jack_filled <= BUF_JACK)
      BY DEF IInv, Numbers, Room
  <2>3. {jack_out_max, widest} \subseteq Periods \union {0, BLK}
      BY Zenon DEF IInv, Numbers
  <2> QED BY <2>1, <2>2, <2>3 DEF TypeOK, IInv, Places, Numbers, Contents
<1>3. CopiesAreSafe
    BY DEF CopiesAreSafe, IInv, Room, Lifetimes, Mutex, Places
<1> QED BY <1>2, <1>3

\* jack_filled, jack_out_max, the buffers and the states of the threads stay in their
\* types, whatever the periods: jack_filled leaves the buffers only with an overrun.
THEOREM TypeCorrect == Spec => []TypeOK
<1>1. Spec => []IInv
    BY InitIInv, NextIInv, PTL DEF Spec
<1> QED BY <1>1, IInvImplies, PTL

\* For every set of periods, those below a block and those beyond the buffers included:
\* jack_send_dacs copies past the end of the buffers only if process was called for less
\* than a block or the widest period, the spurious wake-ups and a block exceed BUF_JACK;
\* and it copies into buffers that exist, and not while process copies.
THEOREM SafeCopies == Spec => []CopiesAreSafe
<1>1. Spec => []IInv
    BY InitIInv, NextIInv, PTL DEF Spec
<1> QED BY <1>1, IInvImplies, PTL

\* What NoneLostNoneTwice says of one step.
NoneLostStep ==
    Disturbed \/
      /\ (pd = "copying" /\ pd' = "idle") =>
            \A s \in Block : jack_outbuf[s] # "new" /\ jack_inbuf[s] # "taken"
      /\ (process = "in" /\ process' = "idle" /\ Enough) =>
            /\ \A s \in 0 .. nframes - 1 : jack_outbuf[s] \notin {"taken", "stale"}
            /\ \A s \in Slots : jack_inbuf[s] # "new"
      /\ (process = "in" /\ process' = "idle" /\ ~Enough) =>
            (jack_dio_error' \/ \A s \in Slots : jack_outbuf[s] # "new")

\* From the halves of the buffers, before each step.
LEMMA NoneLost == IInv /\ [Next]_vars => [NoneLostStep]_vars
<1> SUFFICES ASSUME IInv, Next, ~Disturbed PROVE NoneLostStep
    BY DEF NoneLostStep
<1>1. ~partial' /\ ~resized /\ ~torn /\ ~freed /\ ~overrun'
    BY DEF Disturbed
<1>2. jack_filled \in Nat /\ nframes \in Nat /\ BLK \in Nat /\ BUF_JACK \in Nat /\ Rooms
    BY NumberFacts DEF IInv, Rooms
<1>3. ASSUME pd = "copying", pd' = "idle"
      PROVE  \A s \in Block : jack_outbuf[s] # "new" /\ jack_inbuf[s] # "taken"
  <2>1. SendCopy
      BY <1>3 DEF Next, OpenNew, OpenFailed, OpenInit, OpenAgain, Close, jack_send_dacs, SendEnter,
          SendLock, SpuriousWakeup, SendRelock, SendCheck, Process, ProcessLock, ProcessPlay,
          ProcessUnderrun, Broadcast, Xrun, Shutdown, ShutdownClient, ShutdownClose,
          ShutdownFree
  <2>2. ~partial
      BY <1>1, <2>1, Zenon DEF SendCopy, faults, history
  <2>3. \A s \in Block : s \in Slots /\ s >= jack_filled
    <3>1. jack_filled + BLK <= BUF_JACK
      <4>1. ~(jack_filled + BLK > BUF_JACK)
          BY <1>1, <2>1, Zenon DEF SendCopy
      <4> QED BY <1>2, <4>1 DEF Rooms
    <3> QED BY <1>2, <3>1 DEF Block, Slots, Rooms
  <2>4. \A s \in Slots : HalfAt(s)
      BY <1>1, <2>2, Zenon DEF IInv, Halves
  <2> QED BY <1>2, <2>3, <2>4 DEF HalfAt, Slots
<1>4. ASSUME process = "in", process' = "idle"
      PROVE  ProcessPlay \/ ProcessUnderrun
    BY <1>4 DEF Next, OpenNew, OpenFailed, OpenInit, OpenAgain, Close, jack_send_dacs, SendEnter,
        SendLock, SpuriousWakeup, SendRelock, SendCheck, SendCopy, Process, ProcessLock, server, Xrun,
        Shutdown, ShutdownClient, ShutdownClose, ShutdownFree
<1>5. ASSUME process = "in", process' = "idle", Enough
      PROVE  /\ \A s \in 0 .. nframes - 1 : jack_outbuf[s] \notin {"taken", "stale"}
             /\ \A s \in Slots : jack_inbuf[s] # "new"
  <2>1. ProcessPlay
      BY <1>4, <1>5 DEF ProcessUnderrun
  <2>2. ~partial /\ jack_filled = nframes
      BY <1>1, <2>1, Zenon DEF ProcessPlay
  <2>3. \A s \in Slots : HalfAt(s)
      BY <1>1, <2>2, Zenon DEF IInv, Halves
  <2>4. \A s \in 0 .. nframes - 1 : s \in Slots /\ s < jack_filled
    <3>1. jack_filled <= BUF_JACK
        BY DEF IInv, Room, Next
    <3> QED BY <1>2, <2>2, <3>1 DEF Slots, Rooms
  <2> QED BY <1>2, <2>2, <2>3, <2>4 DEF HalfAt, Slots
<1>6. ASSUME process = "in", process' = "idle", ~Enough
      PROVE  jack_dio_error' \/ \A s \in Slots : jack_outbuf[s] # "new"
  <2>1. ProcessUnderrun /\ active
      BY <1>4, <1>6 DEF ProcessPlay, IInv, Lifetimes
  <2>2. jack_dio_error' = (jack_dio_error \/ jack_started)
      BY <2>1 DEF ProcessUnderrun
  <2> QED BY <2>1, <2>2, Zenon DEF IInv, Started
<1> QED BY <1>3, <1>5, <1>6 DEF NoneLostStep

\* Pd overwrites no output that was not played and reads no input twice, and process
\* plays nothing twice, overwrites no unread input and reports what it discards, but for
\* partial reads, changes of the period and torn locks.
THEOREM NoLossNoDuplicate == Spec => NoneLostNoneTwice
<1>1. Spec => [][NoneLostStep]_vars
  <2>1. Spec => []IInv /\ [][Next]_vars
      BY InitIInv, NextIInv, PTL DEF Spec
  <2> QED BY <2>1, NoneLost, PTL
<1> QED BY <1>1 DEF NoneLostNoneTwice, NoneLostStep
=============================================================================
