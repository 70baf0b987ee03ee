----------------------------- MODULE SchedProofs -----------------------------
(***************************************************************************)
(* The clock list and logical time stay in order under every interleaving  *)
(* of the scheduler's threads, for every set of clocks, delays and other   *)
(* threads.  The inductive invariant ties the list to the lock: only a     *)
(* thread that holds sys_mutex is inside sched_tick (TicksAreExclusive),   *)
(* so that nobody moves sys_time between the start of a tick and the       *)
(* moment when it is set to next_sys_time (TickAhead), and therefore no    *)
(* clock is left behind (ListInOrder).                                     *)
(***************************************************************************)
EXTENDS Sched, ClockProofs, SequenceTheorems

\* The types of the variables other than the clocks'.
ControlTypeOK ==
    /\ pc \in [Threads -> Labels]
    /\ sys_mutex \in Threads \cup {"nobody"}
    /\ raced \in BOOLEAN
    /\ sys_quit \in {"GO", "QUIT", "RESTART"}
    /\ sched_useaudio \in {"NONE", "POLL", "CALLBACK"}
    /\ audio_state \in BOOLEAN /\ audio_callback \in BOOLEAN
    /\ devices \in BOOLEAN /\ cbstream \in BOOLEAN
    /\ next_sys_time \in [Threads -> Int]
    /\ countdown \in [Threads -> Nat]
    /\ timeforward \in {"NO", "YES", "SLEPT"}
    /\ idlecount \in Nat /\ timewas \in Nat
    /\ loop \in {"polling", "callback"}

Control == ControlTypeOK /\ TicksAreExclusive /\ TickAhead

IInv == ListOK /\ Control

\* The inductive invariant is at least what the runs check.
LEMMA IInvImplies == IInv => TypeOK /\ ClockList /\ TicksAreExclusive /\ TickAhead
    BY DEF IInv, Control, ControlTypeOK, ListOK, TypeOK, ClockList

\* The fixed threads are threads, and none of them is "nobody".
LEMMA ThreadFacts ==
    /\ "main" \in Threads /\ "audio" \in Threads /\ "nobody" \notin Threads
    /\ \A self \in Ext : self \in Threads /\ self # "main" /\ self # "audio"
    BY SchedAssumption DEF Threads

\* A step that touches no clock leaves the list in order.
LEMMA SameList == ASSUME ListOK, UNCHANGED clockVars PROVE ListOK'
    BY DEF ListOK, ClockTypeOK, ListIsSetClocks, ListInOrder, IsSet, clockVars

\* Pd starts with no clock set and no thread inside a tick.
LEMMA InitIInv == Init => IInv
<1> SUFFICES ASSUME Init PROVE IInv
    OBVIOUS
<1>1. ListOK
    BY DEF Init, ClockInit, ListOK, ClockTypeOK, ListIsSetClocks, ListInOrder, IsSet
<1>2. ControlTypeOK
  <2>1. pc \in [Threads -> Labels] /\ sys_mutex \in Threads \cup {"nobody"}
    BY DEF Init, Labels
  <2>2. audio_callback \in BOOLEAN /\ devices \in BOOLEAN /\ raced \in BOOLEAN
    BY SchedAssumption DEF Init
  <2>3. PICK opened \in BOOLEAN :
           /\ audio_state = opened /\ cbstream = (opened /\ audio_callback)
           /\ sched_useaudio = IF ~opened THEN "NONE"
                               ELSE IF audio_callback THEN "CALLBACK" ELSE "POLL"
    BY Zenon DEF Init
  <2>4. audio_state \in BOOLEAN /\ cbstream \in BOOLEAN
    BY <2>3
  <2>5. sched_useaudio \in {"NONE", "POLL", "CALLBACK"}
    BY <2>3
  <2>6. /\ next_sys_time \in [Threads -> Int] /\ countdown \in [Threads -> Nat]
        /\ sys_quit \in {"GO", "QUIT", "RESTART"}
        /\ timeforward \in {"NO", "YES", "SLEPT"}
        /\ idlecount \in Nat /\ timewas \in Nat /\ loop \in {"polling", "callback"}
    BY DEF Init
  <2> QED BY <2>1, <2>2, <2>4, <2>5, <2>6 DEF ControlTypeOK
<1>3. TicksAreExclusive /\ TickAhead
    BY DEF Init, TicksAreExclusive, TickAhead, LockedLabels, AccessLabels, HandlerLabels
<1> QED BY <1>1, <1>2, <1>3 DEF IInv, Control

-----------------------------------------------------------------------------
\* The steps outside sched_tick: the lock changes hands, the clocks stay.
LEMMA ControlStep ==
    ASSUME IInv,
           \/ Mainloop \/ PollEnter \/ PollTop \/ WaitAudio \/ WaitRealtime \/ SendDacs
           \/ Relock \/ RelockBug \/ PollDone \/ IdleDone \/ IdleRelock
           \/ CbTop \/ CbSlept \/ CbLock \/ CbTick \/ CbTicked
           \/ AudioCall \/ AudioTick \/ AudioDone
    PROVE  IInv'
<1> USE ThreadFacts, SchedAssumption
<1>0. ListOK /\ ControlTypeOK /\ TicksAreExclusive /\ TickAhead /\ sys_time \in Nat
    BY DEF IInv, Control, ListOK, ClockTypeOK
<1> SUFFICES UNCHANGED clockVars /\ Control'
    BY <1>0, SameList DEF IInv
<1> USE <1>0 DEF Control, ControlTypeOK, TicksAreExclusive, TickAhead, LockedLabels,
    AccessLabels, HandlerLabels, Labels, Goto, clockVars, audioVars, tickVars, loopVars
<1>1. CASE Mainloop
    BY <1>1 DEF Mainloop
<1>2. CASE PollEnter
    BY <1>2 DEF PollEnter, sys_lock
<1>3. CASE PollTop
    BY <1>3 DEF PollTop, sys_unlock
<1>4. CASE WaitAudio
    BY <1>4 DEF WaitAudio, sys_unlock
<1>5. CASE WaitRealtime
  <2>1. CASE timeforward' = "NO"
    <3>1. UNCHANGED clockVars
        BY <1>5, <2>1 DEF WaitRealtime
    <3>2. ControlTypeOK'
        BY <1>5, <2>1 DEF WaitRealtime, Forward, BeginTick
    <3>3. TicksAreExclusive'
        BY <1>5, <2>1 DEF WaitRealtime, Forward, BeginTick
    <3>4. TickAhead'
        BY <1>5, <2>1 DEF WaitRealtime, Forward, BeginTick
    <3> QED BY <3>1, <3>2, <3>3, <3>4
  <2>2. CASE timeforward' # "NO"
    <3>1. UNCHANGED clockVars
        BY <1>5, <2>2 DEF WaitRealtime
    <3>2. ControlTypeOK'
        BY <1>5, <2>2 DEF WaitRealtime, Forward, BeginTick
    <3>3. TicksAreExclusive'
        BY <1>5, <2>2 DEF WaitRealtime, Forward, BeginTick
    <3>4. TickAhead'
        BY <1>5, <2>2 DEF WaitRealtime, Forward, BeginTick
    <3> QED BY <3>1, <3>2, <3>3, <3>4
  <2> QED BY <2>1, <2>2
<1>6. CASE SendDacs
    BY <1>6 DEF SendDacs, TimeLeft
<1>7. CASE Relock
  <2>1. CASE timeforward = "NO"
    <3>1. UNCHANGED clockVars
        BY <1>7, <2>1 DEF Relock
    <3>2. ControlTypeOK'
        BY <1>7, <2>1 DEF Relock, Forward, BeginTick, Idles, CountIdle, sys_lock
    <3>3. TicksAreExclusive'
        BY <1>7, <2>1 DEF Relock, Forward, BeginTick, Idles, CountIdle, sys_lock
    <3>4. TickAhead'
        BY <1>7, <2>1 DEF Relock, Forward, BeginTick, Idles, CountIdle, sys_lock
    <3> QED BY <3>1, <3>2, <3>3, <3>4
  <2>2. CASE timeforward # "NO"
    <3>1. UNCHANGED clockVars
        BY <1>7, <2>2 DEF Relock
    <3>2. ControlTypeOK'
        BY <1>7, <2>2 DEF Relock, Forward, BeginTick, Idles, CountIdle, sys_lock
    <3>3. TicksAreExclusive'
        BY <1>7, <2>2 DEF Relock, Forward, BeginTick, Idles, CountIdle, sys_lock
    <3>4. TickAhead'
        BY <1>7, <2>2 DEF Relock, Forward, BeginTick, Idles, CountIdle, sys_lock
    <3> QED BY <3>1, <3>2, <3>3, <3>4
  <2> QED BY <2>1, <2>2
<1>8. CASE RelockBug
    BY <1>8 DEF RelockBug, Idles, CountIdle, sys_lock
<1>9. CASE PollDone
    BY <1>9 DEF PollDone, sys_unlock
<1>10. CASE IdleDone
    BY <1>10 DEF IdleDone
<1>11. CASE IdleRelock
    BY <1>11 DEF IdleRelock, sys_lock
<1>12. CASE CbTop
    BY <1>12 DEF CbTop
<1>13. CASE CbSlept
    BY <1>13 DEF CbSlept
<1>14. CASE CbLock
    BY <1>14 DEF CbLock, sys_lock
<1>15. CASE CbTick
    BY <1>15 DEF CbTick, BeginTick
<1>16. CASE CbTicked
    BY <1>16 DEF CbTicked, sys_unlock
<1>17. CASE AudioCall
    BY <1>17 DEF AudioCall
<1>18. CASE AudioTick
  <2>1. CASE TimeLeft
    <3>1. UNCHANGED clockVars
        BY <1>18, <2>1 DEF AudioTick
    <3>2. ControlTypeOK'
        BY <1>18, <2>1 DEF AudioTick, BeginTick, sys_lock
    <3>3. TicksAreExclusive'
        BY <1>18, <2>1 DEF AudioTick, BeginTick, sys_lock
    <3>4. TickAhead'
        BY <1>18, <2>1 DEF AudioTick, BeginTick, sys_lock
    <3> QED BY <3>1, <3>2, <3>3, <3>4
  <2>2. CASE ~TimeLeft
    <3>1. UNCHANGED clockVars
        BY <1>18, <2>2 DEF AudioTick
    <3>2. ControlTypeOK'
        BY <1>18, <2>2 DEF AudioTick, BeginTick, sys_lock
    <3>3. TicksAreExclusive'
        BY <1>18, <2>2 DEF AudioTick, BeginTick, sys_lock
    <3>4. TickAhead'
        BY <1>18, <2>2 DEF AudioTick, BeginTick, sys_lock
    <3> QED BY <3>1, <3>2, <3>3, <3>4
  <2> QED BY <2>1, <2>2
<1>19. CASE AudioDone
    BY <1>19 DEF AudioDone, sys_unlock
<1> QED BY <1>1, <1>2, <1>3, <1>4, <1>5, <1>6, <1>7, <1>8, <1>9, <1>10, <1>11, <1>12, <1>13, <1>14, <1>15, <1>16, <1>17, <1>18, <1>19

\* The main thread reopens audio, or closes audio that is stuck.
LEMMA AudioStepOK == ASSUME IInv, LoopDone \/ RelockStuck PROVE IInv'
<1> USE ThreadFacts, SchedAssumption
<1>0. ListOK /\ ControlTypeOK /\ TicksAreExclusive /\ TickAhead /\ sys_time \in Nat
    BY DEF IInv, Control, ListOK, ClockTypeOK
<1>1. UNCHANGED clockVars
    BY DEF LoopDone, RelockStuck, clockVars
<1>2. sched_useaudio' \in {"NONE", "POLL", "CALLBACK"}
    BY <1>0 DEF LoopDone, RelockStuck, sys_reopen_audio, sched_set_using_audio, ControlTypeOK
<1>3. audio_state' \in BOOLEAN /\ cbstream' \in BOOLEAN
    BY <1>0, Zenon DEF LoopDone, RelockStuck, sys_reopen_audio, ControlTypeOK
<1>4. /\ pc' \in [Threads -> Labels] /\ sys_mutex' \in Threads \cup {"nobody"}
      /\ sys_quit' \in {"GO", "QUIT", "RESTART"} /\ idlecount' \in Nat
    BY <1>0 DEF LoopDone, RelockStuck, ControlTypeOK, Labels, Goto, sys_lock, Idles, CountIdle,
        loopVars
<1>5. UNCHANGED <<raced, audio_callback, devices, next_sys_time, countdown, timeforward,
                  timewas, loop>>
    BY DEF LoopDone, RelockStuck, tickVars, loopVars
<1>6. ControlTypeOK'
    BY <1>0, <1>2, <1>3, <1>4, <1>5 DEF ControlTypeOK
<1>7. TicksAreExclusive'
    BY <1>0 DEF LoopDone, RelockStuck, ControlTypeOK, TicksAreExclusive, LockedLabels,
        AccessLabels, HandlerLabels, Goto, sys_lock
<1>8. TickAhead'
    BY <1>0, <1>1, <1>5 DEF LoopDone, RelockStuck, ControlTypeOK, TickAhead, Goto, clockVars
<1> QED BY <1>0, <1>1, <1>6, <1>7, <1>8, SameList DEF IInv, Control

\* Polling messages, and threads of externals that enter and leave.
LEMMA MessageStep ==
    ASSUME IInv, NEW self \in Threads,
           PollMessages(self) \/ (self \in Ext /\ (ExtLock(self) \/ ExtUnlock(self)))
    PROVE  IInv'
<1> USE ThreadFacts
<1>0. ListOK /\ ControlTypeOK /\ TicksAreExclusive /\ TickAhead /\ sys_time \in Nat
    BY DEF IInv, Control, ListOK, ClockTypeOK
<1> SUFFICES UNCHANGED clockVars /\ Control'
    BY <1>0, SameList DEF IInv
<1> USE <1>0 DEF Control, ControlTypeOK, TicksAreExclusive, TickAhead, LockedLabels,
    AccessLabels, HandlerLabels, Labels, Goto, clockVars, audioVars, tickVars, loopVars
<1>1. CASE PollMessages(self)
    BY <1>1 DEF PollMessages
<1>2. CASE ExtLock(self)
    BY <1>2 DEF ExtLock, sys_lock
<1>3. CASE ExtUnlock(self)
    BY <1>3 DEF ExtUnlock, sys_unlock
<1> QED BY <1>1, <1>2, <1>3

\* Inside sched_tick.  Only here does sys_time move, and only the thread that
\* ticks holds the lock.
LEMMA TickStep == ASSUME IInv, NEW self \in Threads, sched_tick(self) PROVE IInv'
<1> USE ThreadFacts, SchedAssumption
<1>0. ListOK /\ ControlTypeOK /\ TicksAreExclusive /\ TickAhead /\ sys_time \in Nat
    BY DEF IInv, Control, ListOK, ClockTypeOK
<1> DEFINE L == clock_setlist
<1>l. L \in Seq(Clocks) /\ DOMAIN L = 1 .. Len(L) /\ c_settime \in [Clocks -> Int]
    BY <1>0 DEF ListOK, ClockTypeOK
<1>a. pc[self] \in LockedLabels /\ sys_mutex = self
    BY <1>0 DEF sched_tick, TickFire, TickFired, TickPolled, TickAdvance, DspDone,
        TicksAreExclusive, LockedLabels, AccessLabels, HandlerLabels
<1>b. \A t \in Threads \ {self} : pc[t] \notin LockedLabels
    BY <1>0, <1>a DEF TicksAreExclusive
<1>1. CASE TickFire(self)
  <2> DEFINE h == Head(L)
  <2>1. L # <<>> /\ h = L[1] /\ 1 \in DOMAIN L /\ h \in Clocks
    BY <1>1, <1>l DEF TickFire, DueBefore
  <2>2. c_settime[h] >= sys_time /\ c_settime[h] \in Nat
    BY <1>0, <1>l, <2>1 DEF ListOK, ListInOrder
  <2>3. \A i \in DOMAIN L : c_settime[L[i]] >= c_settime[h]
    <3> SUFFICES ASSUME NEW i \in DOMAIN L PROVE c_settime[L[i]] >= c_settime[h]
        OBVIOUS
    <3>1. i = 1 \/ 1 < i
        BY <1>l
    <3>2. L[i] \in Clocks
        BY <1>l
    <3> QED BY <1>0, <1>l, <2>1, <3>1, <3>2 DEF ListOK, ListInOrder
  <2>4. /\ clock_setlist' = Unlinked(h) /\ c_settime' = [c_settime EXCEPT ![h] = -1]
        /\ live' = live /\ sys_time' = c_settime[h]
    BY <1>1 DEF TickFire, clock_unset
  <2>5. ListOK'
    BY <1>0, <2>1, <2>2, <2>3, <2>4, UnlinkKeepsList
  <2>6. ControlTypeOK'
    BY <1>0, <1>1 DEF TickFire, ControlTypeOK, Goto, Labels, AccessLabels, HandlerLabels,
        audioVars, tickVars, loopVars
  <2>7. TicksAreExclusive'
    BY <1>0, <1>1, <1>a DEF TickFire, ControlTypeOK, TicksAreExclusive, Goto
  <2>8. sys_time' <= next_sys_time[self]
    BY <1>0, <1>1, <1>l, <2>1 DEF TickFire, DueBefore, ControlTypeOK
  <2>9. TickAhead'
    BY <1>0, <1>1, <1>b, <2>8 DEF TickFire, ControlTypeOK, TickAhead, Goto, tickVars,
        LockedLabels, AccessLabels, HandlerLabels
  <2> QED BY <2>5, <2>6, <2>7, <2>9 DEF IInv, Control
<1>2. CASE TickAdvance(self)
  <2>1. sys_time' = next_sys_time[self] /\ next_sys_time[self] \in Int
    BY <1>0, <1>2 DEF TickAdvance, ControlTypeOK
  <2>2. sys_time' \in Nat
    BY <1>0, <1>2, <2>1 DEF TickAdvance, TickAhead
  <2>3. \A i \in DOMAIN L : c_settime[L[i]] >= sys_time'
    <3> SUFFICES ASSUME NEW i \in DOMAIN L PROVE c_settime[L[i]] >= sys_time'
        OBVIOUS
    <3>1. L # <<>> /\ Head(L) = L[1] /\ 1 \in DOMAIN L /\ L[1] \in Clocks /\ L[i] \in Clocks
        BY <1>l
    <3>2. c_settime[L[1]] >= next_sys_time[self]
        BY <1>2, <1>l, <2>1, <3>1 DEF TickAdvance, DueBefore
    <3>3. i = 1 \/ 1 < i
        BY <1>l
    <3>4. c_settime[L[1]] <= c_settime[L[i]]
        BY <1>0, <1>l, <3>1, <3>3 DEF ListOK, ListInOrder
    <3> QED BY <1>l, <2>1, <3>1, <3>2, <3>4
  <2>4. UNCHANGED <<c_settime, clock_setlist, live>>
    BY <1>2 DEF TickAdvance
  <2>5. ListOK'
    BY <1>0, <2>2, <2>3, <2>4 DEF ListOK, ClockTypeOK, ListIsSetClocks, ListInOrder, IsSet
  <2>6. ControlTypeOK'
    BY <1>0, <1>2 DEF TickAdvance, ControlTypeOK, Goto, Labels, AccessLabels, HandlerLabels,
        audioVars, tickVars, loopVars
  <2>7. TicksAreExclusive'
    BY <1>0, <1>2, <1>a DEF TickAdvance, ControlTypeOK, TicksAreExclusive, Goto
  <2>8. TickAhead'
    BY <1>0, <1>2, <1>b DEF TickAdvance, ControlTypeOK, TickAhead, Goto, tickVars,
        LockedLabels, AccessLabels, HandlerLabels
  <2> QED BY <2>5, <2>6, <2>7, <2>8 DEF IInv, Control
<1>3. CASE TickFired(self) \/ TickPolled(self) \/ DspDone(self)
  <2>1. UNCHANGED clockVars
    BY <1>3 DEF TickFired, TickPolled, DspDone, clockVars
  <2>2. ControlTypeOK'
    BY <1>0, <1>3 DEF TickFired, TickPolled, DspDone, TickReturn, ControlTypeOK, Goto, Labels,
        AccessLabels, HandlerLabels, audioVars, tickVars, loopVars
  <2>3. TicksAreExclusive'
    BY <1>0, <1>3, <1>a DEF TickFired, TickPolled, DspDone, TickReturn, ControlTypeOK,
        TicksAreExclusive, Goto
  <2>4. TickAhead'
    BY <1>0, <1>3, <2>1 DEF TickFired, TickPolled, DspDone, TickReturn, ControlTypeOK,
        TickAhead, Goto, tickVars, clockVars
  <2> QED BY <1>0, <2>1, <2>2, <2>3, <2>4, SameList DEF IInv, Control
<1> QED BY <1>1, <1>2, <1>3 DEF sched_tick

\* A handler, wherever it runs.
LEMMA HandlerStep == ASSUME IInv, NEW self \in Threads, HandlerOp(self) PROVE IInv'
<1> USE ThreadFacts, SchedAssumption
<1>0. ListOK /\ ControlTypeOK /\ TicksAreExclusive /\ TickAhead /\ sys_time \in Nat
    BY DEF IInv, Control, ListOK, ClockTypeOK
<1>1. UNCHANGED <<sys_time, pc, sys_mutex, next_sys_time, countdown, timeforward, idlecount,
                  timewas, loop>>
    BY DEF HandlerOp, tickVars, loopVars
<1>2. ListOK'
  <2>1. CASE ClockOp(self)
    <3>1. ASSUME NEW c \in Clocks, NEW d \in Delays, clock_delay(c, d) PROVE ListOK'
      <4>1. sys_time + d \in Int
        BY <1>0
      <4> QED BY <1>0, <1>1, <3>1, <4>1, SetKeepsList DEF clock_delay
    <3>2. ASSUME NEW c \in Clocks, clock_new(c) \/ clock_unset(c) \/ clock_free(c) PROVE ListOK'
        BY <1>0, <1>1, <3>2, NewKeepsList, UnsetKeepsList
    <3> QED BY <2>1, <3>1, <3>2 DEF ClockOp
  <2>2. CASE ~ClockOp(self)
    <3>1. UNCHANGED clockVars
        BY <2>2 DEF HandlerOp, clockVars
    <3> QED BY <1>0, <3>1, SameList
  <2> QED BY <2>1, <2>2
<1>3. sys_quit' \in {"GO", "QUIT", "RESTART"} /\ sched_useaudio' \in {"NONE", "POLL", "CALLBACK"}
  <2>1. CASE AudioOp(self)
    BY <1>0, <2>1 DEF HandlerOp, AudioOp, sys_set_audio_state, sys_set_audio_settings_reopen,
        sys_reopen_audio, sys_close_audio, sched_set_using_audio, ControlTypeOK, audioVars
  <2>2. CASE ~AudioOp(self)
    BY <1>0, <2>2 DEF HandlerOp, ControlTypeOK, audioVars
  <2> QED BY <2>1, <2>2
<1>4. /\ raced' \in BOOLEAN /\ audio_state' \in BOOLEAN /\ audio_callback' \in BOOLEAN
      /\ devices' \in BOOLEAN /\ cbstream' \in BOOLEAN
  <2>0. raced' \in BOOLEAN
    BY <1>0 DEF HandlerOp, ControlTypeOK
  <2>1. CASE ~AudioOp(self)
    BY <1>0, <2>0, <2>1 DEF HandlerOp, ControlTypeOK, audioVars
  <2>2. ASSUME NEW onoff \in BOOLEAN, sys_set_audio_state(onoff)
        PROVE  /\ audio_state' \in BOOLEAN /\ cbstream' \in BOOLEAN
               /\ audio_callback' \in BOOLEAN /\ devices' \in BOOLEAN
    BY <1>0, <2>2 DEF sys_set_audio_state, sys_reopen_audio, sys_close_audio, ControlTypeOK
  <2>3. ASSUME NEW cb \in CallbackModes, NEW dev \in DeviceChoices,
               sys_set_audio_settings_reopen(cb, dev)
        PROVE  /\ audio_state' \in BOOLEAN /\ cbstream' \in BOOLEAN
               /\ audio_callback' \in BOOLEAN /\ devices' \in BOOLEAN
    BY <1>0, <2>3 DEF sys_set_audio_settings_reopen, sys_reopen_audio, ControlTypeOK
  <2> QED BY <2>0, <2>1, <2>2, <2>3 DEF AudioOp
<1>5. ControlTypeOK'
    BY <1>0, <1>1, <1>3, <1>4 DEF ControlTypeOK
<1>6. TicksAreExclusive' /\ TickAhead'
    BY <1>0, <1>1 DEF TicksAreExclusive, TickAhead
<1> QED BY <1>2, <1>5, <1>6 DEF IInv, Control

\* Every step of every thread keeps the invariant.
LEMMA NextIInv == IInv /\ [Next]_vars => IInv'
<1> SUFFICES ASSUME IInv, [Next]_vars PROVE IInv'
    OBVIOUS
<1>1. CASE MainStep
    BY <1>1, ThreadFacts, ControlStep, AudioStepOK, MessageStep, TickStep DEF MainStep
<1>2. CASE AudioStep
    BY <1>2, ThreadFacts, ControlStep, MessageStep, TickStep DEF AudioStep
<1>3. CASE \E self \in Ext : ExtLock(self) \/ ExtUnlock(self)
    BY <1>3, ThreadFacts, MessageStep
<1>4. CASE \E self \in Threads : HandlerOp(self)
    BY <1>4, HandlerStep
<1>5. CASE UNCHANGED vars
  <2>1. UNCHANGED clockVars /\ Control'
    BY <1>5 DEF vars, clockVars, IInv, Control, ControlTypeOK, TicksAreExclusive, TickAhead
  <2> QED BY <2>1, SameList DEF IInv
<1> QED BY <1>1, <1>2, <1>3, <1>4, <1>5 DEF Next

\* The inductive invariant holds throughout every behaviour of the scheduler.
THEOREM Invariance == Spec => []IInv
    BY InitIInv, NextIInv, PTL DEF Spec

\* Every reachable state is of the right type.
THEOREM TypeCorrect == Spec => []TypeOK
    BY Invariance, IInvImplies, PTL

\* However many clocks, threads and handlers there are, the clock list is
\* exactly the set clocks, in firing order, none of them overdue.
THEOREM ClockListCorrect == Spec => []ClockList
    BY Invariance, IInvImplies, PTL

\* No two threads tick or poll messages at the same time.
THEOREM TicksExclusive == Spec => []TicksAreExclusive
    BY Invariance, IInvImplies, PTL

\* A tick never overtakes its own end, however its callbacks set clocks.
THEOREM TicksStayAhead == Spec => []TickAhead
<1> QED BY Invariance, IInvImplies, PTL

\* Logical time never goes back.
THEOREM TimeNeverGoesBack == Spec => TimeForward
<1>1. ASSUME IInv, [Next]_vars PROVE [sys_time' >= sys_time]_vars
  <2>0. ListOK /\ TickAhead /\ sys_time \in Nat
    BY <1>1 DEF IInv, Control, ListOK, ClockTypeOK
  <2>1. CASE \E self \in Threads : TickFire(self)
    <3>1. PICK self \in Threads : TickFire(self)
        BY <2>1
    <3>2. 1 \in DOMAIN clock_setlist /\ Head(clock_setlist) = clock_setlist[1]
        BY <2>0, <3>1 DEF ListOK, ClockTypeOK, TickFire, DueBefore
    <3> QED BY <2>0, <3>1, <3>2 DEF ListOK, ListInOrder, TickFire
  <2>2. CASE \E self \in Threads : TickAdvance(self)
    BY <2>0, <2>2 DEF TickAdvance, TickAhead
  <2>3. CASE UNCHANGED sys_time
    BY <2>0, <2>3
  <2>4. CASE ~UNCHANGED sys_time /\ Next
    <3>1. \E self \in Threads : TickFire(self) \/ TickAdvance(self)
        BY <2>4, ThreadFacts DEF Next, MainStep, AudioStep, sched_tick, clockVars, Mainloop,
           LoopDone, PollEnter, PollTop, WaitAudio, WaitRealtime, SendDacs, Relock, RelockBug,
           RelockStuck, PollMessages, PollDone, IdleDone, IdleRelock, CbTop, CbSlept, CbLock,
           CbTick, CbTicked, TickFired, TickPolled, DspDone, AudioCall, AudioTick, AudioDone,
           ExtLock, ExtUnlock, HandlerOp
    <3> QED BY <2>1, <2>2, <3>1
  <2> QED BY <1>1, <2>3, <2>4 DEF vars
<1> QED BY <1>1, Invariance, PTL DEF Spec, TimeForward

-----------------------------------------------------------------------------
(* Simultaneous clocks fire in the order in which they were set.           *)

\* An element that stands at one index only is removed there.
LEMMA OnlyOccurrence ==
    ASSUME NEW S, NEW s \in Seq(S), NEW j \in 1 .. Len(s), NEW c, s[j] = c,
           \A i \in 1 .. Len(s) : s[i] = c => i = j
    PROVE  RemoveFirst(s, c) = RemoveAt(s, j)
<1>1. {i \in 1 .. Len(s) : s[i] = c} = {j}
    OBVIOUS
<1>2. Min({j}) = j
    BY DEF Min
<1>3. SelectInSeq(s, LAMBDA v : v = c) = j
    BY <1>1, <1>2 DEF SelectInSeq
<1> QED BY <1>3 DEF RemoveFirst

\* If n is the list u with c, which is not on it, linked in at k, then taking c
\* off n gives u again.
LEMMA RemoveInserted ==
    ASSUME NEW S, NEW u \in Seq(S), NEW k \in 1 .. Len(u) + 1, NEW c \in S, NEW n \in Seq(S),
           \A i \in 1 .. Len(u) : u[i] # c,
           Len(n) = Len(u) + 1,
           \A j \in 1 .. Len(u) + 1 :
              n[j] = IF j < k THEN u[j] ELSE IF j = k THEN c ELSE u[j - 1]
    PROVE  RemoveFirst(n, c) = u
<1> DEFINE r == RemoveAt(n, k)
<1>1. Len(u) \in Nat
    OBVIOUS
<1>2. k \in 1 .. Len(n) /\ n[k] = c
    BY <1>1
<1>3. ASSUME NEW i \in 1 .. Len(n), n[i] = c PROVE i = k
  <2>1. CASE i < k
    BY <1>1, <1>3, <2>1
  <2>2. CASE i > k
    <3>1. n[i] = u[i - 1] /\ i - 1 \in 1 .. Len(u)
        BY <1>1, <2>2
    <3> QED BY <1>3, <3>1
  <2> QED BY <1>1, <2>1, <2>2
<1>4. RemoveFirst(n, c) = r
    BY <1>2, <1>3, OnlyOccurrence
<1>5. r \in Seq(S) /\ Len(r) = Len(u)
    BY <1>1, <1>2, RemoveAtFacts
<1>6. ASSUME NEW j \in 1 .. Len(u) PROVE r[j] = u[j]
  <2>1. j \in 1 .. Len(n) - 1 /\ j + 1 \in 1 .. Len(u) + 1 /\ j \in 1 .. Len(u) + 1
    BY <1>1
  <2>2. r[j] = IF j < k THEN n[j] ELSE n[j + 1]
    BY <1>2, <2>1, RemoveAtFacts
  <2> QED BY <1>1, <2>1, <2>2
<1> HIDE DEF r
<1>7. r = u
    BY <1>5, <1>6, SeqEqual
<1> QED BY <1>4, <1>7

\* clock_unset's walk takes its clock off the list, wherever it is.
LEMMA UnlinkedRemoves ==
    ASSUME ListOK, NEW c \in Clocks
    PROVE  Unlinked(c) = RemoveFirst(clock_setlist, c)
<1>1. clock_setlist \in Seq(Clocks) /\ DOMAIN clock_setlist = 1 .. Len(clock_setlist)
    BY DEF ListOK, ClockTypeOK
<1>2. CASE ~IsSet(c)
  <2>1. \A i \in 1 .. Len(clock_setlist) : clock_setlist[i] # c
    BY <1>1, <1>2 DEF ListOK, ListIsSetClocks
  <2> QED BY <1>2, <2>1 DEF Unlinked, RemoveFirst
<1>3. CASE IsSet(c)
  <2> DEFINE k == CHOOSE i \in DOMAIN clock_setlist : clock_setlist[i] = c
  <2>1. k \in 1 .. Len(clock_setlist) /\ clock_setlist[k] = c
    BY <1>1, <1>3 DEF ListOK, ListIsSetClocks
  <2>2. Unlinked(c) = RemoveAt(clock_setlist, k)
    BY <1>3 DEF Unlinked
  <2> HIDE DEF k
  <2>3. \A i \in 1 .. Len(clock_setlist) : clock_setlist[i] = c => i = k
    BY <1>1, <2>1 DEF ListOK, ListIsSetClocks
  <2> QED BY <1>1, <2>1, <2>2, <2>3, OnlyOccurrence
<1> QED BY <1>2, <1>3

\* A clock that is unset, freed or fired leaves the others in their order.
LEMMA UnlinkMoves ==
    ASSUME ListOK, NEW c \in Clocks, clock_setlist' = Unlinked(c)
    PROVE  OnlyMoves(c)
<1>1. Unlinked(c) \in Seq(Clocks) /\ \A i \in 1 .. Len(Unlinked(c)) : Unlinked(c)[i] # c
    BY UnlinkedFacts DEF ListOK
<1>2. \A i \in DOMAIN clock_setlist' : clock_setlist'[i] # c
    BY <1>1
<1>3. RemoveFirst(clock_setlist', c) = clock_setlist'
    BY <1>1, <1>2 DEF RemoveFirst
<1> QED BY <1>2, <1>3, UnlinkedRemoves DEF OnlyMoves

\* A clock that is set goes behind the clocks due no later.
LEMMA SetMoves ==
    ASSUME ListOK, NEW c \in Clocks, NEW setticks \in Int, clock_set(c, setticks)
    PROVE  OnlyMoves(c)
<1> DEFINE u == Unlinked(c)
           t == Clamped(setticks)
           n == clock_setlist'
<1>1. /\ u \in Seq(Clocks)
      /\ \A i \in 1 .. Len(u) : u[i] # c
      /\ \A i, j \in 1 .. Len(u) : i < j => c_settime[u[i]] <= c_settime[u[j]]
    BY UnlinkedFacts DEF ListOK
<1>2. /\ u \in Seq(Clocks) /\ Len(u) \in Nat
      /\ \A i \in 1 .. Len(u) : u[i] # c
      /\ \A i, j \in 1 .. Len(u) : i < j => c_settime[u[i]] <= c_settime[u[j]]
    BY <1>1
<1>3. c_settime \in [Clocks -> Int] /\ sys_time \in Nat
    BY DEF ListOK, ClockTypeOK
<1>4. t \in Int
    BY <1>3 DEF Clamped
<1>5. PICK k \in 1 .. Len(u) + 1 : IsPlaceFor(u, t, k) /\ n = InsertAt(u, k, c)
    BY DEF clock_set
<1>6. c_settime' = [c_settime EXCEPT ![c] = t]
    BY DEF clock_set
<1> HIDE DEF u, t, n
<1>7. n \in Seq(Clocks) /\ Len(n) = Len(u) + 1
    BY <1>2, <1>5, InsertAtFacts
<1>8. ASSUME NEW j \in 1 .. Len(u) + 1
      PROVE  n[j] = IF j < k THEN u[j] ELSE IF j = k THEN c ELSE u[j - 1]
  <2>1. u \in Seq(Clocks)
    BY <1>2
  <2>2. InsertAt(u, k, c)[j] = IF j < k THEN u[j] ELSE IF j = k THEN c ELSE u[j - 1]
    BY <2>1, InsertAtFacts
  <2> QED BY <1>5, <2>2
<1>9. RemoveFirst(n, c) = u
    BY <1>2, <1>7, <1>8, RemoveInserted
<1>10. ASSUME NEW i \in DOMAIN n, NEW j \in DOMAIN n, n[i] = c, i < j
      PROVE  c_settime'[n[j]] > c_settime'[c]
  <2>1. i \in 1 .. Len(u) + 1 /\ j \in 1 .. Len(u) + 1
    BY <1>7
  <2>2. ~(i < k)
    BY <1>2, <1>8, <1>10, <2>1
  <2>3. j > k /\ j - 1 \in k .. Len(u) /\ j - 1 \in 1 .. Len(u) /\ k \in 1 .. Len(u)
    BY <1>2, <1>10, <2>1, <2>2
  <2>4. n[j] = u[j - 1]
    BY <1>8, <2>1, <2>3
  <2>5. u[k] \in Clocks /\ u[j - 1] \in Clocks /\ u[j - 1] # c
    BY <1>2, <2>3
  <2>6. c_settime[u[k]] > t
    BY <1>5, <2>3 DEF IsPlaceFor
  <2>7. c_settime[u[k]] <= c_settime[u[j - 1]]
    <3>1. k < j - 1 \/ k = j - 1
        BY <1>2, <2>3
    <3>2. CASE k < j - 1
        BY <1>2, <2>3, <3>2
    <3>3. CASE k = j - 1
        BY <1>3, <2>5, <3>3
    <3> QED BY <3>1, <3>2, <3>3
  <2>8. c_settime[u[j - 1]] > t
    <3>1. c_settime[u[k]] \in Int /\ c_settime[u[j - 1]] \in Int
        BY <1>3, <2>5
    <3> QED BY <1>4, <2>6, <2>7, <3>1
  <2> QED BY <1>3, <1>6, <1>4, <2>4, <2>5, <2>8
<1> QED BY <1>9, <1>10, UnlinkedRemoves DEF OnlyMoves, u, n

\* However many clocks, threads and handlers there are, a step moves at most
\* one clock on the list, and puts it behind the clocks due no later.
THEOREM SimultaneousInOrder == Spec => FirstSetFirstFired
<1>1. ASSUME IInv, [Next]_vars
      PROVE  [clock_setlist' # clock_setlist => \E c \in Clocks : OnlyMoves(c)]_vars
  <2> SUFFICES ASSUME clock_setlist' # clock_setlist, Next
               PROVE  \E c \in Clocks : OnlyMoves(c)
    BY <1>1 DEF vars, clockVars
  <2>0. ListOK /\ sys_time \in Nat
    BY <1>1 DEF IInv, ListOK, ClockTypeOK
  <2>1. ASSUME NEW self \in Threads, TickFire(self) PROVE \E c \in Clocks : OnlyMoves(c)
    <3>1. Head(clock_setlist) \in Clocks
        BY <2>0, <2>1 DEF ListOK, ClockTypeOK, TickFire, DueBefore
    <3> QED BY <2>0, <2>1, <3>1, UnlinkMoves DEF TickFire, clock_unset
  <2>2. ASSUME NEW self \in Threads, HandlerOp(self) PROVE \E c \in Clocks : OnlyMoves(c)
    <3>1. ClockOp(self)
        BY <2>2 DEF HandlerOp
    <3>2. ASSUME NEW c \in Clocks, NEW d \in Delays, clock_delay(c, d) PROVE OnlyMoves(c)
      <4>1. sys_time + d \in Int
        BY <2>0, SchedAssumption
      <4> QED BY <2>0, <3>2, <4>1, SetMoves DEF clock_delay
    <3>3. ASSUME NEW c \in Clocks, clock_unset(c) \/ clock_free(c) PROVE OnlyMoves(c)
        BY <2>0, <3>3, UnlinkMoves DEF clock_unset, clock_free
    <3>4. \A c \in Clocks : ~clock_new(c)
        BY DEF clock_new
    <3> QED BY <3>1, <3>2, <3>3, <3>4 DEF ClockOp
  <2>3. \E self \in Threads : TickFire(self) \/ HandlerOp(self)
    BY ThreadFacts DEF Next, MainStep, AudioStep, sched_tick, clockVars, Mainloop,
       LoopDone, PollEnter, PollTop, WaitAudio, WaitRealtime, SendDacs, Relock, RelockBug,
       RelockStuck, PollMessages, PollDone, IdleDone, IdleRelock, CbTop, CbSlept, CbLock,
       CbTick, CbTicked, TickFired, TickPolled, TickAdvance, DspDone, AudioCall, AudioTick,
       AudioDone, ExtLock, ExtUnlock
  <2> QED BY <2>1, <2>2, <2>3
<1> QED BY <1>1, Invariance, PTL DEF Spec, FirstSetFirstFired
=============================================================================
