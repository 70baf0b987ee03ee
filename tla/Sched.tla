------------------------------- MODULE Sched -------------------------------
(***************************************************************************)
(* Pd's scheduler (m_sched.c) and the part of s_audio.c that opens and     *)
(* closes the audio it runs on.                                            *)
(*                                                                         *)
(* The main thread runs m_mainloop, which is in one of two loops: the      *)
(* polling scheduler, paced by sys_send_dacs or by real time, or the       *)
(* callback scheduler, in which the audio library's thread drives time     *)
(* through sched_audio_callbackfn.  Further threads, of external objects,  *)
(* enter Pd between sys_lock and sys_unlock.  All of them fire clocks or   *)
(* run message handlers; what a handler does to the clocks and the audio   *)
(* is the nondeterministic HandlerOp.                                      *)
(***************************************************************************)
EXTENDS Clock

CONSTANTS
    Ext,            \* threads of external objects that use sys_lock
    CallbackModes,  \* settings of "use callbacks" the user may choose
    DeviceChoices,  \* whether the user may choose no audio device at all
    TICK,           \* sys_time_per_dsp_tick, in time units
    Delays,         \* delays that handlers ask for, in time units
    COUNTDOWN,      \* clock callbacks between GUI polls inside a tick (5000)
    IDLES,          \* idle polls between checks for stuck audio (32)
    MaxTime         \* bound: logical time at which the instance stops ticking

ASSUME SchedAssumption ==
    /\ Ext \cap {"main", "audio", "nobody"} = {}
    /\ CallbackModes \subseteq BOOLEAN /\ CallbackModes # {}
    /\ DeviceChoices \subseteq BOOLEAN /\ DeviceChoices # {}
    /\ TICK \in Nat \ {0}
    /\ Delays \subseteq Int
    /\ COUNTDOWN \in Nat /\ IDLES \in Nat \ {0}
    /\ MaxTime \in Nat

Threads == {"main", "audio"} \cup Ext

VARIABLES
    pc,             \* [Threads -> Labels]
    sys_mutex,      \* the thread that holds it, or "nobody"
    raced,          \* two threads used Pd's state at once: anything goes
    sys_quit,       \* "GO", "QUIT" or "RESTART"
    sched_useaudio, \* "NONE", "POLL" or "CALLBACK"
    audio_state,    \* audio is thought to be open
    audio_callback, \* the user's settings: use callbacks,
    devices,        \*    and there are any devices
    cbstream,       \* the library is calling sched_audio_callbackfn
    next_sys_time,  \* [Threads -> Int], argument of sched_tick
    countdown,      \* [Threads -> Nat], of sched_tick
    timeforward,    \* what sys_send_dacs said: "NO", "YES" or "SLEPT"
    idlecount,      \* consecutive NOs
    timewas,        \* of m_callbackscheduler
    loop            \* which scheduler m_mainloop has called

audioVars == <<sched_useaudio, audio_state, audio_callback, devices, cbstream>>
tickVars  == <<next_sys_time, countdown>>
loopVars  == <<timeforward, idlecount, timewas, loop>>
vars == <<sys_time, c_settime, clock_setlist, live, pc, sys_mutex, raced, sys_quit,
          sched_useaudio, audio_state, audio_callback, devices, cbstream,
          next_sys_time, countdown, timeforward, idlecount, timewas, loop>>

\* In these places a thread runs handlers: clock callbacks, DSP perform
\* routines, GUI, socket and MIDI messages, or an external's own code.
HandlerLabels == {"fn", "fngui", "dsp", "poll", "idle", "cb_gui", "ext"}
\* In these it reads or writes the clock list or runs handlers.
AccessLabels == HandlerLabels \cup {"tick"}
Labels == AccessLabels \cup
    {"mainloop", "poll_lock", "poll_top", "wait", "dacs", "relock", "ticked",
     "idle_lock", "cb_top", "cb_sleep", "cb_lock", "loop_done", "exited", "out", "lock"}

Goto(self, label) == pc' = [pc EXCEPT ![self] = label]

\* Mutation of sys_lock: it does not wait.
sys_lock_nowait(self) == sys_mutex' = self

sys_lock(self)   == sys_mutex = "nobody" /\ sys_mutex' = self
sys_unlock(self) == sys_mutex' = "nobody"

TimeLeft == sys_time + TICK <= MaxTime

Init ==
    /\ ClockInit
    /\ pc = [t \in Threads |-> IF t = "main" THEN "mainloop" ELSE "out"]
    /\ sys_mutex = "nobody" /\ raced = FALSE
    /\ sys_quit = "GO"
    /\ audio_callback \in CallbackModes /\ devices \in DeviceChoices
    /\ \E opened \in {b \in BOOLEAN : b => devices} :  \* sys_reopen_audio of sys_main
          /\ audio_state = opened
          /\ cbstream = (opened /\ audio_callback)
          /\ sched_useaudio = IF ~opened THEN "NONE"
                              ELSE IF audio_callback THEN "CALLBACK" ELSE "POLL"
    /\ next_sys_time = [t \in Threads |-> 0]
    /\ countdown = [t \in Threads |-> 0]
    /\ timeforward = "NO" /\ idlecount = 0 /\ timewas = 0 /\ loop = "polling"

-----------------------------------------------------------------------------
(* s_audio.c: opening and closing.                                         *)

\* sched_set_using_audio as it is: sched_useaudio is assigned before it is
\* compared with flag, so neither comparison is ever true and sys_quit stays.
sched_set_using_audio(flag) == sched_useaudio' = flag

audio_isopen == audio_state /\ devices

sys_close_audio ==
    IF audio_isopen
    THEN /\ sched_set_using_audio("NONE")
         /\ audio_state' = FALSE /\ cbstream' = FALSE
    ELSE UNCHANGED <<sched_useaudio, audio_state, cbstream>>

\* With the settings cb and dev; the library may refuse to open the device.
sys_reopen_audio(cb, dev) ==
    IF ~dev
    THEN sched_set_using_audio("NONE") /\ UNCHANGED <<audio_state, cbstream>>
    ELSE \E outcome \in BOOLEAN :
            /\ audio_state' = outcome
            /\ cbstream' = (outcome /\ cb)
            /\ sched_set_using_audio(IF ~outcome THEN "NONE"
                                     ELSE IF cb THEN "CALLBACK" ELSE "POLL")

\* Closing and opening in one go: what is closed first does not show.
sys_set_audio_state(onoff) ==
    /\ IF onoff /\ ~audio_isopen THEN sys_reopen_audio(audio_callback, devices)
       ELSE IF ~onoff THEN sys_close_audio
       ELSE UNCHANGED <<sched_useaudio, audio_state, cbstream>>
    /\ UNCHANGED <<audio_callback, devices, sys_quit>>

\* The audio dialog: with callbacks on either side, the reopening is left to
\* the main loop (sched_reopenmeplease).
sys_set_audio_settings_reopen(cb, dev) ==
    /\ audio_callback' = cb /\ devices' = dev
    /\ IF ~cbstream /\ ~cb
       THEN /\ IF ~dev THEN /\ sched_set_using_audio("NONE")
                            /\ audio_state' = (audio_state /\ ~devices)
                            /\ UNCHANGED cbstream
               ELSE sys_reopen_audio(cb, dev)
            /\ UNCHANGED sys_quit
       ELSE /\ sys_quit' = "RESTART"
            /\ UNCHANGED <<sched_useaudio, audio_state, cbstream>>

-----------------------------------------------------------------------------
(* Handlers.                                                               *)

\* One operation that a handler performs on the clocks or the audio.  DSP
\* perform routines only delay clocks.
ClockOp(self) ==
    \/ \E c \in Clocks : \E d \in Delays : clock_delay(c, d)
    \/ pc[self] # "dsp" /\ \E c \in Clocks : clock_new(c) \/ clock_unset(c) \/ clock_free(c)

AudioOp(self) ==
    /\ pc[self] # "dsp"
    /\ \/ \E onoff \in BOOLEAN : sys_set_audio_state(onoff)
       \/ \E cb \in CallbackModes, dev \in DeviceChoices : sys_set_audio_settings_reopen(cb, dev)

\* Pd's state is shared, and a handler may run while another thread uses it
\* only if one of the two does not hold the lock.
Races(self) == \E t \in Threads \ {self} : pc[t] \in AccessLabels

HandlerOp(self) ==
    /\ pc[self] \in HandlerLabels
    /\ \/ /\ Races(self)
          /\ raced' = TRUE
          /\ UNCHANGED <<sys_time, c_settime, clock_setlist, live, audioVars, sys_quit>>
       \/ /\ ~Races(self)
          /\ \/ ClockOp(self) /\ UNCHANGED <<sys_time, audioVars, sys_quit>>
             \/ AudioOp(self) /\ UNCHANGED <<sys_time, c_settime, clock_setlist, live>>
             \/ /\ pc[self] \in {"poll", "idle", "fngui", "cb_gui"}  \* the GUI's socket closed
                /\ sys_quit' = "QUIT"
                /\ UNCHANGED <<sys_time, c_settime, clock_setlist, live, audioVars>>
          /\ UNCHANGED raced
    /\ UNCHANGED <<pc, sys_mutex, tickVars, loopVars>>

-----------------------------------------------------------------------------
(* sched_tick: fire the clocks that are due before next_sys_time, then     *)
(* compute one block of DSP.                                               *)

\* Mutation of BeginTick: the countdown starts too low.
BeginTickLow(self) ==
    /\ next_sys_time' = [next_sys_time EXCEPT ![self] = sys_time + TICK]
    /\ countdown' = [countdown EXCEPT ![self] = COUNTDOWN - 1]
    /\ Goto(self, "tick")

BeginTick(self) ==
    /\ next_sys_time' = [next_sys_time EXCEPT ![self] = sys_time + TICK]
    /\ countdown' = [countdown EXCEPT ![self] = COUNTDOWN]
    /\ Goto(self, "tick")

\* Mutation of DueBefore: every clock that is set is due.
DueAnyTime(t) == clock_setlist # <<>>

DueBefore(t) == clock_setlist # <<>> /\ c_settime[Head(clock_setlist)] < t

TickFire(self) ==
    /\ pc[self] = "tick"
    /\ DueBefore(next_sys_time[self])
    /\ sys_time' = c_settime[Head(clock_setlist)]
    /\ clock_unset(Head(clock_setlist))
    /\ Goto(self, "fn")
    /\ UNCHANGED <<sys_mutex, raced, sys_quit, audioVars, tickVars, loopVars>>

\* sched_tick returns; its locals are gone.
TickReturn(self) ==
    /\ next_sys_time' = [next_sys_time EXCEPT ![self] = 0]
    /\ countdown' = [countdown EXCEPT ![self] = 0]
    /\ Goto(self, "ticked")

\* Mutation of TickFired: the GUI is not polled inside a tick.
TickFiredNoPoll(self) ==
    /\ pc[self] = "fn"
    /\ IF sys_quit # "GO" THEN TickReturn(self) ELSE Goto(self, "tick") /\ UNCHANGED tickVars
    /\ UNCHANGED <<clockVars, sys_mutex, raced, sys_quit, audioVars, loopVars>>

\* The callback is done; every COUNTDOWN + 1 callbacks the GUI is polled.
TickFired(self) ==
    /\ pc[self] = "fn"
    /\ IF countdown[self] = 0
       THEN /\ countdown' = [countdown EXCEPT ![self] = COUNTDOWN]
            /\ Goto(self, "fngui")
            /\ UNCHANGED next_sys_time
       ELSE IF sys_quit # "GO" THEN TickReturn(self)
       ELSE /\ countdown' = [countdown EXCEPT ![self] = @ - 1]
            /\ Goto(self, "tick")
            /\ UNCHANGED next_sys_time
    /\ UNCHANGED <<clockVars, sys_mutex, raced, sys_quit, audioVars, loopVars>>

TickPolled(self) ==
    /\ pc[self] = "fngui"
    /\ IF sys_quit # "GO" THEN TickReturn(self) ELSE Goto(self, "tick") /\ UNCHANGED tickVars
    /\ UNCHANGED <<clockVars, sys_mutex, raced, sys_quit, audioVars, loopVars>>

TickAdvance(self) ==
    /\ pc[self] = "tick"
    /\ ~DueBefore(next_sys_time[self])
    /\ sys_time' = next_sys_time[self]
    /\ Goto(self, "dsp")
    /\ UNCHANGED <<c_settime, clock_setlist, live, sys_mutex, raced, sys_quit,
                   audioVars, tickVars, loopVars>>

DspDone(self) ==
    /\ pc[self] = "dsp"
    /\ TickReturn(self)
    /\ UNCHANGED <<clockVars, sys_mutex, raced, sys_quit, audioVars, loopVars>>

-----------------------------------------------------------------------------
(* m_mainloop and m_pollingscheduler: the main thread.                     *)

Mainloop ==
    /\ pc["main"] = "mainloop"
    /\ IF sys_quit = "QUIT" THEN Goto("main", "exited") /\ UNCHANGED loop
       ELSE IF sched_useaudio = "CALLBACK" THEN Goto("main", "cb_top") /\ loop' = "callback"
       ELSE Goto("main", "poll_lock") /\ loop' = "polling"
    /\ UNCHANGED <<clockVars, sys_mutex, raced, sys_quit, audioVars, tickVars,
                   timeforward, idlecount, timewas>>

\* After either scheduler returns.  Closing and reopening take place outside
\* the lock, which this thread no longer holds.
LoopDone ==
    /\ pc["main"] = "loop_done"
    /\ IF sys_quit = "RESTART"
       THEN sys_quit' = "GO" /\ sys_reopen_audio(audio_callback, devices)
       ELSE UNCHANGED <<sys_quit, sched_useaudio, audio_state, cbstream>>
    /\ Goto("main", "mainloop")
    /\ UNCHANGED <<clockVars, sys_mutex, raced, audio_callback, devices, tickVars, loopVars>>

PollEnter ==
    /\ pc["main"] = "poll_lock"
    /\ sys_lock("main")
    /\ idlecount' = 0
    /\ Goto("main", "poll_top")
    /\ UNCHANGED <<clockVars, raced, sys_quit, audioVars, tickVars, timeforward, timewas, loop>>

\* Mutation of PollTop: sys_quit is not tested.
PollTopNoQuit ==
    /\ pc["main"] = "poll_top"
    /\ Goto("main", "wait")
    /\ UNCHANGED <<clockVars, sys_mutex, raced, sys_quit, audioVars, tickVars, loopVars>>

PollTop ==
    /\ pc["main"] = "poll_top"
    /\ IF sys_quit # "GO"
       THEN sys_unlock("main") /\ Goto("main", "loop_done")
       ELSE UNCHANGED sys_mutex /\ Goto("main", "wait")
    /\ UNCHANGED <<clockVars, raced, sys_quit, audioVars, tickVars, loopVars>>

Forward(tf) ==
    IF tf # "NO" THEN BeginTick("main") ELSE Goto("main", "ticked") /\ UNCHANGED tickVars

\* waitfortick, with audio: the lock is released while sys_send_dacs may sleep.
WaitAudio ==
    /\ pc["main"] = "wait"
    /\ sched_useaudio # "NONE"
    /\ sys_unlock("main")
    /\ Goto("main", "dacs")
    /\ UNCHANGED <<clockVars, raced, sys_quit, audioVars, tickVars, loopVars>>

\* ... and without: real time has overtaken logical time, or not yet.
WaitRealtime ==
    /\ pc["main"] = "wait"
    /\ sched_useaudio = "NONE"
    /\ \E tf \in {"YES", "NO"} :
          /\ tf # "NO" => TimeLeft
          /\ timeforward' = tf
          /\ Forward(tf)
    /\ UNCHANGED <<clockVars, sys_mutex, raced, sys_quit, audioVars,
                   idlecount, timewas, loop>>

SendDacs ==
    /\ pc["main"] = "dacs"
    /\ \E tf \in {"YES", "NO", "SLEPT"} : timeforward' = tf /\ (tf # "NO" => TimeLeft)
    /\ Goto("main", "relock")
    /\ UNCHANGED <<clockVars, sys_mutex, raced, sys_quit, audioVars, tickVars,
                   idlecount, timewas, loop>>

\* idlecount is only compared with IDLES and reduced modulo IDLES, so it is
\* counted up to 2 * IDLES and then from IDLES + 1 again.
CountIdle(n) == IF n = 2 * IDLES THEN IDLES + 1 ELSE n + 1

Idles == IF timeforward # "NO" THEN 0 ELSE CountIdle(idlecount)
IdleCheck == Idles > 0 /\ Idles % IDLES = 0

\* The lock is taken again.  IDLES idle polls in a row start a watch, which is
\* read after every IDLES more.
Relock ==
    /\ pc["main"] = "relock"
    /\ sys_lock("main")
    /\ IdleCheck => sched_useaudio = "POLL"
    /\ idlecount' = Idles
    /\ Forward(timeforward)
    /\ UNCHANGED <<clockVars, raced, sys_quit, audioVars, timeforward, timewas, loop>>

\* The watch says that audio has been stuck for a second.
RelockStuck ==
    /\ pc["main"] = "relock"
    /\ sys_lock("main")
    /\ IdleCheck /\ Idles # IDLES /\ sched_useaudio = "POLL"
    /\ idlecount' = Idles
    /\ sched_set_using_audio("NONE")
    /\ IF audio_isopen THEN audio_state' = FALSE /\ cbstream' = FALSE
       ELSE UNCHANGED <<audio_state, cbstream>>
    /\ Goto("main", "wait")
    /\ UNCHANGED <<clockVars, raced, sys_quit, audio_callback, devices, tickVars,
                   timeforward, timewas, loop>>

\* bug("m_pollingscheduler"): the scheduler returns without unlocking.
RelockBug ==
    /\ pc["main"] = "relock"
    /\ sys_lock("main")
    /\ IdleCheck /\ sched_useaudio # "POLL"
    /\ idlecount' = Idles
    /\ Goto("main", "loop_done")
    /\ UNCHANGED <<clockVars, raced, sys_quit, audioVars, tickVars, timeforward, timewas, loop>>

\* sys_pollmidiqueue and sys_pollgui after the tick.
PollMessages(self) ==
    /\ pc[self] = "ticked"
    /\ self = "main" => loop = "polling"
    /\ Goto(self, "poll")
    /\ UNCHANGED <<clockVars, sys_mutex, raced, sys_quit, audioVars, tickVars, loopVars>>

\* If neither the tick nor the polls did anything, release the lock and idle.
PollDone ==
    /\ pc["main"] = "poll"
    /\ \/ Goto("main", "poll_top") /\ UNCHANGED sys_mutex
       \/ /\ timeforward # "YES"
          /\ sys_unlock("main")
          /\ IF timeforward = "NO" THEN Goto("main", "idle")
             ELSE Goto("main", "idle_lock")
    /\ UNCHANGED <<clockVars, raced, sys_quit, audioVars, tickVars, loopVars>>

\* sys_microsleep dispatches what arrives meanwhile; its own sys_lock is
\* compiled out (THREAD_LOCKING is not defined in s_inter.c).
IdleDone ==
    /\ pc["main"] = "idle"
    /\ Goto("main", "idle_lock")
    /\ UNCHANGED <<clockVars, sys_mutex, raced, sys_quit, audioVars, tickVars, loopVars>>

IdleRelock ==
    /\ pc["main"] = "idle_lock"
    /\ sys_lock("main")
    /\ Goto("main", "poll_top")
    /\ UNCHANGED <<clockVars, raced, sys_quit, audioVars, tickVars, loopVars>>

-----------------------------------------------------------------------------
(* m_callbackscheduler: the main thread looks once a second whether time   *)
(* still advances, and ticks itself when it does not.                      *)

CbTop ==
    /\ pc["main"] = "cb_top"
    /\ timewas' = sys_time
    /\ Goto("main", IF sys_quit # "GO" THEN "loop_done" ELSE "cb_sleep")
    /\ UNCHANGED <<clockVars, sys_mutex, raced, sys_quit, audioVars, tickVars,
                   timeforward, idlecount, loop>>

CbSlept ==
    /\ pc["main"] = "cb_sleep"
    /\ Goto("main", IF sys_time = timewas /\ TimeLeft THEN "cb_lock" ELSE "cb_top")
    /\ timewas' = 0
    /\ UNCHANGED <<clockVars, sys_mutex, raced, sys_quit, audioVars, tickVars,
                   timeforward, idlecount, loop>>

CbLock ==
    /\ pc["main"] = "cb_lock"
    /\ sys_lock("main")
    /\ Goto("main", "cb_gui")
    /\ UNCHANGED <<clockVars, raced, sys_quit, audioVars, tickVars, loopVars>>

CbTick ==
    /\ pc["main"] = "cb_gui"
    /\ BeginTick("main")
    /\ UNCHANGED <<clockVars, sys_mutex, raced, sys_quit, audioVars, loopVars>>

CbTicked ==
    /\ pc["main"] = "ticked" /\ loop = "callback"
    /\ sys_unlock("main")
    /\ Goto("main", "cb_top")
    /\ UNCHANGED <<clockVars, raced, sys_quit, audioVars, tickVars, loopVars>>

-----------------------------------------------------------------------------
(* sched_audio_callbackfn: the audio library's thread.                     *)

AudioCall ==
    /\ pc["audio"] = "out"
    /\ cbstream
    /\ Goto("audio", "lock")
    /\ UNCHANGED <<clockVars, sys_mutex, raced, sys_quit, audioVars, tickVars, loopVars>>

AudioTick ==
    /\ pc["audio"] = "lock"
    /\ sys_lock("audio")
    /\ IF TimeLeft THEN BeginTick("audio") ELSE Goto("audio", "ticked") /\ UNCHANGED tickVars
    /\ UNCHANGED <<clockVars, raced, sys_quit, audioVars, loopVars>>

AudioDone ==
    /\ pc["audio"] = "poll"
    /\ sys_unlock("audio")
    /\ Goto("audio", "out")
    /\ UNCHANGED <<clockVars, raced, sys_quit, audioVars, tickVars, loopVars>>

(* A thread of an external object enters Pd and leaves it again.           *)
ExtLock(self) ==
    /\ pc[self] = "out"
    /\ sys_lock(self)
    /\ Goto(self, "ext")
    /\ UNCHANGED <<clockVars, raced, sys_quit, audioVars, tickVars, loopVars>>

ExtUnlock(self) ==
    /\ pc[self] = "ext"
    /\ sys_unlock(self)
    /\ Goto(self, "out")
    /\ UNCHANGED <<clockVars, raced, sys_quit, audioVars, tickVars, loopVars>>

-----------------------------------------------------------------------------
sched_tick(self) ==
    TickFire(self) \/ TickFired(self) \/ TickPolled(self) \/ TickAdvance(self) \/ DspDone(self)

MainStep ==
    \/ Mainloop \/ LoopDone
    \/ PollEnter \/ PollTop \/ WaitAudio \/ WaitRealtime \/ SendDacs \/ Relock \/ RelockBug \/ RelockStuck
    \/ PollMessages("main") \/ PollDone \/ IdleDone \/ IdleRelock
    \/ CbTop \/ CbSlept \/ CbLock \/ CbTick \/ CbTicked
    \/ sched_tick("main")

AudioStep == AudioCall \/ AudioTick \/ sched_tick("audio") \/ PollMessages("audio") \/ AudioDone

\* A race is undefined behaviour: nothing is said of what follows it.
Next ==
    /\ ~raced
    /\ \/ MainStep
       \/ AudioStep
       \/ \E self \in Ext : ExtLock(self) \/ ExtUnlock(self)
       \/ \E self \in Threads : HandlerOp(self)

Spec == Init /\ [][Next]_vars

\* The main thread and the audio library's thread keep running.
FairSpec == Spec /\ WF_vars(~raced /\ MainStep) /\ WF_vars(~raced /\ AudioStep)

-----------------------------------------------------------------------------
(* Properties.                                                             *)

\* Every variable is in its type.
TypeOK ==
    /\ ClockTypeOK
    /\ pc \in [Threads -> Labels]
    /\ sys_mutex \in Threads \cup {"nobody"}
    /\ raced \in BOOLEAN
    /\ sys_quit \in {"GO", "QUIT", "RESTART"}
    /\ sched_useaudio \in {"NONE", "POLL", "CALLBACK"}
    /\ audio_state \in BOOLEAN /\ audio_callback \in BOOLEAN
    /\ devices \in BOOLEAN /\ cbstream \in BOOLEAN
    /\ next_sys_time \in [Threads -> Int]
    /\ countdown \in [Threads -> Nat]
    /\ timeforward \in {"NO", "YES", "SLEPT"}
    /\ idlecount \in Nat /\ timewas \in Nat
    /\ loop \in {"polling", "callback"}

\* The list of clocks is well formed (ListIsSetClocks), in firing order and
\* without overdue clocks (ListInOrder), whichever threads and handlers set,
\* unset and free clocks, between and during ticks.
ClockList == ListIsSetClocks /\ ListInOrder

\* Logical time never goes back: not when a clock fires, not when a tick is
\* abandoned for sys_quit, not when two threads take turns to tick.
TimeForward == [][sys_time' >= sys_time]_vars

\* Of the list's members only c moves, and it goes behind the clocks due no
\* later than itself.
OnlyMoves(c) ==
    /\ RemoveFirst(clock_setlist', c) = RemoveFirst(clock_setlist, c)
    /\ \A i, j \in DOMAIN clock_setlist' :
          (clock_setlist'[i] = c /\ i < j) => c_settime'[clock_setlist'[j]] > c_settime'[c]

\* One step moves at most one clock.  The others keep their order, and a clock
\* that is (re)set goes behind every clock due at the same time: simultaneous
\* clocks fire in the order in which they were set.
FirstSetFirstFired ==
    [][clock_setlist' # clock_setlist => \E c \in Clocks : OnlyMoves(c)]_vars

\* A thread between its sys_lock and its sys_unlock holds the mutex, so no two
\* threads are inside sched_tick or polling messages at the same time.  The one
\* place where handlers run outside the lock is the idle sleep.
LockedLabels == (AccessLabels \ {"idle"}) \cup {"poll_top", "wait", "ticked"}
TicksAreExclusive == \A t \in Threads : pc[t] \in LockedLabels => sys_mutex = t

\* While a tick is under way no clock that is due has been overtaken: what
\* is left of the tick lies ahead of the present.
TickAhead == \A t \in Threads : pc[t] \in {"tick", "fn", "fngui"} => sys_time <= next_sys_time[t]

\* No two threads use Pd's state at the same time (x5.htm: sys_microsleep is
\* thread-safe).
NoRace == ~raced

\* The polling scheduler never finds itself running with callbacks: what
\* bug("m_pollingscheduler") asserts.
PollingUnlessCallback ==
    ~(pc["main"] = "loop_done" /\ sys_mutex = "main")

\* However clocks re-arm themselves, even with no delay at all, the GUI is
\* polled again and again until Pd exits.
GuiPolled == []<>(pc["main"] \in {"poll", "fngui", "cb_gui", "exited"})

\* When the GUI has gone away Pd exits, unless an audio dialog turns the
\* request into a restart.
QuitObeyed == (sys_quit = "QUIT") ~> (pc["main"] = "exited" \/ sys_quit = "RESTART")
=============================================================================
