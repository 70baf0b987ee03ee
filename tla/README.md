# A TLA+ model of Pd's real-time core

Pd (`src/pd/`) is a real-time interpreter of dataflow patches for music.  This
directory models the parts of it in which time, threads and buffers meet, checks
them with TLC and proves the most important invariants with TLAPS.  File names
below are relative to `src/pd/src/`.

## 1. The system

| Component | State | Operations | Talks to |
|---|---|---|---|
| Clocks (`m_sched.c`) | `sys_time`, the list `clock_setlist`, `c_settime` of each clock | new, set, delay, unset, free | called by nearly every object, fired by `sched_tick` |
| Scheduler (`m_sched.c`) | `sys_quit`, `sched_useaudio`, `idlecount`, `sys_mutex` | `m_mainloop`, `m_pollingscheduler`, `m_callbackscheduler`, `sched_audio_callbackfn`, `sched_tick`, `sys_lock`, `sys_unlock` | calls audio, MIDI and GUI polls; shares everything with threads that take the lock |
| Audio settings (`s_audio.c`) | settings, `audio_state`, `audio_callback_is_open` | open, close, reopen, dialog | tells the scheduler its time source; may ask for a deferred restart |
| PortAudio back end (`s_audio_pa.c`) and its rings (`s_audio_paring.c`) | two ring buffers, `pa_started`, `pa_dio_error` | `pa_open_audio`, `pa_send_dacs`, `pa_fifo_callback` | the scheduler on one side, the library's thread on the other, no lock |
| `readsf~`, `writesf~` (`d_soundfile.c`) | request code, circular buffer, end-of-file and error flags, file descriptor | open, start, stop, dsp, perform, free; a child thread per object | mutex and two conditions between the DSP thread and the child |
| JACK back end (`s_audio_jack.c`) | two linear buffers, `jack_filled`, `jack_out_max`, `jack_client`, under a mutex and a condition | `jack_open_audio`, `jack_close_audio`, `jack_send_dacs`, `process`, `jack_shutdown`, `jack_xrun` | the scheduler, the server's thread, and a third thread that announces the server's death |
| GUI connection (`s_inter.c`, `../tcl/pd_connect.tcl`) | update queue, ping state, output buffer | queue, unqueue, flush, poll; `pdsend`, `pd_readsocket` | polled by the scheduler; the GUI process evaluates batches of commands and answers pings |
| Sockets (`s_inter.c`, `x_net.c`) | poll list, circular input buffers | add, remove, read | dispatched by `sys_domicrosleep` |
| MIDI (`s_midi.c`) | input and output queues, running status | queue, poll, dispatch | polled by the scheduler |
| Symbols and messages (`m_pd.c`, `m_obj.c`, `m_class.c`, `m_binbuf.c`) | bind lists, classes, message text | bind, unbind, dispatch, evaluate | all objects, depth first: a message may come back to its sender |
| Objects with a life of their own (`x_time.c`, `x_qlist.c`) | clocks, position, re-entrance flag | bang, next, rewind, clear | clocks, their own outlets |
| DSP graph (`d_ugen.c`, signal part of `g_io.c`) | sort state, reference counts and reusable signals | start, add, connect, done, tick | built from canvases, run by `sched_tick` |
| Canvases and GUI objects (`g_*.c`), sample arithmetic (`d_*.c`), startup (`s_main.c`, `s_path.c`, ...) | | | |

`PROJECT.json` lists every component with its status.  The Tcl/Tk client (but for the
two procedures at its end of the socket, `pdsend` and `pd_readsocket` in
`src/pd/tcl/pd_connect.tcl`), the externals, abstractions and packages of the
distribution and the vendored PortAudio and PortMidi are not part of the inventory.

What is hard here: ticks of two threads; handlers that change the clock list
while it is being walked; rings shared without a lock; a child thread that gives
up the mutex for every system call, so that the request it serves may change
under it; wake-ups that must not be lost; counters and indices whose full and
empty look alike; handlers that re-enter the object that called them; vectors
that are reused by reference count; and two processes that keep each other going
with pings.  The list of hazards in `PROJECT.json` gives the lines.

## 2. Modules

| Module | Models |
|---|---|
| `Clock` | the clock list |
| `Sched` (extends `Clock`) | the scheduler loops, the audio callback, external threads, `sys_lock`, audio opening and closing |
| `RingBuf` | `s_audio_paring.c` |
| `PaFifo` (two instances of `RingBuf`) | `pa_send_dacs` and `pa_fifo_callback` |
| `BlockQueue` | what a ring promises: the abstract specification that `PaFifo` implements twice |
| `Readsf`, `Writesf` | the two soundfile objects, each with its child thread |
| `Jack` | `s_audio_jack.c` without callbacks: Pd's thread, the server's thread, the shutdown thread |
| `Ugen` | the sort of the DSP graph and the reuse of signals, across subpatches |
| `Gui` | the update queue, pings, both byte streams and the GUI process |
| `Bindlist` | `pd_bind` and `pd_unbind` |
| `Qlist` (extends `Bindlist`) | `qlist` and the traversal of bind lists, with messages that come back |
| `MCSched`, `MCPaFifo`, `MCReadsf`, `MCWritesf`, `MCJack`, `MCUgen`, `MCGui`, `MCQlist` | constants for TLC |
| `ClockProofs`, `SchedProofs`, `PaFifoProofs`, `JackProofs`, `WritesfProofs`, `ReadsfProofs`, `GuiProofs`, `QlistProofs` | theorems |

**Clock.**  The linked list is a sequence.  Time is a `double` in the code; the
model uses integers, since only order and differences matter.  `clock_set` takes
the place where the loop of the code stops (`IsPlaceFor`).

**Sched.**  Each thread has a program counter.  A step runs from one place where
another thread can interfere, or where a handler runs, to the next.  What
handlers do (any callback, message or perform routine) is `HandlerOp`: any
operation on any clock, switching audio on or off, new audio settings, and, in a
poll, the end of the GUI.  While a thread may run handlers, another that may too
is a data race; the outcome is undefined, so `raced` is set and the behaviour
stops.  `sched_set_using_audio` is modelled as it is: `sched_useaudio` is
assigned before it is compared, so that it never asks for a restart.  Not
modelled: the histogram, `sys_idlehook` (a hook that nothing in `src/pd/src` installs),
`m_batchmain`, and what closing a stream does to a callback under way (it is
taken to return).

**PaFifo.**  The unit is a block of `DEFDACBLKSIZE` frames.  Blocks are numbered,
so that order and loss can be stated.  A ring operation is two steps: regions,
then copy and index.  `Played` and `Recorded` map the rings to `BlockQueue`: the
elements from the read index on are the queue, a grant of regions is `Ask`, the
copy and the new index are `Put`, a read is `Take`.

**Readsf, Writesf.**  Pd's thread never keeps the mutex from one step to the
next, so each of its critical sections is one action; the child keeps it between
its steps and gives it up where the code does.  A condition has a single waiter,
`asleep` is the set of waiting threads, and waits may end without a signal
(`SpuriousWakeup`).  Bytes carry the number of the open message and their
position, so that a byte of the wrong file or played twice can be seen.  The
vector size is `MAXVECSIZE`, and `WRITESIZE` stands for `READSIZE` too (both are
65536).  The code that closes a file found open under OPEN, and in `readsf~` under
CLOSE and QUIT, is left out because it is never reached: `DescriptorHeld` and
`IdleIsClosed` show it.  Before a header is read the format is that of the open
message, here always `DEFFRAME`.  In `Writesf` a usage error of `open` after it
has stopped the stream is the same as `stop`.

**Jack.**  A slot stands for a few frames of all channels and carries what became of
them (`new`, `taken`, `stale`, `silence`).  Pd's thread sleeps in `SendLock`, wakes in
`SendRelock`; the wait is an `if`, so that a spurious wake-up goes on to copy.
Periods are arbitrary, for `process` takes any: one below a block leaves the difference
in the buffer at each call (`s_audio_jack.c:44`), and nothing checks that a block fits
behind a large one.  `small` and `widest` remember the periods so far, and a copy past
the end of the buffers sets `overrun`, after which the behaviour stops.  `Fits` is what
the code needs of periods and wake-ups, and does not check.  `OpenFailed` is an open
that finds no server.  The shutdown thread closes audio without the mutex.  Closing deactivates
the client first, which returns when `process` has.  `callbackprocess`, ports and
client names are left out.

**Ugen.**  The chain runs in the order in which it is built, so each operation is
carried out when it is added, and a vector's value is the bag of the outlets
summed in it.  `got` and `val` remember what each inlet received and each outlet
delivered.  The recursion of `ugen_doit` and `ugen_done_graph` is a stack of frames.
All vectors have one size, which is when sharing is greatest; a reblocked subpatch
is one with overlap or a different size, and only its buffers (`x_buf`) matter here.
A switched subpatch is on.  Three things the code does are part of the model and
can be seen in it: `OwnOutputs` counts a reference of the borrower, not of the new
vector, which is therefore never reused; the vector of a switched subpatch whose
`outlet~` is in a loop is filled by nobody; and a pair of ports connected twice
frees a signal twice.

**Gui.**  A byte is known by what it is for.  The output buffer is a sequence (its
compaction and growth are left out, and so is a failed `realloc`); `send` takes any
number of bytes that the socket has room for.  The input buffer is the ring of the
code, with its indices.  Handlers may do anything at any moment between steps of
the poll, in particular inside the loop of `sys_flushqueue`.  The GUI process is
`pd_readsocket`: it evaluates what it is sent in batches, of any number of whole
commands.  After an error the rest of the batch is not evaluated (`GuiError`), with a
ping in it or without; if the error is a missing close-brace the batch is evaluated again
(`GuiAgain`), and a ping that was answered is answered again.  `pdsend` adds a semicolon
to whatever text it is given, so the texts of the user are arbitrary: they may hold
bare semicolons, and a backslash at their end hides the semicolon behind it, so that
the next answer becomes part of the text.  The newline that `pdsend` adds is white space
before the next message and is left out.  `sent` is the stream as it was sent, and
`WholeMessages` compares what Pd evaluates with the first message of it.

**Qlist.**  A call of `qlist_donext`, of a bind list, or of any object that has received
a message is a frame of a stack, and an object that has received a message may
call the qlist again, or make and delete receivers.  Bind lists and their elements
have identities that are never reused, so that a use after free is visible
(`crashed`, after which the behaviour stops).  The arguments of a message are not
copied: `argv` points into the list's own vector, `moves` counts how often that
vector was moved or freed under a call (`add` may move it, `clear`, `set` and `read` do), and a
call whose arguments were moved is `Stale`: if it reads them again, to pass them on to the next
connection, or if its bind list passes them on to the next receiver, that is a use of
freed memory too.  `pd_unbind` frees the element it unbinds, and the last one that remains
with it.  An atom may be a dollar sign, which ends a message and names nobody.  What a pass
does after the list was rewound under it is recorded in `zombie`.  Delays are abstract:
a clock that is set fires at some time.

## 3. Runs

| Run | Shows |
|---|---|
| `sched_safety` | With an external's thread, with and without callbacks: the clock list holds exactly the set clocks, in firing order, none overdue (`ClockList`); a tick runs under the lock (`TicksAreExclusive`) and does not pass its end (`TickAhead`); time does not go back (`TimeForward`); equal times fire first set, first fired (`FirstSetFirstFired`) |
| `sched_live` | The GUI is polled for ever whatever clocks do (`GuiPolled`), and a quit is obeyed unless a dialog turns it into a restart (`QuitObeyed`) |
| `pafifo` | Copies never overlap (`NoOverlap`), each ring implements a queue (`RingsAreQueues`, a refinement), at most one block is lost (`LosesAtMostOne`), `pa_send_dacs` returns (`SendReturns`) |
| `readsf` | A file is played byte by byte in order (`PlaysInOrder`), the bang comes after its last frame (`BangsAtEnd`), descriptors are neither lost nor left open (`DescriptorHeld`), streams end (`StreamEnds`) and `readsf_free` returns (`FreeReturns`) |
| `writesf` | Bytes reach the file in order (`WritesInOrder`) and completely (`FlushedOnClose`), nothing stays open under `x_fd` (`IdleIsClosed`), the methods return (`MethodsReturn`) |
| `jack` | Pd copies into buffers that exist and are not in use, and past their end only if the periods do not fit (`CopiesAreSafe`); no block is overwritten unplayed, played twice or read twice, and a discarded one is reported (`NoneLostNoneTwice`); Pd does not wait for ever, also when the server dies (`SendReturns`) |
| `ugen` | Each ugen finds in its inlets the sum of what is connected to them (`InputsIntact`), no signal is freed or borrowed twice (`FreedOnce`), and exactly what a loop leads to is left out (`SortComplete`) |
| `gui` | The queue holds each wanted update once (`QueueExact`), Pd waits for a ping exactly while it or its answer is on the way, or for ever after it was lost with a batch (`PingOnTheWay`), no more updates wait for a slow GUI than a ping allows (`Backpressure`), messages arrive whole and in order, whatever texts they are made of (`WholeMessages`), updates are drawn or taken back at last (`EventuallyDrawn`) |
| `qlist` | A symbol reaches what is bound to it, newest first (`BindlistExact`); freed memory is used only if a receiver was deleted from inside a message, or by a call whose arguments a change of the list has moved (`CrashNeedsChange`); a pass takes no further step when its list is rewound under it, at any depth (`RewindStops`); messages go to the head of their line (`RightReceiver`) |

Where the code does not do this, the case has a name in the model and is excepted
from the property, so that the property still speaks of everything else.  These
are faults of the code that the properties disclose and do not forbid:

| Exception | What happens |
|---|---|
| `HeadPassed` (`Readsf`) | data that end exactly at the end of the buffer are replayed |
| `OneShort` (`Readsf`) | `readsf_perform` does not wait for the last byte of a vector (`d_soundfile.c:1935`); data that end one byte short of a vector, as in a file cut inside a frame, are replayed for ever |
| `CutShort` (`Readsf`, in `PlaysInOrder`) | data that end one byte short of a frame have that frame played (`d_soundfile.c:1966` counts one byte more than there is), with whatever is at the head in place of the byte |
| `failed` (`Readsf`, in `BangsAtEnd`) | the late failure of one open ends the stream of the next, which bangs with nothing played |
| `x_fileerror` (`Readsf`, in `StreamEnds`) | a read error does not set EOF, though a comment (`d_soundfile.c:1815`) says so, and perform waits for ever |
| `overrun` (`Writesf`) | with the tail at 0 the buffer can be filled completely, and then looks empty |
| `Spinning`, `QuitLost` (`Writesf`) | a short write leaves the child spinning; a QUIT is overwritten by the answer to a CLOSE |
| restart (`Sched`, in `QuitObeyed`) | a dialog turns a quit into a restart |
| `partial`, `resized` (`Jack`) | after a "Partial read", or a new period, what is left in the buffer is not moved down |
| `torn` (`Jack`) | the mutex is initialised while `process` holds it |
| `late`, `Inert`, `freed` (`Jack`) | the broadcast of the shutdown thread is missed; a client that could not be activated is waited for; buffers are freed under Pd |
| `overrun` (`Jack`, in `CopiesAreSafe`) | a block is copied past the end of the buffers; allowed only when `Fits` has failed: the server used a period below a block, or one so large that a block and the wake-ups so far do not fit behind it |
| the same ports twice (`Ugen`) | a signal is summed with itself and freed twice |
| `wiped` (`Gui`) | `sys_unqueuegui` of the head drops the whole queue (`s_inter.c:825`) |
| `lost` (`Gui`) | an input buffer that is full is dropped, or, with the tail at 0, taken for empty; an answer to a ping may be in it |
| `dropped` (`Gui`, in `EventuallyDrawn`) | a ping was in a batch that the GUI gave up after an error (`pd_connect.tcl:76`), or its answer was glued to a text that ends in a backslash; `PingOnTheWay` says that Pd then waits for ever |
| `doubled` (`Gui`) | a batch is evaluated again after a missing close-brace, and a ping is answered twice: Pd no longer waits for the ping after it |
| `straddled` (`Gui`) | an escaped semicolon at index 0 of the ring ends the message |
| `inside` (`Qlist`) | a receiver is deleted by a message on its way to it, or to another of its symbol |
| `Stale` (`Qlist`) | the arguments of a message are moved or freed by `add`, `clear`, `set` or `read` from inside it, and read again |
| `"time"` (`Qlist`, in `RewindStops`) | the bang at the end of the list restarts it, and `x_qlist.c:133` clears the time of the delay that the restart has begun |
| `orphan`, `moved` (`Qlist`) | after a head that is bound to nothing, the text behind a comma is taken for a line; after a `next` from inside a message, the interrupted pass goes on in another line with its old target |

Three runs check what the repository says and the code does not do; each has an
entry under `findings`:

| Run | Disagreement |
|---|---|
| `sched_race` | the lock in `sys_microsleep` is compiled out |
| `sched_bug` | starting audio with callbacks from a handler ends in `bug("m_pollingscheduler")`, with the lock held |
| `writesf_quit` | a QUIT is overwritten by the answer to a CLOSE |

Bounds.  `sched_safety`: two clocks (order, ties and a clock unlinked from the
middle of another's walk), one external thread, delays into the past and into the
same tick, a tick of two units and room for one tick; the countdown and the idle
count are at their smallest values so that the polls inside a tick and the stuck
check happen.  `sched_live`: two ticks, delays -1, 0 and 1, so that two clocks can
re-arm each other without end.  `pafifo`: two buffers of two blocks and 12 blocks
sent, so that both indices pass twice the size.  `readsf`: a buffer of three
vectors, reads of two thirds of one, files that end inside a vector, wrap around
the buffer, have no announced end, fill it exactly or are cut inside a frame, and two open messages, so
that each may overlap the other at any step.  `writesf`: a
buffer of six vectors, writes of a vector and a third, and up to eight vectors
recorded, so that the head wraps; again two open messages.  `jack`: blocks of two slots in a
buffer of five, periods of half a block, of two blocks, for which there is just room, and of
more than the buffer, and one spurious wake-up, for which there is room or not.  `ugen`: two ugens and
a subpatch with `inlet~`, a ugen and `outlet~`, all 8192 ways to wire them, the three
modes and two orders of the list.  `gui`: two clients, updates of two bytes
and a ping after three, so that the last goes past it, a ring of four bytes, a socket of
two, and two more events; the texts are one that ends in a backslash, two of which fill the
ring, and one of two messages, whose odd length puts the escaped semicolon at the start of
the ring.  `lost`, `straddled`, `dropped` and `doubled` all happen.  `qlist`: four
receivers of two symbols, two lists, one with a dollar sign, four calls, so that messages
nest, a bind list shrinks to one element under a traversal, and the list changes under
its own message.  `MaxTime`, `MaxSends`, `MaxOpens`, `MaxRecorded` stop
their instance, `MaxLost` stops the callback of a stream without output, and
`MaxPlayed` is where a counter stops; `MaxSpurious`, `MaxEvents` and `MaxCalls` bound
what may come from outside.  Deadlock is not checked, for the instances
stop at their bounds and Pd itself exits.  Symmetry of the clocks is used where
only safety is checked.

Fairness.  `Sched`: weak fairness of the main and of the audio thread, which the
operating system schedules; none for handlers or external threads.  `PaFifo`: weak
fairness of both sides; a started stream keeps calling back.  `Readsf` and
`Writesf`: strong fairness of the child and of Pd's thread in perform and in
waits; the threads contend for a mutex that is free again and again, and are
assumed to obtain it at last.  In `Readsf` this includes that DSP is on.  `Jack`: the
same for the mutex, weak fairness of the steps under it and of a shutdown under
way; an active server keeps calling `process`.  `Gui`: weak fairness of the poll, which
`sched_live` shows to recur, and of `pd_readsocket`, which evaluates what is there or gives it
up.  The GUI sends finitely many texts by itself (`MaxEvents`), and `EventuallyDrawn` depends
on it: `sys_pollgui` reads before it draws, and does not draw as long as there is something to read.
`Ugen` and `Qlist` need none.  None of
it covers a message: nobody has to send start, stop or open.

## 4. Proofs

All theorems hold for every value of the constants that satisfies the named
assumptions (`SchedAssumption`, `PaFifoAssumption`, `JackAssumption`, `WritesfAssumption`,
`ReadsfAssumption`, `GuiAssumption`, `QlistAssumption`), which TLC evaluates in each run.  Each inductive
invariant was checked by TLC on the instance of its run before it was proved.

`SchedProofs` proves `TypeCorrect`, `ClockListCorrect`, `TicksExclusive`,
`TicksStayAhead`, `TimeNeverGoesBack` and `SimultaneousInOrder`.  `ClockList` is not inductive by itself:
at the end of a tick `sys_time` jumps to `next_sys_time`, and no clock may be left
behind.  Nobody else moves the time meanwhile because only the holder of the lock
is inside a tick (`TicksAreExclusive`), and the jump goes forward because the
present has not passed the end of the tick (`TickAhead`).  The inductive invariant
joins these with the types and the list facts.  `ClockProofs` shows for each
operation of `Clock` that the list facts survive; it rests on lemmas about
`RemoveAt` and `InsertAt`.  `ControlStep`, `AudioStepOK`, `MessageStep`, `TickStep`
and `HandlerStep` divide the actions by what they disturb.  For `SimultaneousInOrder` each
operation is shown to move a single clock: it is in the list once (`OnlyOccurrence`),
so that unlinking it is removing its first occurrence (`UnlinkedRemoves`), inserting it and
removing it again is nothing (`RemoveInserted`), and the place where `clock_set` inserts it is
behind every clock that is due no later (`SetMoves`).

`PaFifoProofs` proves `RingsConsistent` and `AtMostOneLost`.  The heart of the
invariant is `Balance`: with input and output, what lies in the two rings plus what
the callback carries from one to the other is the ring size, minus what was lost,
plus the block for which Pd has yet to read its input.  It needs `Granted` (a region
once granted stays free, or filled, until it is used, for the other side only makes
more of it) and `Places` (each mode passes through its own places).

It also proves `CopiesNeverOverlap` and `RingsRefine`: `Spec` implements
`BlockQueue` once for each ring.  The queue is the window of the buffer from the read
index on.  Indices run modulo twice the size and slots modulo the size, so three facts
about remainders carry the argument: a slot granted to the writer lies outside the
window (`Apart`), follows it in order (`Adjacent`), and an index that wraps still points
to the slot it should (`Advanced`).  From these a copy appends to the window
(`WriteAppends`) and a read drops from its front (`ReadDrops`).  The invariant adds that
both buffers are functions to the integers; `Granted` justifies the assumptions of the
two lemmas at the moment of the copy, although the other thread has moved its index since the region was granted.

`JackProofs` proves `TypeCorrect`, `SafeCopies` and `NoLossNoDuplicate` for every block,
buffer and period size and any number of spurious wake-ups.  `JackAssumption` says nothing of
the periods but that they are positive.  What the code relies on without checking it is in
`CopiesAreSafe` itself: if a block was copied past the end, a period was below a block, or the
largest one and the wake-ups so far left no room (`Fits`).  Since `jack_send_dacs` waits in an
`if`, a spurious wake-up copies a block without looking at `jack_out_max` again; `Room` therefore
allows one block for every wake-up that has been spurious, and says that until a period is
small, what lies in the buffer before a copy is less than the widest period and these; it is what
makes `CopiesAreSafe` inductive.  `Mutex` and `Lifetimes` say who holds the lock and that a client
has buffers, except after the shutdown thread has interfered.  `Halves` is the content: up
to `jack_filled` the output is fresh and the input taken, behind it the reverse.

`WritesfProofs` proves `TypeCorrect`, `ClosedWhenIdle`, `FileInOrder` and `FileComplete` for
every vector, buffer and write size (`WritesfAssumption`: the buffer holds four writes, as
`writesf_new` ensures, and a vector).  The invariant says at which places the child
holds the mutex (`Mutex`) and a file (`Files`); that the fifo's size and head are multiples
of the vector (`Fifo`), so that a vector never straddles the end; and, until the first
overrun, that the bytes from tail to head, across the end if the head has wrapped,
continue the file where `written` has got to (`Content`).  `write()` runs without the mutex:
what it was given stays between tail and head, for nothing but an overrun stores there.
`Flushed` says that a file about to be closed for CLOSE has everything.

`ReadsfProofs` proves `TypeCorrect` and `DescriptorNeverLost` for all files and sizes and any
number of overlapping open messages.  The delicate part is `Fifo`: what `read()` fills without
the mutex lies inside the buffer if the request is still BUSY when it returns, and is
discarded if not; a new open message resets head and size at any moment.  `Descriptors`
ties the one descriptor to the places of the child.

For files of one format it also proves `InOrder` (`PlaysInOrder`) and `WholeFile` (`BangsAtEnd`),
for every file length, buffer, vector and read size and however open messages overlap.  The
hypothesis `OneFormat` is needed: with files of different frame sizes `readsf_perform` may play
with that of the file before (the hazard at `d_soundfile.c:1924`).  It says that files have the
frame size of the open message, at least the two bytes of a sample, and that a number of whole
reads never ends one byte short of a vector; in the code the vector is 128 frames and a read
65536 bytes.  The instance of the run satisfies it (`MCReadsf` assumes it).  The invariant `PInv`:
- `Indices`: the tail moves by vectors and stays below the size, which is a multiple of them,
  so that a vector never straddles the end; the head is at the end only after the last byte.
- `Progress`: while the request is BUSY the child reads the file of the last open message,
  by whole reads but for the last; so until the end the head is never one byte short.
- `Fresh`: until its file is open, the buffer of an open message is empty and nothing is played,
  although the child may still be closing, or failing to open, another.
- `Content`: between tail and head, across the end if the head has wrapped, are the bytes that
  follow the last one played, as far as the child has got; what `read()` is filling lies outside
  of them, and never fills the buffer completely; at the end of the file nothing is missing.

Each step is either `Quiet` (it leaves all of this alone), or plays (`PlayStep`), opens
(`OpenStep`, `OpenedStep`), calls `read()` (`ReadStep`) or stores what it returned (`GotStep`).  The
rest is arithmetic of remainders: `TooFew` does not ask for the last byte of a vector, and
whether that byte is there is decided by the remainder of the head (`Remainder`).  `EndFacts`
shows that with `HeadPassed` or `OneShort` no bang can come, so that `BangsAtEnd` needs no
exception for them.

`GuiProofs` proves `QueueStaysExact`, `PingAlwaysOnTheWay`, `UpdatesBounded` and
`MessagesWhole`, for all clients, sizes of updates, texts, ring, socket and ping interval.  Two
views of the state carry it: `Down` is what is on its way to the GUI, in the output buffer and in
the socket, and `Stream` what is on its way back, in the socket and in the ring from tail to
head.  `send` and the copies of the system change neither, receiving leaves `Stream` alone,
evaluating a message cuts its front, and a drop leaves its end.  The invariant has two parts:
- `Core` is about the streams.  `Pacing`: unless a ping was answered twice, at most one ping
  or answer is on the way, also when input is dropped; without one, the updates in `Down` are
  counted by `bytessincelastping`, and with one they are ahead of the ping, so that they are gone
  when it is answered.  `Quiet`: nothing is drawn while an answer is awaited.  `Answers`: unless
  input was dropped there are as many as are due (`Due`), one while Pd waits for a ping that was
  not lost, and Pd waits once one was lost.  `Order`: until input is dropped or a message
  straddled, `Stream` is the bytes that the GUI sent and Pd has not evaluated, whatever texts they
  are made of.  `Behind`: the byte before the tail is a semicolon, for `socketreceiver_doread` looks
  at it.
- `Queue`: `QueueExact`, and the entries are clients.

`QlistProofs` proves `ReceiversExact`, `RewoundPassStops`, `CrashOnlyByChange` and
`MessagesFollowTheirLine`, for all symbols, objects, lists and nested calls (`QlistAssumption`:
an object has one name, under which it is bound once, and the atoms that are no symbols are
distinct from them).  The stack is unbounded, so the invariants speak of all its frames:
- `Bindings`: each thing stands for the bound objects, in order, and has the kind its
  number demands.
- `Rewinds`: a pass that is sending a message was rewound exactly if `x_reentered` is set or
  a call inside it has saved the flag and will restore it.  This is why the flag is saved
  and restored and why a rewound pass stops at any depth.
- `Safe`: until an object is deleted from inside a message, the target of every pass and
  the element every bind list stands on are still there, also when objects are made and
  the list changes.  `CrashNeedsChange` and `RewindStops` stand beside it in the inductive
  invariant, for they are kept by each step with its help.
- `Lines`, for the position of the list: the innermost pass is either at the head of a line
  (`Clean`: only numbers and commas since it began) or inside one that begins with its
  symbol (`Headed`), unless the list was stepped on from inside it.  All other passes were
  rewound or stepped on (`Nested`), so that nothing need be said of them; when they are the
  innermost again, a clean position is all they find.

Lemmas say for each of these what a call on top of the stack needs, and what is left without
it; `Least` and `Greatest` (every set of natural numbers has a least, every bounded one a
greatest) stand for the loops of `qlist_donext` over the atoms.

Only model-checked: all liveness (`GuiPolled`, `QuitObeyed`, `SendReturns`, `StreamEnds`,
`FreeReturns`, `MethodsReturn`, `EventuallyDrawn`: out of the prover's reach), and `Ugen`.  There a
borrowed signal releases the one it borrows from, by a recursive operator, which the prover does
not support, and what an inlet should find is a sum over all that is connected to it and what a
loop leads to is a closure, which need induction over data.

## 5. Plan

Done: the scheduler and its clocks, the two audio back ends that run in a thread of
their own, the two soundfile objects, the GUI connection, bind lists and `qlist`, the
DSP graph, and the refinement of the rings with its proof.  Left, in order of importance:

1. Proofs: `FreedOnce` of `Ugen`, whose recursive operator has to become a function
   first.
2. An abstract specification of an ordered set of timers, implemented by `Clock`.
3. `MidiQueue`: the two queues of `s_midi.c` at their limit, and running status.
4. `Readsf` with files of different frame sizes.
5. `x_time.c` as clients of `Clock`; `x_net.c` with sockets closed from inside handlers.

### Not modelled

Sample arithmetic, filters and FFTs (floating point on vectors, out of a model
checker's reach); editing and drawing (sequential and mostly layout); drivers,
startup and loading (pure I/O); file formats, binbufs and classes (sequential
parsing and table lookups).  The rest of the repository, which is by far most of its
lines, is not Pd: some hundred external libraries with objects of their own (signal
processing, image processing, physical models, wrappers of other libraries), the
vendored PortAudio and PortMidi with their host interfaces, FFT packages, patches
and build files.  Each of these is a system of its own that meets Pd only through
the interfaces modelled here as handlers, threads that take the lock, or back ends.
