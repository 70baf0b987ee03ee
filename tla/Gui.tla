-------------------------------- MODULE Gui ---------------------------------
(***************************************************************************)
(* s_inter.c: Pd and its GUI process, joined by a socket.  Objects queue   *)
(* updates of what they show; Pd draws them in slices, and after so many   *)
(* bytes sends a ping and draws nothing more until the GUI has answered.   *)
(* What the GUI sends, answers to pings among it, arrives in pieces of any *)
(* size in a ring buffer and is cut into messages at semicolons.           *)
(*                                                                         *)
(* Of a byte sent to the GUI the model knows whether it draws an update    *)
(* ("u"), is sent directly ("d") or ends a ping; of one that comes back,   *)
(* whether it is a semicolon, a backslash or anything else ("p" for the    *)
(* answer to a ping, "m" for the rest).                                    *)
(***************************************************************************)
EXTENDS Integers, Sequences, SequencesExt, FiniteSets, TLC

CONSTANTS
    Clients,            \* objects that queue updates
    GUI_UPDATESLICE, GUI_BYTESPERPING,
    Lens,               \* how many bytes an update or a direct message may have
    INBUFSIZE,          \* of the ring buffer
    UserMsgs,           \* the texts that the GUI may send by itself
    SOCKET,             \* how many bytes the socket to the GUI holds
    MaxEvents           \* bound: direct messages, pretended bytes, calls of sys_unqueuegui
                        \* texts that the GUI sends by itself and batches that it evaluates
                        \* again, together

PING == <<"p", "semi">>

\* A message ends at its first semicolon that is not behind a backslash.
Unescaped(s, k) == s[k] = "semi" /\ (k = 1 \/ s[k - 1] # "backslash")

ASSUME GuiAssumption ==
    /\ {GUI_UPDATESLICE, GUI_BYTESPERPING, INBUFSIZE, SOCKET} \subseteq Nat \ {0}
    /\ INBUFSIZE > 2
    /\ Lens # {} /\ Lens \subseteq Nat \ {0} /\ IsFiniteSet(Lens)
    /\ MaxEvents \in Nat
    /\ UserMsgs \subseteq Seq({"m", "semi", "backslash"})

VARIABLES
    guiqueue,           \* the clients from sys_guiqueuehead on
    guibuf,             \* sys_guibuf from sys_guibuftail to sys_guibufhead
    bytessincelastping, waitingforping,
    wherestop,          \* the local variable of sys_flushqueue; Infinity is 0x7fffffff
    pd,                 \* where the main thread is: "idle", "reading", "flushing" or "exit"
    inbuf, inhead, intail,      \* of sys_socketreceiver
    togui, topd,        \* bytes on the way
    gui,                \* the GUI process: "up" or "dead"
    answered,           \* a ping of the batch that the GUI evaluates has been answered
    budget,             \* what is left of MaxEvents
    dirty,              \* history: clients that asked for a redraw and did not get it yet
    wiped,              \* history: of them, those whose update sys_unqueuegui dropped for another's sake
    sent,               \* history: what the GUI has sent and Pd has not evaluated yet
    lost,               \* history: input was dropped
    dropped,            \* history: a ping was in a batch that the GUI gave up, or its answer became
                        \* part of a text that ends in a backslash
    doubled,            \* history: the GUI answered a ping again
    straddled,          \* history: a semicolon was taken for a boundary at index 0 after a backslash
    garbled             \* history: a message was evaluated that the GUI did not send, or not in order

out     == <<guiqueue, guibuf, bytessincelastping, waitingforping, wherestop>>
ring    == <<inbuf, inhead, intail>>
tcl     == <<gui, answered>>
pings   == <<dropped, doubled>>
replies == <<sent, lost, pings, straddled, garbled>>
history == <<dirty, wiped, replies>>
vars    == <<out, ring, pd, togui, topd, tcl, budget, history>>

Infinity == -1
Queued == {guiqueue[k] : k \in DOMAIN guiqueue}
Bytes(c, n) == [k \in 1 .. n |-> c]

Init ==
    /\ guiqueue = <<>> /\ guibuf = <<>> /\ bytessincelastping = 0 /\ waitingforping = FALSE
    /\ wherestop = 0 /\ pd = "idle"
    /\ inbuf = [i \in 0 .. INBUFSIZE - 1 |-> "m"] /\ inhead = 0 /\ intail = 0
    /\ togui = <<>> /\ topd = <<>> /\ gui = "up" /\ answered = FALSE
    /\ budget = MaxEvents
    /\ dirty = {} /\ wiped = {} /\ sent = <<>>
    /\ lost = FALSE /\ dropped = FALSE /\ doubled = FALSE /\ straddled = FALSE /\ garbled = FALSE

-----------------------------------------------------------------------------
(* What objects do, from a clock, from a handler of a message from the GUI *)
(* or from the callback that draws an update.                              *)

\* A client that is queued is not queued again.
sys_queuegui(c) ==
    /\ pd # "exit"
    /\ guiqueue' = IF c \in Queued THEN guiqueue ELSE Append(guiqueue, c)
    /\ dirty' = dirty \cup {c} /\ wiped' = wiped \ {c}
    /\ UNCHANGED <<guibuf, bytessincelastping, waitingforping, wherestop, ring, pd, togui, topd,
                   tcl, budget, replies>>

\* Mutation of Without: the search begins after the first.
WithoutLater(q, c) == IF q # <<>> /\ q[1] = c THEN q ELSE RemoveFirst(q, c)

\* If the client is the head of the queue, the rest of the queue is forgotten too.
Without(q, c) == IF q # <<>> /\ q[1] = c THEN <<>> ELSE RemoveFirst(q, c)

sys_unqueuegui(c) ==
    /\ pd # "exit" /\ budget > 0
    /\ budget' = budget - 1
    /\ guiqueue' = Without(guiqueue, c)
    /\ dirty' = dirty \ {c}
    /\ wiped' = (wiped \ {c}) \cup
                (IF guiqueue # <<>> /\ guiqueue[1] = c THEN Queued \ {c} ELSE {})
    /\ UNCHANGED <<guibuf, bytessincelastping, waitingforping, wherestop, ring, pd, togui, topd,
                   tcl, replies>>

sys_vgui(n) ==
    /\ pd # "exit" /\ budget > 0
    /\ budget' = budget - 1
    /\ guibuf' = guibuf \o Bytes("d", n)
    /\ bytessincelastping' = bytessincelastping + n
    /\ UNCHANGED <<guiqueue, waitingforping, wherestop, ring, pd, togui, topd, tcl, history>>

sys_pretendguibytes(n) ==
    /\ pd # "exit" /\ budget > 0
    /\ budget' = budget - 1
    /\ bytessincelastping' = bytessincelastping + n
    /\ UNCHANGED <<guiqueue, guibuf, waitingforping, wherestop, ring, pd, togui, topd, tcl, history>>

-----------------------------------------------------------------------------
(* sys_poll_togui.                                                         *)

\* send() takes some of the bytes, and waits for room; it fails when the GUI is dead.
Flush(n) ==
    /\ n \in 1 .. Len(guibuf)
    /\ gui = "up" /\ Len(togui) + n <= SOCKET
    /\ togui' = togui \o SubSeq(guibuf, 1, n)
    /\ guibuf' = SubSeq(guibuf, n + 1, Len(guibuf))

Bail ==
    /\ pd # "exit" /\ gui = "dead" /\ guibuf # <<>> /\ pd \in {"idle", "flushed"}
    /\ pd' = "exit"
    /\ UNCHANGED <<out, ring, togui, topd, tcl, budget, history>>

PollFlush(n) ==
    /\ pd = "idle" /\ Flush(n)
    /\ UNCHANGED <<guiqueue, bytessincelastping, waitingforping, wherestop, ring, pd, topd, tcl,
                   budget, history>>

\* Mutations of MayDraw: pings are not waited for; nor are they sent at last.
MayDrawAlways == guiqueue # <<>>
MayDrawUnpinged == ~waitingforping /\ guiqueue # <<>> /\ bytessincelastping < GUI_BYTESPERPING

MayDraw == ~waitingforping /\ guiqueue # <<>>

WhereStop ==
    LET stop == bytessincelastping + GUI_UPDATESLICE
    IN  IF stop + (GUI_UPDATESLICE \div 2) > GUI_BYTESPERPING THEN Infinity ELSE stop

\* The buffer is empty: sys_flushqueue begins.
PollQueue ==
    /\ pd = "idle" /\ guibuf = <<>> /\ MayDraw
    /\ wherestop' = WhereStop
    /\ pd' = "flushing"
    /\ UNCHANGED <<guiqueue, guibuf, bytessincelastping, waitingforping, ring, togui, topd, tcl,
                   budget, history>>

FlushPing ==
    /\ pd = "flushing" /\ bytessincelastping >= GUI_BYTESPERPING
    /\ guibuf' = Append(guibuf, "ping")
    /\ bytessincelastping' = 0 /\ waitingforping' = TRUE
    /\ pd' = "idle"
    /\ UNCHANGED <<guiqueue, wherestop, ring, togui, topd, tcl, budget, history>>

\* Mutation of FlushOne: the bytes of an update are not counted.
FlushOneUncounted(n) ==
    /\ pd = "flushing" /\ bytessincelastping < GUI_BYTESPERPING /\ guiqueue # <<>>
    /\ guiqueue' = Tail(guiqueue)
    /\ guibuf' = guibuf \o Bytes("u", n)
    /\ dirty' = dirty \ {guiqueue[1]} /\ wiped' = wiped \ {guiqueue[1]}
    /\ UNCHANGED <<bytessincelastping, waitingforping, wherestop, ring, pd, togui, topd, tcl,
                   budget, replies>>

\* The update is off the queue before its callback runs.
FlushOne(n) ==
    /\ pd = "flushing" /\ bytessincelastping < GUI_BYTESPERPING /\ guiqueue # <<>>
    /\ guiqueue' = Tail(guiqueue)
    /\ guibuf' = guibuf \o Bytes("u", n)
    /\ bytessincelastping' = bytessincelastping + n
    /\ dirty' = dirty \ {guiqueue[1]} /\ wiped' = wiped \ {guiqueue[1]}
    /\ pd' = IF wherestop # Infinity /\ bytessincelastping' >= wherestop THEN "flushed" ELSE "flushing"
    /\ UNCHANGED <<waitingforping, wherestop, ring, togui, topd, tcl, budget, replies>>

FlushEmpty ==
    /\ pd = "flushing" /\ bytessincelastping < GUI_BYTESPERPING /\ guiqueue = <<>>
    /\ pd' = "flushed"
    /\ UNCHANGED <<out, ring, togui, topd, tcl, budget, history>>

\* The flush at the end of sys_flushqueue; there may be nothing to send.
FlushEnd(n) ==
    /\ pd = "flushed"
    /\ IF guibuf = <<>> THEN n = 0 /\ UNCHANGED <<guibuf, togui>> ELSE Flush(n)
    /\ pd' = "idle"
    /\ UNCHANGED <<guiqueue, bytessincelastping, waitingforping, wherestop, ring, topd, tcl,
                   budget, history>>

-----------------------------------------------------------------------------
(* socketreceiver_read and socketreceiver_doread.                          *)

Readto == IF inhead >= intail THEN INBUFSIZE ELSE intail - 1

\* The buffer is full: all of it is dropped.
ReadDrop ==
    /\ pd = "idle" /\ (topd # <<>> \/ gui = "dead") /\ Readto = inhead
    /\ inhead' = 0 /\ intail' = 0
    /\ lost' = TRUE
    /\ UNCHANGED <<out, inbuf, pd, togui, topd, tcl, budget, dirty, wiped, sent, pings, straddled,
                   garbled>>

\* n bytes are received.
ReadSome(n) ==
    /\ pd = "idle" /\ n \in 1 .. Len(topd) /\ inhead + n <= Readto
    /\ inbuf' = [i \in DOMAIN inbuf |->
                   IF i \in inhead .. inhead + n - 1 THEN topd[i - inhead + 1] ELSE inbuf[i]]
    /\ inhead' = IF inhead + n >= INBUFSIZE THEN 0 ELSE inhead + n
    /\ topd' = SubSeq(topd, n + 1, Len(topd))
    /\ pd' = "reading"
    /\ UNCHANGED <<out, intail, togui, tcl, budget, history>>

\* End of file: the GUI has closed the socket, and Pd exits.
ReadEof ==
    /\ pd = "idle" /\ topd = <<>> /\ gui = "dead" /\ Readto # inhead
    /\ pd' = "exit"
    /\ UNCHANGED <<out, ring, togui, topd, tcl, budget, history>>

\* The bytes that socketreceiver_doread looks at; a full buffer has head = tail.
Filled == IF inhead = intail THEN INBUFSIZE ELSE (inhead - intail) % INBUFSIZE
At(k) == (intail + k) % INBUFSIZE

\* Mutation of IsBoundary: backslashes are not looked for.
IsBoundaryAny(i) == inbuf[i] = "semi"

\* The byte before index 0 is not looked at.
IsBoundary(i) == inbuf[i] = "semi" /\ (i = 0 \/ inbuf[i - 1] # "backslash")

Boundaries == {k \in 0 .. Filled - 1 : IsBoundary(At(k))}
First(K) == CHOOSE k \in K : \A l \in K : k <= l

\* Where the first message ends that the GUI has sent and Pd has not evaluated.
Ends == {k \in DOMAIN sent : Unescaped(sent, k)}
FirstEnd == IF Ends = {} THEN Len(sent) ELSE First(Ends)

\* A message is complete: it is evaluated.  glob_ping answers for the ping.
DoRead ==
    /\ pd = "reading" /\ Boundaries # {}
    /\ LET end == First(Boundaries)
           mess == [k \in 1 .. end + 1 |-> inbuf[At(k - 1)]]
       IN  /\ intail' = At(end + 1)
           /\ waitingforping' = (waitingforping /\ mess # PING)
           /\ pd' = IF At(end + 1) = inhead THEN "idle" ELSE "reading"
           /\ straddled' = (straddled \/ (At(end) = 0 /\ end > 0 /\ inbuf[INBUFSIZE - 1] = "backslash"))
           /\ dropped' = (dropped \/ (mess # PING /\ \E k \in DOMAIN mess : mess[k] = "p"))
           /\ sent' = SubSeq(sent, FirstEnd + 1, Len(sent))
           /\ garbled' = (garbled \/ mess # SubSeq(sent, 1, FirstEnd))
    /\ UNCHANGED <<guiqueue, guibuf, bytessincelastping, wherestop, inbuf, inhead, togui, topd, tcl,
                   budget, dirty, wiped, lost, doubled>>

\* No message is complete.  If the buffer is full now, the next read takes it for empty.
DoReadNone ==
    /\ pd = "reading" /\ Boundaries = {}
    /\ pd' = "idle"
    /\ lost' = (lost \/ inhead = intail)
    /\ UNCHANGED <<out, ring, togui, topd, tcl, budget, dirty, wiped, sent, pings, straddled, garbled>>

-----------------------------------------------------------------------------
(* The GUI process (tcl/pd_connect.tcl).  It evaluates what it is sent in  *)
(* batches: as many whole commands as there are when it reads.             *)

\* pdsend adds a semicolon and a newline to a text, whatever is in it; the newline is
\* white space in front of the next message.
pdsend(m) == topd' = topd \o Append(m, "semi") /\ sent' = sent \o Append(m, "semi")

\* A byte is evaluated; it may be the last of its batch.
GuiHandle ==
    /\ gui = "up" /\ togui # <<>>
    /\ togui' = Tail(togui)
    /\ IF Head(togui) = "ping" THEN pdsend(<<"p">>) ELSE UNCHANGED <<topd, sent>>
    /\ answered' \in {answered \/ Head(togui) = "ping", FALSE}
    /\ UNCHANGED <<out, ring, pd, gui, budget, dirty, wiped, lost, pings, straddled, garbled>>

\* A command fails: the rest of its batch is not evaluated, a ping among it or not.
GuiError(n) ==
    /\ gui = "up" /\ n \in 1 .. Len(togui) /\ Head(togui) # "ping"
    /\ togui' = SubSeq(togui, n + 1, Len(togui))
    /\ dropped' = (dropped \/ \E k \in 1 .. n : togui[k] = "ping")
    /\ answered' = FALSE
    /\ UNCHANGED <<out, ring, pd, topd, gui, budget, dirty, wiped, sent, lost, doubled, straddled,
                   garbled>>

\* A command fails for a missing brace: its batch is evaluated again, from the start.
GuiAgain ==
    /\ gui = "up" /\ togui # <<>> /\ Head(togui) # "ping" /\ answered /\ budget > 0
    /\ budget' = budget - 1
    /\ pdsend(<<"p">>)
    /\ doubled' = TRUE
    /\ UNCHANGED <<out, ring, pd, togui, tcl, dirty, wiped, lost, dropped, straddled, garbled>>

GuiUser(m) ==
    /\ gui = "up" /\ budget > 0
    /\ budget' = budget - 1
    /\ pdsend(m)
    /\ UNCHANGED <<out, ring, pd, togui, tcl, dirty, wiped, lost, pings, straddled, garbled>>

GuiDies ==
    /\ gui = "up"
    /\ gui' = "dead"
    /\ UNCHANGED <<out, ring, pd, togui, topd, answered, budget, history>>

pd_readsocket == GuiHandle \/ \E n \in 1 .. Len(togui) : GuiError(n)

\* One step of sys_pollgui.
PollStep ==
    \/ \E n \in 1 .. Len(guibuf) : PollFlush(n)
    \/ PollQueue \/ FlushPing \/ FlushEmpty \/ (\E n \in Lens : FlushOne(n))
    \/ \E n \in 0 .. Len(guibuf) : FlushEnd(n)
    \/ ReadDrop \/ ReadEof \/ DoRead \/ DoReadNone \/ Bail
    \/ \E n \in 1 .. Len(topd) : ReadSome(n)

Next ==
    \/ \E c \in Clients : sys_queuegui(c) \/ sys_unqueuegui(c)
    \/ \E n \in Lens : sys_vgui(n) \/ sys_pretendguibytes(n)
    \/ \E m \in UserMsgs : GuiUser(m)
    \/ PollStep \/ pd_readsocket \/ GuiAgain \/ GuiDies

Spec == Init /\ [][Next]_vars

\* The scheduler polls again and again, and the GUI reads what it is sent.
FairSpec == Spec /\ WF_vars(PollStep) /\ WF_vars(pd_readsocket)

-----------------------------------------------------------------------------
(* Properties.                                                             *)

\* The queue has exactly one entry for each client whose update is wanted and not
\* yet drawn, whatever handlers queue, take back and draw in between; but for those
\* that sys_unqueuegui dropped together with the head of the queue.
QueueExact ==
    /\ Queued = dirty \ wiped
    /\ \A j, k \in DOMAIN guiqueue : guiqueue[j] = guiqueue[k] => j = k

\* All bytes on the way to the GUI, oldest first, and all on the way back.
Down == togui \o guibuf
InRing == IF pd = "reading" THEN Filled ELSE (inhead - intail) % INBUFSIZE
Count(seq, b) == Cardinality({k \in DOMAIN seq : seq[k] = b})

\* Pd waits for a ping exactly as long as one ping, or its answer, is on the way:
\* otherwise it would never draw again, or draw without waiting.  It does wait for
\* ever (glob_ping is never called) when the ping was in a batch that the GUI gave up
\* or its answer was glued to a text, and only then.  An input buffer that overflows
\* may lose the answer, a batch that is evaluated again doubles it.
PingOnTheWay ==
    (~lost /\ ~doubled) =>
        /\ Count(Down, "ping") + Count(topd, "p")
             + Cardinality({k \in 0 .. InRing - 1 : inbuf[At(k)] = "p"})
             = IF waitingforping /\ ~dropped THEN 1 ELSE 0
        /\ dropped => waitingforping

\* However slow the GUI is and whatever else is sent to it, never more of the
\* updates wait for it than one ping's worth and one update that goes past it
\* (sys_flushqueue); but for a ping that was answered twice.
Backpressure ==
    ~doubled => \A max \in Lens : (\A n \in Lens : n <= max) =>
        Count(Down, "u") <= GUI_BYTESPERPING - 1 + max

\* The messages that Pd evaluates are those that the GUI sent, whole and in order,
\* however the bytes are cut on the way and wherever the buffer wraps.  Excepted are
\* dropped input and an escaped semicolon at the start of the buffer.
WholeMessages == garbled => (lost \/ straddled)

\* An update that an object asks for is drawn or taken back in the end, unless it
\* was wiped out with another's, or a ping or its answer was lost, or Pd exits.  The
\* GUI sends only so much by itself here (MaxEvents): sys_pollgui reads before it
\* draws, and would only read if there were always something.
EventuallyDrawn ==
    \A c \in Clients :
        c \in dirty ~> (c \notin dirty \/ c \in wiped \/ lost \/ dropped \/ pd = "exit")
=============================================================================
