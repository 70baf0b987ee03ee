------------------------------- MODULE Qlist --------------------------------
(***************************************************************************)
(* x_qlist.c and m_pd.c: a qlist sends the messages of its list to         *)
(* whatever is bound to the symbols they name.  A message can come back:   *)
(* the objects that receive it may bang, rewind, step, change or clear the *)
(* same qlist, and may bind and unbind receivers, while the qlist and the  *)
(* bindlist that forwards the message are still in the middle of it.       *)
(*                                                                         *)
(* The calls under way are frames of a stack.  An atom of the list is      *)
(* "f" (a float), ";", ",", "$" (a dollar sign), the name of a symbol, or  *)
(* "x" (a selector, which names nobody).  Delays are abstract: a clock     *)
(* that is set fires.  The arguments of a message are not copied: they are *)
(* atoms of the list's own vector, which moves when the list is changed.   *)
(***************************************************************************)
EXTENDS Bindlist, FiniteSets

CONSTANTS
    Symbols,        \* names of receivers
    Objects,        \* receive objects
    Name,           \* [Objects -> Symbols]
    Loads,          \* the objects that a patch may be loaded with: [Symbols -> newest first]
    Lists,          \* contents the list may get
    MaxCalls        \* bound: messages to the qlist and objects made or deleted

ASSUME QlistAssumption ==
    /\ Name \in [Objects -> Symbols] /\ Symbols \cap {"f", ";", ",", "$", "x"} = {}
    /\ \A l \in Lists : l \in Seq(Symbols \cup {"f", ";", ",", "$", "x"})
    /\ MaxCalls \in Nat
    /\ Loads \subseteq [Symbols -> Seq(Objects)]
    /\ \A load \in Loads, s \in Symbols :
          IsInjective(load[s]) /\ \A k \in DOMAIN load[s] : Name[load[s][k]] = s

VARIABLES
    x_binbuf, x_onset, x_reentered,
    moves,          \* how often the vector of x_binbuf was moved or freed under a call
    clock, x_whenclockset,      \* whether x_clock is set; whether the time is recorded
    s_thing,        \* [Symbols -> thing]
    bound,          \* history: [Symbols -> the objects that are bound, newest first]
    made, fresh,    \* the objects made so far; the next identity
    stack,          \* calls under way, innermost first
    calls,          \* how many calls there have been
    crashed,        \* a freed element, bindlist, object or argument was used: anything may
                    \* happen then
    inside,         \* history: an object was deleted from inside a message
    orphan,         \* history: x_onset is in a line whose head was bound to nothing, or that
                    \* a "next" from inside a message has found begun
    zombie,         \* history: what a pass did after the list was rewound under it: "step"
                    \* for going on in the list, "time" for clearing the time of a delay
    astray          \* history: a message went to another symbol than its line's

place   == <<x_onset, orphan>>
content == <<x_binbuf, moves>>
state   == <<content, place, x_reentered>>
timing  == <<clock, x_whenclockset>>
binding == <<s_thing, bound, made, fresh>>
faults  == <<crashed, inside, zombie, astray>>
vars    == <<state, timing, binding, stack, calls, faults>>

End == -1       \* stands for 0x7fffffff, which is past the end of every list

Init ==
    /\ x_binbuf \in Lists /\ moves = 0 /\ x_onset = End /\ x_reentered = FALSE
    /\ clock = FALSE /\ x_whenclockset = FALSE
    /\ \E load \in Loads :
         /\ bound = load
         /\ s_thing = [s \in Symbols |-> Loaded(load[s])]
         /\ made = UNION {Range(load[s]) : s \in Symbols} /\ fresh = 1
    /\ stack = <<>> /\ calls = 0
    /\ crashed = FALSE /\ inside = FALSE /\ orphan = FALSE /\ zombie = {} /\ astray = FALSE

Top == stack[1]
Is(frame) == stack # <<>> /\ Top.frame = frame /\ ~crashed

\* A call of qlist_donext.  target is what messages are sent to, sym the symbol it was
\* found under; rewound and moved are histories: whether the list was rewound, or stepped
\* on and no semicolon passed since, from inside this call.
DoNext(drop, automatic) ==
    [frame |-> "donext", drop |-> drop, automatic |-> automatic, target |-> NoThing, sym |-> "",
     was |-> FALSE, at |-> "loop", rewound |-> FALSE, moved |-> FALSE]

\* A call of the receiver of a message, and of a bindlist that passes one on.  argv tells
\* the vector that its arguments are in, if it has any.
NoArgs == -1
Handler(argv) == [frame |-> "handler", argv |-> argv]
ToElem(sym, elem, argv) == [frame |-> "bindlist", sym |-> sym, elem |-> elem, argv |-> argv]

\* The arguments are in a vector that is not the list's any more.
Stale(f) == f.frame \in {"handler", "bindlist"} /\ f.argv \notin {NoArgs, moves}

\* The calls of qlist_donext under way learn that the list was rewound, or stepped on.
Rewound(st) == [k \in DOMAIN st |-> IF st[k].frame = "donext" THEN [st[k] EXCEPT !.rewound = TRUE] ELSE st[k]]
Moved(st)   == [k \in DOMAIN st |-> IF st[k].frame = "donext" THEN [st[k] EXCEPT !.moved = TRUE] ELSE st[k]]

-----------------------------------------------------------------------------
(* Messages to the qlist and to the canvas, from outside (the stack is     *)
(* empty) or from an object that has received a message.                   *)

MayCall == ~crashed /\ calls < MaxCalls /\ (stack = <<>> \/ Is("handler"))
Call == MayCall /\ calls' = calls + 1

\* The vector is freed, or reallocated elsewhere; it matters only to calls under way.
VectorMoves == moves' = IF stack = <<>> THEN moves ELSE moves + 1

qlist_rewind ==
    /\ x_onset' = 0 /\ orphan' = FALSE
    /\ clock' = FALSE /\ x_whenclockset' = FALSE
    /\ x_reentered' = TRUE

Rewind ==
    /\ Call /\ qlist_rewind
    /\ stack' = Rewound(stack)
    /\ UNCHANGED <<content, binding, faults>>

qlist_bang ==
    /\ Call /\ qlist_rewind
    /\ stack' = <<DoNext(FALSE, TRUE)>> \o Rewound(stack)
    /\ UNCHANGED <<content, binding, faults>>

qlist_next(drop) ==
    /\ Call
    /\ stack' = <<DoNext(drop, FALSE)>> \o Moved(stack)
    /\ orphan' = (orphan \/ stack # <<>>)
    /\ UNCHANGED <<content, x_onset, x_reentered, timing, binding, faults>>

\* add2 does not end the message with a semicolon.  realloc may leave the vector in place.
qlist_add(l, semi) ==
    /\ Call
    /\ x_binbuf' = x_binbuf \o l \o (IF semi THEN <<";">> ELSE <<>>)
    /\ VectorMoves \/ UNCHANGED moves
    /\ UNCHANGED <<place, x_reentered, timing, binding, stack, faults>>

qlist_clear ==
    /\ Call /\ qlist_rewind
    /\ x_binbuf' = <<>> /\ VectorMoves
    /\ stack' = Rewound(stack)
    /\ UNCHANGED <<binding, faults>>

qlist_set(l) ==
    /\ Call /\ qlist_rewind
    /\ x_binbuf' = Append(l, ";") /\ VectorMoves
    /\ stack' = Rewound(stack)
    /\ UNCHANGED <<binding, faults>>

\* The clock stays set.  A file that cannot be read leaves the list as it is.
qlist_read(l) ==
    /\ Call
    /\ (x_binbuf' = l /\ VectorMoves) \/ UNCHANGED content
    /\ x_onset' = End /\ orphan' = FALSE /\ x_reentered' = TRUE
    /\ stack' = Rewound(stack)
    /\ UNCHANGED <<timing, binding, faults>>

\* With a delay under way the clock is set anew.
qlist_tempo ==
    /\ Call
    /\ clock' = (clock \/ x_whenclockset)
    /\ UNCHANGED <<state, x_whenclockset, binding, stack, faults>>

\* The scheduler: the clock fires.
qlist_tick ==
    /\ ~crashed /\ stack = <<>> /\ clock
    /\ clock' = FALSE /\ x_whenclockset' = FALSE
    /\ stack' = <<DoNext(FALSE, TRUE)>>
    /\ UNCHANGED <<state, binding, calls, faults>>

\* A receive object is made, or deleted.
MakeObject(o) ==
    LET s == Name[o]
    IN  /\ Call /\ o \notin made
        /\ s_thing' = [s_thing EXCEPT ![s] = pd_bind(@, o, fresh)]
        /\ bound' = [bound EXCEPT ![s] = <<o>> \o @]
        /\ made' = made \cup {o} /\ fresh' = fresh + 3
        /\ UNCHANGED <<state, timing, stack, faults>>

DeleteObject(o) ==
    LET s == Name[o]
    IN  /\ Call /\ \E k \in DOMAIN bound[s] : bound[s][k] = o
        /\ s_thing' = [s_thing EXCEPT ![s] = pd_unbind(@, o)]
        /\ bound' = [bound EXCEPT ![s] = RemoveFirst(@, o)]
        /\ inside' = (inside \/ stack # <<>>)
        /\ UNCHANGED <<made, fresh, state, timing, stack, crashed, zombie, astray>>

\* An object passes the message on to the next of several connections, or adds it to the
\* list: its arguments are read again.
HandlerRereads ==
    /\ Is("handler") /\ Stale(Top)
    /\ crashed' = TRUE
    /\ UNCHANGED <<state, timing, binding, stack, calls, inside, zombie, astray>>

\* The object that received a message is done with it.
HandlerReturns ==
    /\ Is("handler")
    /\ stack' = Tail(stack)
    /\ UNCHANGED <<state, timing, binding, calls, faults>>

-----------------------------------------------------------------------------
(* qlist_donext.  Positions count from 0.                                  *)

natom == Len(x_binbuf)
Atom(k) == x_binbuf[k + 1]
IsSep(k) == Atom(k) \in {";", ","}
FirstOf(P) == CHOOSE j \in P \cup {natom} : \A i \in P \cup {natom} : j <= i

\* Past separators; past floats; past one atom and the floats and symbols behind it.
SkipSeps(k)   == FirstOf({j \in k .. natom - 1 : ~IsSep(j)})
SkipFloats(k) == FirstOf({j \in k .. natom - 1 : Atom(j) # "f"})
SkipAtoms(k)  == FirstOf({j \in k + 1 .. natom - 1 : IsSep(j) \/ Atom(j) = "$"})

\* The call of the loop that is on top of the stack begins at onset, with no target if
\* it has passed a semicolon.
Onset  == SkipSeps(x_onset)
Passed == \E j \in x_onset .. Onset - 1 : Atom(j) = ";"

\* Mutation of Target: it is kept.
TargetKept == Top.target

Target == IF Passed THEN NoThing ELSE Top.target
AtEnd  == x_onset \in 0 .. natom - 1 => Onset = natom
AtTime == ~AtEnd /\ Target = NoThing /\ Atom(Onset) = "f"
AtMess == ~AtEnd /\ ~AtTime

Looping == Is("donext") /\ Top.at = "loop"
GoesOn == zombie' = IF Top.rewound THEN zombie \cup {"step"} ELSE zombie

\* The end of the list: a bang, and then the time is cleared.
DoEnd ==
    /\ Looping /\ AtEnd
    /\ x_onset' = End /\ orphan' = FALSE
    /\ stack' = <<Handler(NoArgs), [Top EXCEPT !.at = "banged"]>> \o Tail(stack)
    /\ GoesOn
    /\ UNCHANGED <<content, x_reentered, timing, binding, calls, crashed, inside, astray>>

\* A delay that was begun from inside the bang loses its time too.
DoEndBanged ==
    /\ Is("donext") /\ Top.at = "banged"
    /\ x_whenclockset' = FALSE
    /\ zombie' = IF Top.rewound /\ x_whenclockset THEN zombie \cup {"time"} ELSE zombie
    /\ stack' = Tail(stack)
    /\ UNCHANGED <<state, clock, binding, calls, crashed, inside, astray>>

\* Leading numbers: a delay, or a list for the outlet.
DoTime ==
    /\ Looping /\ AtTime
    /\ x_onset' = SkipFloats(Onset) /\ orphan' = (orphan /\ ~Passed)
    /\ IF Top.automatic THEN clock' = TRUE /\ x_whenclockset' = TRUE /\ stack' = Tail(stack)
       ELSE stack' = <<Handler(moves)>> \o Tail(stack) /\ UNCHANGED timing
    /\ GoesOn
    /\ UNCHANGED <<content, x_reentered, binding, calls, crashed, inside, astray>>

\* The symbol that the line of position k begins with, after leading numbers.
LineStart(k) ==
    LET semis == {j \in 0 .. k - 1 : Atom(j) = ";"}
    IN  IF semis = {} THEN 0 ELSE 1 + CHOOSE j \in semis : \A i \in semis : i <= j
LineSymbol(k) == Atom(FirstOf({j \in LineStart(k) .. natom - 1 : Atom(j) \notin {"f", ","}}))

Thing(a) == IF a \in Symbols THEN s_thing[a] ELSE NoThing

\* A line begins: its first symbol names the target.  It may be bound to nothing, or be
\* a dollar sign, and the line may go on after a comma only.
DoTarget ==
    /\ Looping /\ AtMess /\ Target = NoThing
    /\ (Thing(Atom(Onset)) = NoThing \/ SkipAtoms(Onset) = Onset + 1)
    /\ x_onset' = SkipAtoms(Onset)
    /\ orphan' = (Thing(Atom(Onset)) = NoThing \/ (orphan /\ ~Passed))
    /\ stack' = <<[Top EXCEPT !.target = Thing(Atom(Onset)), !.sym = Atom(Onset),
                              !.moved = @ /\ ~Passed]>> \o Tail(stack)
    /\ GoesOn
    /\ UNCHANGED <<content, x_reentered, timing, binding, calls, crashed, inside, astray>>

\* Whether thing t, found under symbol sym some time ago, is still there.
StillThere(t, sym) ==
    IF t.k = "bindlist" THEN s_thing[sym].id = t.id
    ELSE \E k \in DOMAIN bound[sym] : bound[sym][k] = t.elems[1].who

\* A message.  It is sent to one object, or to the first element of a bindlist; nothing
\* is sent if it begins with a dollar sign, or is to be dropped.
DoMess ==
    /\ Looping /\ AtMess
    /\ (Target # NoThing \/ (Thing(Atom(Onset)) # NoThing /\ SkipAtoms(Onset) > Onset + 1))
    /\ LET found == Target = NoThing
           to   == IF found THEN Thing(Atom(Onset)) ELSE Target
           sym  == IF found THEN Atom(Onset) ELSE Top.sym
           me   == [Top EXCEPT !.target = to, !.sym = sym, !.at = "sent", !.was = x_reentered,
                                !.moved = @ /\ ~Passed]
           there == StillThere(to, sym)
           now  == s_thing[sym]
           first == IF found THEN Onset + 1 ELSE Onset
           silent == Top.drop \/ Atom(first) = "$"
           argv == IF Atom(first) = "f" \/ SkipAtoms(Onset) > first + 1 THEN moves ELSE NoArgs
       IN  /\ stack' = IF silent \/ ~there THEN <<me>> \o Tail(stack)
                       ELSE IF to.k = "bindlist"
                       THEN <<Handler(argv), ToElem(sym, now.elems[1].id, argv), me>> \o Tail(stack)
                       ELSE <<Handler(argv), me>> \o Tail(stack)
           /\ crashed' = (~silent /\ ~there)
           /\ orphan' = (orphan /\ ~Passed)
           /\ astray' = (astray \/ (~me.moved /\ ~orphan' /\ sym # LineSymbol(Onset)))
    /\ x_onset' = SkipAtoms(Onset) /\ x_reentered' = FALSE
    /\ GoesOn
    /\ UNCHANGED <<content, timing, binding, calls, inside>>

\* bindlist_anything and the like: the element is read again after the call, and the
\* same arguments go to the next.
BindlistNext ==
    /\ Is("bindlist")
    /\ LET elems == s_thing[Top.sym].elems
           here  == {k \in DOMAIN elems : elems[k].id = Top.elem}
           next  == elems[1 + CHOOSE k \in here : TRUE].id
       IN  IF here = {} \/ (Len(elems) \notin here /\ Stale(Top))
           THEN crashed' = TRUE /\ UNCHANGED stack
           ELSE /\ stack' = IF Len(elems) \in here THEN Tail(stack)
                            ELSE <<Handler(Top.argv), ToElem(Top.sym, next, Top.argv)>> \o Tail(stack)
                /\ UNCHANGED crashed
    /\ UNCHANGED <<state, timing, binding, calls, inside, zombie, astray>>

\* Mutation of Sent: the flag is not restored.
SentForgets ==
    IF x_reentered THEN stack' = Tail(stack) /\ UNCHANGED x_reentered
    ELSE stack' = <<[Top EXCEPT !.at = "loop"]>> \o Tail(stack) /\ UNCHANGED x_reentered

\* The message has returned: the pass ends if the list was rewound meanwhile.
Sent ==
    IF x_reentered THEN stack' = Tail(stack) /\ UNCHANGED x_reentered
    ELSE stack' = <<[Top EXCEPT !.at = "loop"]>> \o Tail(stack) /\ x_reentered' = Top.was

DoSent ==
    /\ Is("donext") /\ Top.at = "sent" /\ Sent
    /\ UNCHANGED <<content, place, timing, binding, calls, faults>>

Next ==
    \/ Rewind \/ qlist_bang \/ qlist_clear \/ qlist_tempo \/ qlist_tick \/ HandlerRereads \/ HandlerReturns
    \/ \E drop \in BOOLEAN : qlist_next(drop)
    \/ \E l \in Lists : qlist_set(l) \/ qlist_read(l) \/ \E semi \in BOOLEAN : qlist_add(l, semi)
    \/ \E o \in Objects : MakeObject(o) \/ DeleteObject(o)
    \/ DoEnd \/ DoEndBanged \/ DoTime \/ DoTarget \/ DoMess \/ BindlistNext \/ DoSent

Spec == Init /\ [][Next]_vars

-----------------------------------------------------------------------------
(* Properties.                                                             *)

\* A message to a symbol reaches exactly the objects that are bound to it, the newest
\* first, and a bindlist has at least two elements (the comment in pd_unbind), however
\* objects are bound and unbound.
BindlistExact ==
    \A s \in Symbols :
        /\ Receivers(s_thing[s]) = bound[s]
        /\ s_thing[s].k = (CASE Len(bound[s]) = 0 -> "none" [] Len(bound[s]) = 1 -> "object"
                             [] OTHER -> "bindlist")

\* Freed memory is used only if an object was deleted from inside a message (elements
\* of a bindlist are read after the call, bindlist_anything, and a target is kept from
\* one message of a line to the next, qlist_donext), or if the call at the top of the
\* stack reads arguments that were moved since they were sent to it: a message that
\* changes its own list may not be passed on.
CrashNeedsChange == crashed => (inside \/ (stack # <<>> /\ Stale(Top)))

\* Once the list is rewound, restarted or replaced from inside one of its own
\* messages, the pass that sent the message does nothing more (x_reentered), at
\* whatever depth that happens; but after the bang at the end of the list it clears
\* x_whenclockset, also when the bang has restarted the list.
RewindStops == zombie \subseteq {"time"}

\* A message goes to the symbol at the head of its line.  Excepted are a line whose
\* head is bound to nothing, of which what follows a comma is taken for a line of its
\* own, and a "next" from inside a message: it does the same with the line that is
\* being sent, and the interrupted pass then goes on in another line with the old target.
RightReceiver == ~astray
=============================================================================
