-------------------------------- MODULE Ugen --------------------------------
(***************************************************************************)
(* d_ugen.c: the DSP graph of a patch and its subpatches is sorted into a  *)
(* linear chain of operations, and signal vectors are reused as soon as    *)
(* nobody needs them any more.  Signals have reference counts; the signals *)
(* of a subpatch's inlets and outlets borrow their vectors from others.    *)
(*                                                                         *)
(* The chain runs in the order in which it is built, so the model carries  *)
(* out each operation when it is added.  The value of a vector is the bag  *)
(* of the ugen outlets that are summed in it; zeros are the empty bag.     *)
(* All vectors have the same size, which is when they are shared most.     *)
(***************************************************************************)
EXTENDS Integers, Sequences, SequencesExt, Bags, TLC

CONSTANTS
    Ugens,      \* the objects of all canvases, each in one canvas
    Class,      \* [Ugens -> {"plain", "canvas", "inlet", "outlet"}]
    NIn, NOut,  \* [Ugens -> Nat]: signal inlets and outlets
    Owner,      \* [Ugens -> canvas], the toplevel canvas being "top"
    Index,      \* [Ugens -> Nat]: which inlet or outlet of its canvas an inlet~ or outlet~ is
    Lists,      \* the orders dc_ugenlist may have: a set of sequences of all Ugens
    Wires,      \* the connections there may be: a sequence of <<u1, outno, u2, inno>>
    Modes       \* what block~ does in a subpatch: subset of {"none", "reblock", "switch"}

ASSUME UgenAssumption ==
    /\ Modes # {} /\ Modes \subseteq {"none", "reblock", "switch"}
    /\ \A k \in DOMAIN Wires :
         LET w == Wires[k]
         IN  Owner[w[1]] = Owner[w[3]] /\ w[2] \in 1 .. NOut[w[1]] /\ w[4] \in 1 .. NIn[w[3]]
    /\ \A l \in Lists : {l[k] : k \in DOMAIN l} = Ugens

VARIABLES
    wires,      \* the connections of this patch, in order
    ugenlist,   \* the order of this patch
    mode,       \* [canvas -> Modes]
    heap,       \* signals and vectors
    i_signal, i_ngot,   \* of the signal inlets
    o_signal,           \* of the signal outlets
    x_buf,      \* the buffers of inlet~ and outlet~ for reblocking
    stack,      \* calls of ugen_done_graph and ugen_doit under way
    u_done,     \* the ugens that were put on the chain
    val,        \* history: what each outlet delivers
    got         \* history: what each inlet received, of the ugens put on the chain

patch == <<wires, ugenlist, mode>>
ports == <<i_signal, i_ngot, o_signal>>
vars  == <<patch, heap, ports, x_buf, stack, u_done, val, got>>

Inlets  == UNION {{<<u, i>> : i \in 1 .. NIn[u]} : u \in Ugens}
Outlets == UNION {{<<u, o>> : o \in 1 .. NOut[u]} : u \in Ugens}
Canvases == {u \in Ugens : Class[u] = "canvas"}

-----------------------------------------------------------------------------
(* Signals.  A signal is a number; heap.free and heap.freeborrowed are     *)
(* stacks of signals that can be reused.                                   *)

Listed(h, s) == \E l \in {h.free, h.freeborrowed} : \E k \in DOMAIN l : l[k] = s

\* The signal that signal_new returns.
NewSignal(h, borrowed) ==
    LET list == IF borrowed THEN h.freeborrowed ELSE h.free
    IN  IF list # <<>> THEN Head(list) ELSE Len(h.sig) + 1

signal_new(h, borrowed) ==
    LET s == NewSignal(h, borrowed)
        reset == IF s \in DOMAIN h.sig
                 THEN [h EXCEPT !.sig[s].s_refcount = 0, !.sig[s].s_borrowedfrom = 0]
                 ELSE [h EXCEPT !.sig = Append(@, [s_vec |-> IF borrowed THEN 0 ELSE s,
                                                   s_refcount |-> 0, s_isborrowed |-> borrowed,
                                                   s_borrowedfrom |-> 0]),
                                !.vec = Append(@, EmptyBag)]
    IN  IF s \notin DOMAIN h.sig THEN reset
        ELSE IF borrowed THEN [reset EXCEPT !.freeborrowed = Tail(@)]
                         ELSE [reset EXCEPT !.free = Tail(@)]

RECURSIVE signal_makereusable(_, _)

\* A borrowed signal releases the one it borrows from.  A signal that is already
\* on a list, or that borrows from nobody, is a bug.
signal_makereusable(h, s) ==
    LET from == h.sig[s].s_borrowedfrom
        less == [h EXCEPT !.sig[from].s_refcount = @ - 1]
        rest == IF less.sig[from].s_refcount = 0 THEN signal_makereusable(less, from) ELSE less
    IN  IF Listed(h, s) \/ (h.sig[s].s_isborrowed /\ from = 0) THEN [h EXCEPT !.bug = TRUE]
        ELSE IF h.sig[s].s_isborrowed THEN [rest EXCEPT !.freeborrowed = <<s>> \o @]
        ELSE [h EXCEPT !.free = <<s>> \o @]

signal_setborrowed(h, s, from) ==
    [h EXCEPT !.sig[s].s_borrowedfrom = from, !.sig[s].s_vec = h.sig[from].s_vec,
              !.bug = @ \/ ~h.sig[s].s_isborrowed \/ h.sig[s].s_borrowedfrom # 0 \/ s = from]

\* An operation of the chain that fills the vector of a signal.
Fill(h, s, value) == [h EXCEPT !.vec[h.sig[s].s_vec] = value]
ValueOf(h, s) == h.vec[h.sig[s].s_vec]

\* A fresh vector with reference count n; a signal that loses a reader.
NewCounted(h, borrowed, n) ==
    LET s == NewSignal(h, borrowed) IN [signal_new(h, borrowed) EXCEPT !.sig[s].s_refcount = n]
FreeIfUnused(h, s) == IF h.sig[s].s_refcount = 0 THEN signal_makereusable(h, s) ELSE h
LessOne(h, s) == [h EXCEPT !.sig[s].s_refcount = @ - 1]

-----------------------------------------------------------------------------
(* The graph.                                                              *)

\* The connections of u's outlets, outlet by outlet, the newest first.
OConnections(u) ==
    FlattenSeq([o \in 1 .. NOut[u] |-> Reverse(SelectSeq(wires, LAMBDA w : w[1] = u /\ w[2] = o))])
ONconnect(u, o) == Len(SelectSeq(wires, LAMBDA w : w[1] = u /\ w[2] = o))
INconnect(u, i) == Len(SelectSeq(wires, LAMBDA w : w[3] = u /\ w[4] = i))
UgenlistOf(c) == SelectSeq(ugenlist, LAMBDA u : Owner[u] = c)
Members(c) == {u \in Ugens : Owner[u] = c}

\* dc_reblock and dc_switched: the toplevel canvas counts as reblocked.
Reblock(c)  == c = "top" \/ mode[c] = "reblock"
Switched(c) == c # "top" /\ mode[c] = "switch"

Numbers(n) == [k \in 1 .. n |-> k]
Top == stack[1]
Push(frame, rest) == <<frame>> \o rest

\* The outlets of an inlet~ and of a subpatch borrow; the inputs of an outlet~
\* and of a subpatch are kept.
NoNewSigs(u) ==
    Class[u] = "canvas" \/ (Class[u] = "inlet" /\ ~Reblock(Owner[u]))
NoFreeSigs(u) ==
    Class[u] = "canvas" \/ (Class[u] = "outlet" /\ ~Reblock(Owner[u]) /\ ~Switched(Owner[u]))

Init ==
    /\ wires \in {[k \in DOMAIN W |-> Wires[W[k]]] :
                      W \in {SelectSeq(Numbers(Len(Wires)), LAMBDA k : k \in D) :
                               D \in SUBSET DOMAIN Wires}}
    /\ ugenlist \in Lists
    /\ mode \in [Canvases -> Modes]
    /\ heap = [sig |-> <<>>, vec |-> <<>>, free |-> <<>>, freeborrowed |-> <<>>, bug |-> FALSE]
    /\ i_signal = [p \in Inlets |-> 0] /\ i_ngot = [p \in Inlets |-> 0]
    /\ o_signal = [p \in Outlets |-> 0]
    /\ x_buf = [u \in {v \in Ugens : Class[v] \in {"inlet", "outlet"}} |-> EmptyBag]
    /\ stack = <<[call |-> "begin", who |-> "top", todo |-> <<>>]>>
    /\ u_done = {}
    /\ val = [p \in Outlets |-> EmptyBag]
    /\ got = <<>>

-----------------------------------------------------------------------------
(* ugen_done_graph of canvas c: stack frames "begin" and "sort".           *)

\* A new vector of its own for each outlet of a reblocked or switched subpatch.
\* The reference that is counted is that of the borrower.
OwnOutputs(h, c) ==
    FoldLeft(LAMBDA g, o :
        IF g.sig[o_signal[c, o]].s_borrowedfrom # 0 THEN g
        ELSE LET s == NewSignal(g, FALSE)
                 g1 == signal_setborrowed(signal_new(g, FALSE), o_signal[c, o], s)
             IN  [g1 EXCEPT !.sig[o_signal[c, o]].s_refcount = @ + 1, !.vec[s] = EmptyBag],
        h, Numbers(NOut[c]))

\* The same without zeros: the new vector holds what it held.
OwnOutputsUnfilled(h, c) == [OwnOutputs(h, c) EXCEPT !.vec = [v \in DOMAIN @ |->
                                IF v \in DOMAIN h.vec THEN h.vec[v] ELSE EmptyBag]]

\* The inlet~ objects of a reblocked subpatch copy their input; the toplevel's
\* have none.  (The input's count is not 0, so it is not freed here.)
BeginGraph ==
    /\ Top.call = "begin"
    /\ LET c == Top.who
       IN  /\ heap' = IF c # "top" /\ (Reblock(c) \/ Switched(c))
                      THEN OwnOutputsUnfilled(heap, c) ELSE heap
           /\ x_buf' = [u \in DOMAIN x_buf |->
                          IF Owner[u] # c THEN x_buf[u]
                          ELSE IF Class[u] = "inlet" /\ c # "top" /\ Reblock(c)
                          THEN ValueOf(heap', i_signal[c, Index[u]])
                          ELSE EmptyBag]
           /\ stack' = Push([Top EXCEPT !.call = "sort", !.todo = UgenlistOf(c)], Tail(stack))
    /\ UNCHANGED <<patch, ports, u_done, val, got>>

\* The next ugen of the list, if it has no connected inlet.
SortNext ==
    /\ Top.call = "sort" /\ Top.todo # <<>>
    /\ LET u == Head(Top.todo)
           rest == Push([Top EXCEPT !.todo = Tail(@)], Tail(stack))
       IN  stack' = IF u \in u_done \/ \E i \in 1 .. NIn[u] : INconnect(u, i) > 0
                    THEN rest
                    ELSE Push([call |-> "enter", who |-> u, todo |-> <<>>], rest)
    /\ UNCHANGED <<patch, heap, ports, x_buf, u_done, val, got>>

\* Outputs that a loop has left without a vector get zeros; then outlet~ objects of
\* a reblocked subpatch copy their buffers out.  In a switched one that is running
\* the epilog is jumped over.
EndGraph ==
    /\ Top.call = "sort" /\ Top.todo = <<>>
    /\ LET c == Top.who
           looped == ~(Members(c) \subseteq u_done)
           filled == IF c # "top" /\ looped THEN OwnOutputs(heap, c) ELSE heap
           outlets == SelectSeq(UgenlistOf(c), LAMBDA u : Class[u] = "outlet")
       IN  heap' = IF c = "top" \/ ~Reblock(c) THEN filled
                   ELSE FoldLeft(LAMBDA h, u : Fill(h, o_signal[c, Index[u]], x_buf[u]),
                                 filled, outlets)
    /\ stack' = Tail(stack)
    /\ UNCHANGED <<patch, ports, x_buf, u_done, val, got>>

-----------------------------------------------------------------------------
(* ugen_doit of ugen u: stack frames "enter", "called" and "pass".         *)

\* Each step of ugen_doit works on heap, i_signal and o_signal together.
State == [h |-> heap, i |-> i_signal, o |-> o_signal]
InSigs(st, u)  == [i \in 1 .. NIn[u] |-> st.i[u, i]]
OutSigs(st, u) == [o \in 1 .. NOut[u] |-> st.o[u, o]]

\* Zeros (or a scalar) for the inlets that are not connected.
ZeroInlets(st, u) ==
    FoldLeft(LAMBDA g, i :
        LET s == NewSignal(g.h, FALSE)
        IN  [g EXCEPT !.h = Fill(NewCounted(g.h, FALSE, 1), s, EmptyBag), !.i[u, i] = s],
        st, SelectSeq(Numbers(NIn[u]), LAMBDA i : INconnect(u, i) = 0))

\* Mutation of FreeInputs: an input is freed whoever else reads it.
FreeInputsAll(st, u) == [st EXCEPT !.h = FoldLeft(signal_makereusable, @, InSigs(st, u))]

\* The inputs lose a reader, before the outputs are made.
FreeInputs(st, u) ==
    IF NoFreeSigs(u) THEN st
    ELSE [st EXCEPT !.h = FoldLeft(LAMBDA g, s : FreeIfUnused(LessOne(g, s), s), @, InSigs(st, u))]

NewOutputs(st, u) ==
    FoldLeft(LAMBDA g, o :
        [g EXCEPT !.h = NewCounted(@, NoNewSigs(u), ONconnect(u, o)),
                  !.o[u, o] = NewSignal(g.h, NoNewSigs(u))],
        st, Numbers(NOut[u]))

\* The "dsp" methods.  A plain ugen computes its outputs; a canvas is sorted later.
PlainDsp(st, u) ==
    FoldLeft(LAMBDA h, o : Fill(h, st.o[u, o], SetToBag({<<u, o>>})), st.h, Numbers(NOut[u]))

vinlet_dsp(st, u) ==
    IF Reblock(Owner[u]) THEN Fill(st.h, st.o[u, 1], x_buf[u])
    ELSE signal_setborrowed(st.h, st.o[u, 1], st.i[Owner[u], Index[u]])

voutlet_dsp(st, u, value) ==
    LET parent == st.o[Owner[u], Index[u]]
    IN  IF Reblock(Owner[u]) THEN st.h
        ELSE IF Switched(Owner[u]) THEN Fill(st.h, parent, value)
        ELSE signal_setborrowed(st.h, parent, st.i[u, 1])

\* Up to the call of the "dsp" method, and the method of everything but a canvas.
\* The values of the inputs are those at the call.
Enter ==
    /\ Top.call = "enter"
    /\ LET u  == Top.who
           st0 == ZeroInlets(State, u)
           st == NewOutputs(FreeInputs(st0, u), u)
           in == [i \in 1 .. NIn[u] |-> ValueOf(st0.h, st0.i[u, i])]
           called == Push([Top EXCEPT !.call = "called"], Tail(stack))
       IN  /\ heap' = CASE Class[u] = "plain"  -> PlainDsp(st, u)
                        [] Class[u] = "inlet"  -> vinlet_dsp(st, u)
                        [] Class[u] = "outlet" -> voutlet_dsp(st, u, in[1])
                        [] Class[u] = "canvas" -> st.h
           /\ i_signal' = st.i /\ o_signal' = st.o
           /\ x_buf' = IF Class[u] = "outlet" /\ Reblock(Owner[u])
                       THEN [x_buf EXCEPT ![u] = @ (+) in[1]] ELSE x_buf
           /\ got' = got @@ (u :> in)
           /\ val' = [p \in Outlets |->
                        IF p[1] # u \/ Class[u] = "canvas" THEN val[p]
                        ELSE IF Class[u] = "plain" THEN SetToBag({p})
                        ELSE IF Owner[u] = "top" THEN EmptyBag
                        ELSE got[Owner[u]][Index[u]]]
           /\ stack' = IF Class[u] # "canvas" THEN called
                       ELSE Push([call |-> "begin", who |-> u, todo |-> <<>>], called)
    /\ UNCHANGED <<patch, i_ngot, u_done>>

\* What an outlet of canvas u delivers: what its outlet~ got, or zeros if that was
\* caught in a loop.  But the vector of a switched subpatch is filled by nobody then.
Delivered(u, o) ==
    LET outlet == CHOOSE v \in Members(u) : Class[v] = "outlet" /\ Index[v] = o
    IN  IF outlet \in DOMAIN got THEN got[outlet][1]
        ELSE IF Switched(u) THEN ValueOf(heap, o_signal[u, o])
        ELSE EmptyBag

\* Mutation of FreeOutputs: also outputs that somebody reads.
FreeOutputsAll(h, out) == FoldLeft(signal_makereusable, h, out)

\* Outputs that are not connected are free.
FreeOutputs(h, out) == FoldLeft(FreeIfUnused, h, out)

Called ==
    /\ Top.call = "called"
    /\ LET u == Top.who
       IN  /\ heap' = FreeOutputs(heap, OutSigs(State, u))
           /\ val' = [p \in Outlets |-> IF p[1] = u /\ Class[u] = "canvas"
                                        THEN Delivered(u, p[2]) ELSE val[p]]
           /\ stack' = Push([Top EXCEPT !.call = "pass", !.todo = OConnections(u)], Tail(stack))
    /\ UNCHANGED <<patch, ports, x_buf, u_done, got>>

\* If an inlet has a signal already, the sum of the two takes its place.
Sum(h, s1, s2) ==
    LET h1 == LessOne(LessOne(h, s1), s2)
        s3 == NewSignal(h1, FALSE)
        h2 == Fill(NewCounted(h1, FALSE, 1), s3, ValueOf(h1, s1) (+) ValueOf(h1, s2))
    IN  FreeIfUnused(FreeIfUnused(h2, s1), s2)

\* Mutation of Full: an inlet without connections is waited for.
FullConnected(ngot, u) == \A i \in 1 .. NIn[u] : ngot[u, i] > 0 /\ ngot[u, i] >= INconnect(u, i)

\* All inlets of u have got all their signals.
Full(ngot, u) == \A i \in 1 .. NIn[u] : ngot[u, i] >= INconnect(u, i)

\* One connection; the ugen that has now got everything is put on the chain first.
Pass ==
    /\ Top.call = "pass" /\ Top.todo # <<>>
    /\ LET w  == Head(Top.todo)
           p  == <<w[3], w[4]>>
           s1 == o_signal[w[1], w[2]]
           s2 == i_signal[p]
           rest == Push([Top EXCEPT !.todo = Tail(@)], Tail(stack))
       IN  /\ heap' = IF s2 # 0 THEN Sum(heap, s1, s2) ELSE heap
           /\ i_signal' = [i_signal EXCEPT ![p] =
                             IF s2 # 0 THEN NewSignal(LessOne(LessOne(heap, s1), s2), FALSE) ELSE s1]
           /\ i_ngot' = [i_ngot EXCEPT ![p] = @ + 1]
           /\ stack' = IF Full(i_ngot', p[1])
                       THEN Push([call |-> "enter", who |-> p[1], todo |-> <<>>], rest)
                       ELSE rest
    /\ UNCHANGED <<patch, o_signal, x_buf, u_done, val, got>>

Return ==
    /\ Top.call = "pass" /\ Top.todo = <<>>
    /\ u_done' = u_done \cup {Top.who}
    /\ stack' = Tail(stack)
    /\ UNCHANGED <<patch, heap, ports, x_buf, val, got>>

Next ==
    /\ stack # <<>>
    /\ \/ BeginGraph \/ SortNext \/ EndGraph
       \/ Enter \/ Called \/ Pass \/ Return

Spec == Init /\ [][Next]_vars

-----------------------------------------------------------------------------
(* Properties.                                                             *)

\* The sharing of vectors is not audible: every ugen, when it runs, finds in each
\* inlet the sum of what the outlets connected to it deliver, although vectors are
\* reused, borrowed into and out of subpatches, and summed in place
\* (ugen_doit, signal_makereusable, signal_setborrowed).
InputsIntact ==
    \A u \in DOMAIN got : \A i \in 1 .. NIn[u] :
        got[u][i] = FoldLeft(LAMBDA b, w : b (+) val[w[1], w[2]], EmptyBag,
                             SelectSeq(wires, LAMBDA w : w[3] = u /\ w[4] = i))

\* A signal is never made reusable twice, nor borrowed twice (the bug messages of
\* signal_makereusable and signal_setborrowed), unless the patch connects the same
\* two ports twice: then both summands are the same signal.
FreedOnce ==
    heap.bug => \E j, k \in DOMAIN wires : j # k /\ wires[j] = wires[k]

\* Reference: u can be sorted if no loop leads to it, nor to a canvas around it.
Leads == FoldLeft(LAMBDA R, v : R \cup {p \in Ugens \X Ugens : <<p[1], v>> \in R /\ <<v, p[2]>> \in R},
                  {<<wires[k][1], wires[k][3]>> : k \in DOMAIN wires}, ugenlist)
Sortable ==
    LET looping == {v \in Ugens : <<v, v>> \in Leads}
        free == {u \in Ugens \ looping : \A v \in looping : <<v, u>> \notin Leads}
        in[u \in Ugens] == u \in free /\ (Owner[u] # "top" => in[Owner[u]])
    IN  {u \in Ugens : in[u]}

\* The sort leaves out exactly the ugens that a loop leads to: whatever the order of
\* the list and however the recursion of ugen_doit runs, everything else is put on
\* the chain (ugen_done_graph's "DSP loop detected").
SortComplete == stack = <<>> => (u_done = Sortable /\ DOMAIN got = Sortable)
=============================================================================
