------------------------------- MODULE Clock -------------------------------
(***************************************************************************)
(* The clocks of m_sched.c: callbacks that wait for a logical time.        *)
(* clock_setlist is the linked list of the clocks that are set, in the     *)
(* order in which they will fire; here it is the sequence of its members.  *)
(* c_settime[c] is -1 for a clock that is not set.  Logical time is a      *)
(* double in the code; only its order and differences matter here, so it   *)
(* is an integer number of units.                                          *)
(*                                                                         *)
(* An action of this module leaves sys_time to its caller: logical time    *)
(* moves only in sched_tick (module Sched).                                *)
(***************************************************************************)
EXTENDS Integers, Sequences, SequencesExt

CONSTANT Clocks        \* the clock objects that clients may allocate

VARIABLES
    sys_time,          \* current logical time
    c_settime,         \* [Clocks -> Int], -1 when the clock is not set
    clock_setlist,     \* the clocks that are set, next to fire first
    live               \* the clocks that are allocated

clockVars == <<sys_time, c_settime, clock_setlist, live>>

ClockInit ==
    /\ sys_time = 0
    /\ c_settime = [c \in Clocks |-> -1]
    /\ clock_setlist = <<>>
    /\ live = {}

IsSet(c) == c_settime[c] >= 0

\* The list once clock_unset has unlinked c; unchanged if c is not set.
Unlinked(c) ==
    IF IsSet(c)
    THEN RemoveAt(clock_setlist, CHOOSE i \in DOMAIN clock_setlist : clock_setlist[i] = c)
    ELSE clock_setlist

\* Mutations of IsPlaceFor: at the head of the list; before the clocks due at t.
PlaceAtHead(l, t, i) == i = 1
PlaceBeforeTies(l, t, i) ==
    /\ \A j \in 1 .. i - 1 : c_settime[l[j]] < t
    /\ i <= Len(l) => c_settime[l[i]] >= t

\* Where clock_set's loop stops in the list l: after every clock that is due
\* no later than t, before the first one that is due later.
IsPlaceFor(l, t, i) ==
    /\ \A j \in 1 .. i - 1 : c_settime[l[j]] <= t
    /\ i <= Len(l) => c_settime[l[i]] > t

clock_new(c) ==
    /\ c \notin live
    /\ live' = live \cup {c}
    /\ c_settime' = [c_settime EXCEPT ![c] = -1]
    /\ UNCHANGED clock_setlist

clock_unset(c) ==
    /\ c \in live
    /\ clock_setlist' = Unlinked(c)
    /\ c_settime' = [c_settime EXCEPT ![c] = -1]
    /\ UNCHANGED live

\* Mutation of Clamped: times in the past are kept.
NotClamped(setticks) == setticks

\* A time in the past is moved up to the present before c is linked in.
Clamped(setticks) == IF setticks < sys_time THEN sys_time ELSE setticks

clock_set(c, setticks) ==
    LET t == Clamped(setticks)
        l == Unlinked(c)
    IN  /\ c \in live
        /\ \E i \in 1 .. Len(l) + 1 :
              /\ IsPlaceFor(l, t, i)
              /\ clock_setlist' = InsertAt(l, i, c)
        /\ c_settime' = [c_settime EXCEPT ![c] = t]
        /\ UNCHANGED live

clock_delay(c, delaytime) == clock_set(c, sys_time + delaytime)

clock_free(c) ==
    /\ c \in live
    /\ clock_setlist' = Unlinked(c)
    /\ c_settime' = [c_settime EXCEPT ![c] = -1]
    /\ live' = live \ {c}

-----------------------------------------------------------------------------
(* What the list promises.                                                 *)

\* The clocks on the list are exactly the ones that are set, each is there
\* once, and every one of them is allocated: this is what lets clock_unset
\* walk the list until it meets its clock without ever testing for the end.
ListIsSetClocks ==
    /\ \A c \in Clocks : IsSet(c) => \E i \in DOMAIN clock_setlist : clock_setlist[i] = c
    /\ \A i \in DOMAIN clock_setlist : IsSet(clock_setlist[i]) /\ clock_setlist[i] \in live
    /\ \A i, j \in DOMAIN clock_setlist : clock_setlist[i] = clock_setlist[j] => i = j

\* The list is in firing order and no clock on it is overdue: sched_tick only
\* ever looks at the head.
ListInOrder ==
    /\ \A i, j \in DOMAIN clock_setlist :
          i < j => c_settime[clock_setlist[i]] <= c_settime[clock_setlist[j]]
    /\ \A i \in DOMAIN clock_setlist : c_settime[clock_setlist[i]] >= sys_time

ClockTypeOK ==
    /\ sys_time \in Nat
    /\ c_settime \in [Clocks -> Int]
    /\ clock_setlist \in Seq(Clocks)
    /\ live \in SUBSET Clocks
=============================================================================
