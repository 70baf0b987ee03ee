------------------------------ MODULE Bindlist ------------------------------
(***************************************************************************)
(* m_pd.c: what is bound to a symbol (s_thing).  One object is bound       *)
(* directly; several are bound through a bindlist, whose elements are      *)
(* allocated and freed as objects come and go.                             *)
(*                                                                         *)
(* A thing is a record: k is "none", "object" or "bindlist"; id is the     *)
(* identity of the bindlist, and elems its elements, first to last, each   *)
(* with an identity of its own.  Identities are fresh, never reused; an    *)
(* object that is bound directly has no element, and the identity 0.       *)
(***************************************************************************)
EXTENDS Integers, Sequences, SequencesExt

NoThing == [k |-> "none", id |-> 0, elems |-> <<>>]
Elem(who, id) == [who |-> who, id |-> id]

\* What pd_bind has made of objects that were bound one after the other, newest first.
Loaded(objs) ==
    CASE Len(objs) = 0 -> NoThing
      [] Len(objs) = 1 -> [k |-> "object", id |-> 0, elems |-> <<Elem(objs[1], 0)>>]
      [] OTHER -> [k |-> "bindlist", id |-> -1, elems |-> [j \in DOMAIN objs |-> Elem(objs[j], -1 - j)]]

\* Mutation of pd_bind: a bindlist is made anew.
pd_bindAnew(s, x, fresh) ==
    IF s.k = "none" THEN [k |-> "object", id |-> 0, elems |-> <<Elem(x, 0)>>]
    ELSE [k |-> "bindlist", id |-> fresh,
          elems |-> <<Elem(x, fresh + 1)>> \o [k \in DOMAIN s.elems |-> Elem(s.elems[k].who, fresh + 1 + k)]]

\* x is bound; fresh is an identity not used before, nor are the next two.
pd_bind(s, x, fresh) ==
    CASE s.k = "none"   -> [k |-> "object", id |-> 0, elems |-> <<Elem(x, 0)>>]
      [] s.k = "object" -> [k |-> "bindlist", id |-> fresh,
                            elems |-> <<Elem(x, fresh + 1), Elem(s.elems[1].who, fresh + 2)>>]
      [] s.k = "bindlist" -> [s EXCEPT !.elems = <<Elem(x, fresh)>> \o @]

\* The elements without the first that holds x, if there is one.
WithoutFirst(elems, x) ==
    LET k == SelectInSeq(elems, LAMBDA e : e.who = x) IN IF k = 0 THEN elems ELSE RemoveAt(elems, k)

\* Mutation of pd_unbind: the last element stays in its bindlist.
pd_unbindStays(s, x) ==
    IF s.k = "object" THEN NoThing ELSE [s EXCEPT !.elems = WithoutFirst(@, x)]

\* The first element with x is freed.  The last that remains is freed too, with the
\* bindlist, and its object bound directly.  What is not bound cannot be unbound.
pd_unbind(s, x) ==
    CASE s.k = "object" /\ s.elems[1].who = x -> NoThing
      [] s.k = "bindlist" ->
           LET rest == WithoutFirst(s.elems, x)
           IN  IF Len(rest) > 1 THEN [s EXCEPT !.elems = rest]
               ELSE [k |-> "object", id |-> 0, elems |-> <<Elem(rest[1].who, 0)>>]
      [] OTHER -> s

\* The receivers, in the order in which a message reaches them.
Receivers(s) == [k \in DOMAIN s.elems |-> s.elems[k].who]
=============================================================================
