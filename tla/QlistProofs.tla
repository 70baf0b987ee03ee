---------------------------- MODULE QlistProofs -----------------------------
(***************************************************************************)
(* Proofs about Qlist: what is bound to a symbol is exact, a rewound pass  *)
(* stops at whatever depth, freed memory is used only if an object is      *)
(* deleted, or the list changed, from inside a message, and a message goes *)
(* to the symbol at the head of its line.                                  *)
(***************************************************************************)
EXTENDS Qlist, TLAPS, WellFoundedInduction

-----------------------------------------------------------------------------
(* The inductive invariant.                                                *)

Elems    == [who : Objects, id : Int]
Things   == {t \in [k : {"none", "object", "bindlist"}, id : Int, elems : Seq(Elems)] :
                t.k = "bindlist" <=> t.id # 0}
Alphabet == Symbols \cup {"f", ";", ",", "$", "x"}
DoNexts  == {f \in [frame : {"donext"}, drop : BOOLEAN, automatic : BOOLEAN, target : Things,
                    sym : Alphabet \cup {""}, was : BOOLEAN, at : {"loop", "sent", "banged"},
                    rewound : BOOLEAN, moved : BOOLEAN] :
                f.target # NoThing => f.sym \in Symbols}
Frames   == DoNexts \cup [frame : {"handler"}, argv : Int]
                    \cup [frame : {"bindlist"}, sym : Symbols, elem : Int, argv : Int]

Types ==
    /\ x_binbuf \in Seq(Alphabet) /\ x_onset \in Nat \cup {End} /\ x_reentered \in BOOLEAN
    /\ moves \in Nat
    /\ s_thing \in [Symbols -> Things] /\ bound \in [Symbols -> Seq(Objects)]
    /\ made \subseteq Objects /\ fresh \in Nat \ {0}
    /\ stack \in Seq(Frames)
    /\ crashed \in BOOLEAN /\ inside \in BOOLEAN /\ orphan \in BOOLEAN

\* Thing t stands for the objects objs.
Exact(t, objs) ==
    /\ Receivers(t) = objs
    /\ t.k = (CASE Len(objs) = 0 -> "none" [] Len(objs) = 1 -> "object" [] OTHER -> "bindlist")
    /\ t.k = "none" => t = NoThing

\* An object is bound once, under its own name, after it was made.
Bindings ==
    \A s \in Symbols :
        /\ Exact(s_thing[s], bound[s]) /\ IsInjective(bound[s])
        /\ \A k \in 1 .. Len(bound[s]) : Name[bound[s][k]] = s /\ bound[s][k] \in made

\* None of the calls of s is between two messages: only the innermost call may be.
Calm(s) == \A k \in 1 .. Len(s) : s[k].frame = "donext" => s[k].at # "loop"

Depth == stack = <<>> \/ Calm(Tail(stack))

\* A pass of s that is sending a message will be told, when the message returns, whether it
\* was rewound: by the flag r, or by the value of the flag that a call inside it has saved
\* and will restore.
Saves(f) == f.frame = "donext" /\ f.at = "sent" /\ f.was

Stops(s, r) ==
    \A k \in 1 .. Len(s) :
        s[k].frame = "donext" =>
            /\ s[k].rewound => s[k].at \in {"sent", "banged"}
            /\ s[k].at = "sent" => (s[k].rewound <=> r \/ \E j \in 1 .. k - 1 : Saves(s[j]))

Rewinds == Stops(stack, x_reentered)

\* What a call has kept a pointer to is still there, with things th and bound objects bd.
Kept(t, sym, th, bd) ==
    /\ sym \in Symbols
    /\ \/ t.k = "bindlist" /\ th[sym].k = "bindlist" /\ th[sym].id = t.id
       \/ t.k = "object" /\ \E m \in 1 .. Len(bd[sym]) : bd[sym][m] = t.elems[1].who

KeptElem(sym, elem, th) ==
    /\ sym \in Symbols /\ th[sym].k = "bindlist"
    /\ \E m \in 1 .. Len(th[sym].elems) : th[sym].elems[m].id = elem

SafeFrame(f, th, bd) ==
    /\ f.frame = "donext" => f.target = NoThing \/ Kept(f.target, f.sym, th, bd)
    /\ f.frame = "bindlist" => KeptElem(f.sym, f.elem, th)

AllSafe(s, th, bd) == \A k \in 1 .. Len(s) : SafeFrame(s[k], th, bd)

Safe == ~inside => AllSafe(stack, s_thing, bound)

IInv == Types /\ Bindings /\ Depth /\ Rewinds /\ Safe /\ CrashNeedsChange /\ RewindStops

-----------------------------------------------------------------------------
(* The inductive invariant of RightReceiver.                               *)

\* Position x of list b follows nothing but numbers and commas in its line.
Clean(b, x) ==
    \E s \in 0 .. x : /\ s = 0 \/ b[s] = ";"
                      /\ \A j \in s .. x - 1 : b[j + 1] \in {"f", ","}

\* Position x of list b is in a line that begins with sym, or right behind it.
Headed(b, x, sym) ==
    /\ sym \notin {"f", ",", ";"}
    /\ \E s \in 0 .. x : \E h \in s .. x - 1 :
         /\ s = 0 \/ b[s] = ";"
         /\ \A j \in s .. h - 1 : b[j + 1] \in {"f", ","}
         /\ b[h + 1] = sym
         /\ \A j \in h .. x - 1 : b[j + 1] # ";"

\* What the innermost pass f may take for granted of the position: nothing, if the list
\* was stepped on from inside it.
Claim(f, b, x) ==
    IF f.rewound \/ f.at = "banged" THEN Clean(b, x)
    ELSE f.moved \/ (IF f.target = NoThing THEN Clean(b, x) ELSE Headed(b, x, f.sym))

InnerLine(s, b, x) ==
    /\ (\A k \in 1 .. Len(s) : s[k].frame # "donext") => Clean(b, x)
    /\ \A k \in 1 .. Len(s) :
          s[k].frame = "donext" /\ (\A j \in 1 .. k - 1 : s[j].frame # "donext")
              => Claim(s[k], b, x)

Lines == ~orphan /\ x_onset # End => InnerLine(stack, x_binbuf, x_onset)

\* All the passes of s were rewound or stepped on; all but the innermost were.
Stepped(s) == \A k \in 1 .. Len(s) : s[k].frame = "donext" => s[k].moved \/ s[k].rewound

Nested(s) ==
    \A k \in 1 .. Len(s) : s[k].frame = "donext" /\ (\E j \in 1 .. k - 1 : s[j].frame = "donext")
                               => s[k].moved \/ s[k].rewound

\* A pass that is sending a message, or was stepped on, has a target.
AimedFrame(f) ==
    f.frame = "donext" => /\ f.at = "sent" => f.target # NoThing
                          /\ f.moved /\ f.at # "banged" => f.target # NoThing

Aimed(s) == \A k \in 1 .. Len(s) : AimedFrame(s[k])

LInv ==
    /\ x_onset = End \/ x_onset \in 0 .. natom
    /\ Nested(stack) /\ Aimed(stack) /\ Lines /\ ~astray
-----------------------------------------------------------------------------
(* Lemmas about sequences and stacks.                                      *)

\* A set of natural numbers has a least one.
LEMMA Least ==
    ASSUME NEW P, P \subseteq Nat, NEW n \in P
    PROVE  \E j \in P : \A i \in P : j <= i
<1>1. PICK x \in P : \A y \in P : ~ (<<y, x>> \in OpToRel(<, Nat))
    BY WFMin, NatLessThanWellFounded
<1>2. \A y \in P : <<y, x>> \in OpToRel(<, Nat) <=> y < x
    BY DEF OpToRel
<1>3. \A y \in P : ~ (y < x)
    BY <1>1, <1>2, Zenon
<1> QED BY <1>3

\* An element in front of a sequence.
LEMMA Pushed ==
    ASSUME NEW S, NEW s \in Seq(S), NEW f \in S
    PROVE  /\ <<f>> \o s \in Seq(S) /\ <<f>> \o s # <<>>
           /\ Len(<<f>> \o s) = Len(s) + 1
           /\ (<<f>> \o s)[1] = f /\ Tail(<<f>> \o s) = s
           /\ \A k \in 2 .. Len(s) + 1 : (<<f>> \o s)[k] = s[k - 1]
<1>1. /\ <<f>> \o s \in Seq(S) /\ <<f>> \o s # <<>> /\ Len(<<f>> \o s) = Len(s) + 1
      /\ (<<f>> \o s)[1] = f /\ \A k \in 2 .. Len(s) + 1 : (<<f>> \o s)[k] = s[k - 1]
    OBVIOUS
<1> DEFINE t == Tail(<<f>> \o s)
<1>2. t \in Seq(S) /\ Len(t) = Len(s) /\ \A k \in 1 .. Len(s) : t[k] = s[k]
    OBVIOUS
<1>3. t = s
  <2> HIDE DEF t
  <2> QED BY <1>2
<1> QED BY <1>1, <1>3

\* A sequence without its first element.
LEMMA Popped ==
    ASSUME NEW S, NEW s \in Seq(S), s # <<>>
    PROVE  /\ Tail(s) \in Seq(S) /\ Len(Tail(s)) = Len(s) - 1
           /\ Len(s) >= 1 /\ s[1] \in S
           /\ \A k \in 1 .. Len(s) - 1 : Tail(s)[k] = s[k + 1]
    OBVIOUS

\* One call, two and three, in front of the others.
Onto(f, s) == <<f>> \o s
TwoOnto(f, g, s) == <<f, g>> \o s
ThreeOnto(f, g, h, s) == <<f, g, h>> \o s

\* Two calls in front of the others are one after the other.
LEMMA PushedTwice ==
    ASSUME NEW s \in Seq(Frames), NEW f \in Frames, NEW g \in Frames
    PROVE  TwoOnto(f, g, s) = Onto(f, Onto(g, s))
<1> DEFINE a == <<f, g>> \o s
           b == <<f>> \o (<<g>> \o s)
<1>1. a \in Seq(Frames) /\ Len(a) = Len(s) + 2
    OBVIOUS
<1>2. b \in Seq(Frames) /\ Len(b) = Len(s) + 2
    OBVIOUS
<1>3. ASSUME NEW k \in 1 .. Len(s) + 2 PROVE a[k] = b[k]
    OBVIOUS
<1> HIDE DEF a, b
<1>4. a = b
    BY <1>1, <1>2, <1>3
<1> QED BY <1>4, Zenon DEF a, b, Onto, TwoOnto

\* Three calls in front of the others are one after the other.
LEMMA PushedThrice ==
    ASSUME NEW s \in Seq(Frames), NEW f \in Frames, NEW g \in Frames, NEW h \in Frames
    PROVE  ThreeOnto(f, g, h, s) = Onto(f, Onto(g, Onto(h, s)))
<1> DEFINE a == <<f, g, h>> \o s
           b == <<f>> \o (<<g, h>> \o s)
<1>1. a \in Seq(Frames) /\ Len(a) = Len(s) + 3
    OBVIOUS
<1>2. b \in Seq(Frames) /\ Len(b) = Len(s) + 3
    OBVIOUS
<1>3. ASSUME NEW k \in 1 .. Len(s) + 3 PROVE a[k] = b[k]
    OBVIOUS
<1> HIDE DEF a, b
<1>4. a = b
    BY <1>1, <1>2, <1>3
<1>5. TwoOnto(g, h, s) = Onto(g, Onto(h, s))
    BY PushedTwice
<1> QED BY <1>4, <1>5, Zenon DEF a, b, Onto, TwoOnto, ThreeOnto

\* A call that is not between two messages, in front of calls that are not.
LEMMA CalmPush ==
    ASSUME NEW s \in Seq(Frames), NEW f \in Frames, Calm(s),
           f.frame = "donext" => f.at # "loop"
    PROVE  Calm(<<f>> \o s)
<1>1. /\ Len(<<f>> \o s) = Len(s) + 1 /\ (<<f>> \o s)[1] = f
      /\ \A k \in 2 .. Len(s) + 1 : (<<f>> \o s)[k] = s[k - 1]
    BY Pushed
<1> DEFINE t == <<f>> \o s
<1> HIDE DEF t
<1>2. \A k \in 1 .. Len(s) + 1 : t[k].frame = "donext" => t[k].at # "loop"
  <2> SUFFICES ASSUME NEW k \in 1 .. Len(s) + 1 PROVE t[k].frame = "donext" => t[k].at # "loop"
      OBVIOUS
  <2>1. CASE k = 1
      BY <1>1, <2>1 DEF t
  <2>2. CASE k # 1
    <3>1. k \in 2 .. Len(s) + 1 /\ k - 1 \in 1 .. Len(s)
        BY <2>2
    <3> QED BY <1>1, <3>1 DEF t, Calm
  <2> QED BY <2>1, <2>2
<1> QED BY <1>1, <1>2 DEF t, Calm

\* Without the innermost call the others are told as before.
LEMMA StopsPop ==
    ASSUME NEW s \in Seq(Frames), s # <<>>, NEW r \in BOOLEAN, NEW q \in BOOLEAN,
           Stops(s, r), q <=> r \/ Saves(s[1])
    PROVE  Stops(Tail(s), q)
<1> DEFINE t == Tail(s)
<1>1. Len(t) = Len(s) - 1 /\ \A k \in 1 .. Len(s) - 1 : t[k] = s[k + 1]
    BY Popped
<1> HIDE DEF t
<1> SUFFICES ASSUME NEW k \in 1 .. Len(t), t[k].frame = "donext"
             PROVE  /\ t[k].rewound => t[k].at \in {"sent", "banged"}
                    /\ t[k].at = "sent" =>
                          (t[k].rewound <=> q \/ \E j \in 1 .. k - 1 : Saves(t[j]))
    BY DEF Stops, t
<1>2. k \in 1 .. Len(s) - 1 /\ k + 1 \in 1 .. Len(s) /\ t[k] = s[k + 1]
    BY <1>1
<1>3. /\ t[k].rewound => t[k].at \in {"sent", "banged"}
      /\ t[k].at = "sent" => (t[k].rewound <=> r \/ \E j \in 1 .. (k + 1) - 1 : Saves(s[j]))
    BY <1>2 DEF Stops
<1>4. \A j \in 1 .. (k + 1) - 1 : j = 1 \/ (j - 1 \in 1 .. k - 1 /\ t[j - 1] = s[j])
  <2> SUFFICES ASSUME NEW j \in 1 .. (k + 1) - 1, j # 1
               PROVE  j - 1 \in 1 .. k - 1 /\ t[j - 1] = s[j]
      OBVIOUS
  <2>1. j - 1 \in 1 .. k - 1 /\ j - 1 \in 1 .. Len(s) - 1 /\ (j - 1) + 1 = j
      BY <1>2
  <2> QED BY <1>1, <2>1
<1>5. \A j \in 1 .. k - 1 : j + 1 \in 1 .. (k + 1) - 1 /\ t[j] = s[j + 1]
  <2> SUFFICES ASSUME NEW j \in 1 .. k - 1
               PROVE  j + 1 \in 1 .. (k + 1) - 1 /\ t[j] = s[j + 1]
      OBVIOUS
  <2>1. j \in 1 .. Len(s) - 1 /\ j + 1 \in 1 .. (k + 1) - 1
      BY <1>2
  <2> QED BY <1>1, <2>1
<1>6. 1 \in 1 .. (k + 1) - 1
    BY <1>2
<1>7. (r \/ \E j \in 1 .. (k + 1) - 1 : Saves(s[j])) <=> (q \/ \E j \in 1 .. k - 1 : Saves(t[j]))
    BY <1>4, <1>5, <1>6, Zenon
<1> QED BY <1>3, <1>7, Zenon

\* With a new innermost call the others are told as before.
LEMMA StopsPush ==
    ASSUME NEW s \in Seq(Frames), NEW f \in Frames, NEW r \in BOOLEAN, NEW q \in BOOLEAN,
           Stops(s, r), r <=> q \/ Saves(f),
           f.frame = "donext" => /\ f.rewound => f.at \in {"sent", "banged"}
                                 /\ f.at = "sent" => (f.rewound <=> q)
    PROVE  Stops(<<f>> \o s, q)
<1> DEFINE t == <<f>> \o s
<1>1. /\ Len(t) = Len(s) + 1 /\ t[1] = f
      /\ \A k \in 2 .. Len(s) + 1 : t[k] = s[k - 1]
    BY Pushed
<1> HIDE DEF t
<1> SUFFICES ASSUME NEW k \in 1 .. Len(t), t[k].frame = "donext"
             PROVE  /\ t[k].rewound => t[k].at \in {"sent", "banged"}
                    /\ t[k].at = "sent" =>
                          (t[k].rewound <=> q \/ \E j \in 1 .. k - 1 : Saves(t[j]))
    BY DEF Stops, t
<1>2. CASE k = 1
  <2>1. t[k] = f /\ \A j \in 1 .. k - 1 : FALSE
      BY <1>1, <1>2
  <2> QED BY <2>1, Zenon
<1>3. CASE k # 1
  <2>1. k \in 2 .. Len(s) + 1 /\ k - 1 \in 1 .. Len(s) /\ t[k] = s[k - 1] /\ 1 \in 1 .. k - 1
      BY <1>1, <1>3
  <2>2. /\ t[k].rewound => t[k].at \in {"sent", "banged"}
        /\ t[k].at = "sent" => (t[k].rewound <=> r \/ \E j \in 1 .. (k - 1) - 1 : Saves(s[j]))
      BY <2>1 DEF Stops
  <2>3. \A j \in 1 .. (k - 1) - 1 : j + 1 \in 1 .. k - 1 /\ t[j + 1] = s[j]
    <3> SUFFICES ASSUME NEW j \in 1 .. (k - 1) - 1
                 PROVE  j + 1 \in 1 .. k - 1 /\ t[j + 1] = s[j]
        OBVIOUS
    <3>1. j + 1 \in 1 .. k - 1 /\ j + 1 \in 2 .. Len(s) + 1 /\ (j + 1) - 1 = j
        BY <2>1
    <3> QED BY <1>1, <3>1
  <2>4. \A j \in 1 .. k - 1 : j = 1 \/ (j - 1 \in 1 .. (k - 1) - 1 /\ t[j] = s[j - 1])
    <3> SUFFICES ASSUME NEW j \in 1 .. k - 1, j # 1
                 PROVE  j - 1 \in 1 .. (k - 1) - 1 /\ t[j] = s[j - 1]
        OBVIOUS
    <3>1. j - 1 \in 1 .. (k - 1) - 1 /\ j \in 2 .. Len(s) + 1
        BY <2>1
    <3> QED BY <1>1, <3>1
  <2>5. (r \/ \E j \in 1 .. (k - 1) - 1 : Saves(s[j])) <=> (q \/ \E j \in 1 .. k - 1 : Saves(t[j]))
      BY <1>1, <2>1, <2>3, <2>4, Zenon
  <2> QED BY <2>2, <2>5, Zenon
<1> QED BY <1>2, <1>3

\* A safe call in front of safe calls.
LEMMA SafePush ==
    ASSUME NEW th, NEW bd, NEW s \in Seq(Frames), NEW f \in Frames,
           SafeFrame(f, th, bd), AllSafe(s, th, bd)
    PROVE  AllSafe(<<f>> \o s, th, bd)
<1> DEFINE t == <<f>> \o s
<1>1. /\ Len(t) = Len(s) + 1 /\ t[1] = f
      /\ \A k \in 2 .. Len(s) + 1 : t[k] = s[k - 1]
    BY Pushed
<1> HIDE DEF t
<1>2. ASSUME NEW k \in 1 .. Len(t) PROVE SafeFrame(t[k], th, bd)
  <2>1. CASE k = 1
      BY <1>1, <2>1
  <2>2. CASE k # 1
    <3>1. k - 1 \in 1 .. Len(s) /\ t[k] = s[k - 1]
        BY <1>1, <2>2
    <3> QED BY <3>1 DEF AllSafe
  <2> QED BY <2>1, <2>2
<1> QED BY <1>2 DEF t, AllSafe

\* A stack of calls without the innermost.
LEMMA CalmPop ==
    ASSUME NEW s \in Seq(Frames), s # <<>>, Calm(s)
    PROVE  Calm(Tail(s))
<1> DEFINE t == Tail(s)
<1>1. Len(t) = Len(s) - 1 /\ \A k \in 1 .. Len(s) - 1 : t[k] = s[k + 1] /\ k + 1 \in 1 .. Len(s)
    BY Popped
<1> HIDE DEF t
<1>2. Calm(t)
    BY <1>1 DEF Calm
<1> QED BY <1>2 DEF t

\* Safe calls without the innermost.
LEMMA SafePop ==
    ASSUME NEW th, NEW bd, NEW s \in Seq(Frames), s # <<>>, AllSafe(s, th, bd)
    PROVE  SafeFrame(s[1], th, bd) /\ AllSafe(Tail(s), th, bd)
<1> DEFINE t == Tail(s)
<1>1. Len(t) = Len(s) - 1 /\ \A k \in 1 .. Len(s) - 1 : t[k] = s[k + 1] /\ k + 1 \in 1 .. Len(s)
    BY Popped
<1>2. 1 \in 1 .. Len(s)
    BY Popped
<1> HIDE DEF t
<1>3. AllSafe(t, th, bd) /\ SafeFrame(s[1], th, bd)
    BY <1>1, <1>2 DEF AllSafe
<1> QED BY <1>3 DEF t

\* The three kinds of calls.
LEMMA Kinds ==
    ASSUME NEW f \in Frames
    PROVE  /\ f.frame = "donext" => f \in DoNexts
           /\ f.frame = "handler" => f \in [frame : {"handler"}, argv : Int]
           /\ f.frame = "bindlist" => 
                 f \in [frame : {"bindlist"}, sym : Symbols, elem : Int, argv : Int]
           /\ f.frame \in {"donext", "handler", "bindlist"}
    BY DEF Frames, DoNexts

\* The calls of a stack after the list was rewound.
LEMMA RewoundFacts ==
    ASSUME NEW s \in Seq(Frames)
    PROVE  /\ Rewound(s) \in Seq(Frames) /\ Len(Rewound(s)) = Len(s)
           /\ \A k \in 1 .. Len(s) : Rewound(s)[k] =
                 IF s[k].frame = "donext" THEN [s[k] EXCEPT !.rewound = TRUE] ELSE s[k]
<1>1. ASSUME NEW f \in Frames
      PROVE  (IF f.frame = "donext" THEN [f EXCEPT !.rewound = TRUE] ELSE f) \in Frames
  <2>1. CASE f.frame = "donext"
    <3>1. [f EXCEPT !.rewound = TRUE] \in DoNexts
        BY <2>1, Kinds DEF DoNexts
    <3> QED BY <2>1, <3>1 DEF Frames
  <2> QED BY <2>1
<1>2. DOMAIN s = 1 .. Len(s) /\ \A k \in 1 .. Len(s) : s[k] \in Frames
    OBVIOUS
<1> DEFINE t(k) == IF s[k].frame = "donext" THEN [s[k] EXCEPT !.rewound = TRUE] ELSE s[k]
<1>3. Rewound(s) = [k \in 1 .. Len(s) |-> t(k)]
    BY <1>2 DEF Rewound
<1>4. \A k \in 1 .. Len(s) : t(k) \in Frames
    BY <1>1, <1>2
<1> HIDE DEF t
<1>5. /\ Rewound(s) \in Seq(Frames) /\ Len(Rewound(s)) = Len(s)
      /\ \A k \in 1 .. Len(s) : Rewound(s)[k] = t(k)
    BY <1>3, <1>4
<1> QED BY <1>5 DEF t

\* The calls of a stack after the list was stepped on.
LEMMA MovedFacts ==
    ASSUME NEW s \in Seq(Frames)
    PROVE  /\ Moved(s) \in Seq(Frames) /\ Len(Moved(s)) = Len(s)
           /\ \A k \in 1 .. Len(s) : Moved(s)[k] =
                 IF s[k].frame = "donext" THEN [s[k] EXCEPT !.moved = TRUE] ELSE s[k]
<1>1. ASSUME NEW f \in Frames
      PROVE  (IF f.frame = "donext" THEN [f EXCEPT !.moved = TRUE] ELSE f) \in Frames
  <2>1. CASE f.frame = "donext"
    <3>1. [f EXCEPT !.moved = TRUE] \in DoNexts
        BY <2>1, Kinds DEF DoNexts
    <3> QED BY <2>1, <3>1 DEF Frames
  <2> QED BY <2>1
<1>2. DOMAIN s = 1 .. Len(s) /\ \A k \in 1 .. Len(s) : s[k] \in Frames
    OBVIOUS
<1> DEFINE t(k) == IF s[k].frame = "donext" THEN [s[k] EXCEPT !.moved = TRUE] ELSE s[k]
<1>3. Moved(s) = [k \in 1 .. Len(s) |-> t(k)]
    BY <1>2 DEF Moved
<1>4. \A k \in 1 .. Len(s) : t(k) \in Frames
    BY <1>1, <1>2
<1> HIDE DEF t
<1>5. /\ Moved(s) \in Seq(Frames) /\ Len(Moved(s)) = Len(s)
      /\ \A k \in 1 .. Len(s) : Moved(s)[k] = t(k)
    BY <1>3, <1>4
<1> QED BY <1>5 DEF t

\* The fields of a call that a rewinding leaves alone.
LEMMA RewoundFields ==
    ASSUME NEW s \in Seq(Frames), NEW k \in 1 .. Len(s)
    PROVE  /\ Rewound(s)[k].frame = s[k].frame
           /\ s[k].frame = "donext" =>
                 /\ Rewound(s)[k].at = s[k].at /\ Rewound(s)[k].was = s[k].was
                 /\ Rewound(s)[k].target = s[k].target /\ Rewound(s)[k].sym = s[k].sym
                 /\ Rewound(s)[k].moved = s[k].moved
           /\ s[k].frame # "donext" => Rewound(s)[k] = s[k]
<1>1. CASE s[k].frame = "donext"
  <2>1. s[k] \in DoNexts /\ Rewound(s)[k] = [s[k] EXCEPT !.rewound = TRUE]
    <3>1. s[k] \in Frames
        OBVIOUS
    <3> QED BY <1>1, <3>1, RewoundFacts, Kinds
  <2> QED BY <1>1, <2>1 DEF DoNexts
<1>2. CASE s[k].frame # "donext"
    BY <1>2, RewoundFacts
<1> QED BY <1>1, <1>2

\* The fields of a call that a step leaves alone.
LEMMA MovedFields ==
    ASSUME NEW s \in Seq(Frames), NEW k \in 1 .. Len(s)
    PROVE  /\ Moved(s)[k].frame = s[k].frame
           /\ s[k].frame = "donext" =>
                 /\ Moved(s)[k].at = s[k].at /\ Moved(s)[k].was = s[k].was
                 /\ Moved(s)[k].target = s[k].target /\ Moved(s)[k].sym = s[k].sym
                 /\ Moved(s)[k].rewound = s[k].rewound
           /\ s[k].frame # "donext" => Moved(s)[k] = s[k]
<1>1. CASE s[k].frame = "donext"
  <2>1. s[k] \in DoNexts /\ Moved(s)[k] = [s[k] EXCEPT !.moved = TRUE]
    <3>1. s[k] \in Frames
        OBVIOUS
    <3> QED BY <1>1, <3>1, MovedFacts, Kinds
  <2> QED BY <1>1, <2>1 DEF DoNexts
<1>2. CASE s[k].frame # "donext"
    BY <1>2, MovedFacts
<1> QED BY <1>1, <1>2

\* The histories that rewinding and stepping on set.
LEMMA RewoundRewound ==
    ASSUME NEW s \in Seq(Frames), NEW k \in 1 .. Len(s), s[k].frame = "donext"
    PROVE  Rewound(s)[k].rewound /\ Moved(s)[k].moved
<1>1. s[k] \in Frames
    OBVIOUS
<1>2. s[k] \in DoNexts
    BY <1>1, Kinds
<1>3. Rewound(s)[k] = [s[k] EXCEPT !.rewound = TRUE] /\ Moved(s)[k] = [s[k] EXCEPT !.moved = TRUE]
    BY RewoundFacts, MovedFacts
<1> QED BY <1>2, <1>3 DEF DoNexts

\* Calls none of which is between two messages are told of a rewinding by the flag.
LEMMA RewoundStops ==
    ASSUME NEW s \in Seq(Frames), Calm(s)
    PROVE  Calm(Rewound(s)) /\ Stops(Rewound(s), TRUE)
<1> DEFINE t == Rewound(s)
<1>1. Len(t) = Len(s) /\ t \in Seq(Frames)
    BY RewoundFacts
<1>2. \A k \in 1 .. Len(s) : /\ t[k].frame = s[k].frame
                             /\ s[k].frame = "donext" => t[k].at = s[k].at
    BY RewoundFields
<1>3. \A k \in 1 .. Len(s) : t[k].frame = "donext" => t[k].at \in {"sent", "banged"}
  <2>1. \A k \in 1 .. Len(s) : s[k] \in Frames
      OBVIOUS
  <2>2. \A k \in 1 .. Len(s) : s[k].frame = "donext" => s[k].at \in {"loop", "sent", "banged"}
      BY <2>1, Kinds DEF DoNexts
  <2> HIDE DEF t
  <2> QED BY <1>2, <2>2 DEF Calm
<1> HIDE DEF t
<1>4. \A k \in 1 .. Len(s) : t[k].frame = "donext" => t[k].rewound
    BY RewoundRewound, <1>2 DEF t
<1>5. Calm(t) /\ Stops(t, TRUE)
    BY <1>1, <1>3, <1>4 DEF Calm, Stops
<1> QED BY <1>5 DEF t

\* A step from inside leaves the calls as they are.
LEMMA MovedStops ==
    ASSUME NEW s \in Seq(Frames), NEW r \in BOOLEAN, Calm(s), Stops(s, r)
    PROVE  Calm(Moved(s)) /\ Stops(Moved(s), r)
<1> DEFINE t == Moved(s)
<1>1. Len(t) = Len(s) /\ t \in Seq(Frames)
    BY MovedFacts
<1>2. \A k \in 1 .. Len(s) :
         /\ t[k].frame = s[k].frame
         /\ s[k].frame = "donext" => t[k].at = s[k].at /\ t[k].was = s[k].was
                                     /\ t[k].rewound = s[k].rewound
    BY MovedFields
<1> HIDE DEF t
<1>3. Calm(t)
    BY <1>1, <1>2 DEF Calm
<1>4. \A k \in 1 .. Len(s) : Saves(s[k]) <=> Saves(t[k])
    BY <1>2 DEF Saves
<1>5. Stops(t, r)
  <2> SUFFICES ASSUME NEW k \in 1 .. Len(s), t[k].frame = "donext"
               PROVE  /\ t[k].rewound => t[k].at \in {"sent", "banged"}
                      /\ t[k].at = "sent" =>
                            (t[k].rewound <=> r \/ \E j \in 1 .. k - 1 : Saves(t[j]))
      BY <1>1 DEF Stops
  <2>1. s[k].frame = "donext" /\ t[k].at = s[k].at /\ t[k].rewound = s[k].rewound
      BY <1>2
  <2>2. /\ s[k].rewound => s[k].at \in {"sent", "banged"}
        /\ s[k].at = "sent" => (s[k].rewound <=> r \/ \E j \in 1 .. k - 1 : Saves(s[j]))
      BY <2>1 DEF Stops
  <2>3. \A j \in 1 .. k - 1 : j \in 1 .. Len(s)
      OBVIOUS
  <2>4. (\E j \in 1 .. k - 1 : Saves(s[j])) <=> (\E j \in 1 .. k - 1 : Saves(t[j]))
      BY <1>4, <2>3, Zenon
  <2> QED BY <2>1, <2>2, <2>4, Zenon
<1> QED BY <1>3, <1>5 DEF t

\* What calls have kept does not depend on their histories.
LEMMA MarkedSafe ==
    ASSUME NEW th, NEW bd, NEW s \in Seq(Frames), AllSafe(s, th, bd)
    PROVE  AllSafe(Rewound(s), th, bd) /\ AllSafe(Moved(s), th, bd)
<1>1. ASSUME NEW k \in 1 .. Len(s)
      PROVE  SafeFrame(Rewound(s)[k], th, bd)
    BY RewoundFields DEF AllSafe, SafeFrame
<1>2. ASSUME NEW k \in 1 .. Len(s)
      PROVE  SafeFrame(Moved(s)[k], th, bd)
    BY MovedFields DEF AllSafe, SafeFrame
<1>3. Len(Rewound(s)) = Len(s) /\ Len(Moved(s)) = Len(s)
    BY RewoundFacts, MovedFacts
<1> QED BY <1>1, <1>2, <1>3 DEF AllSafe

-----------------------------------------------------------------------------
(* Lemmas about bindlists.                                                 *)

\* What pd_bind makes of a thing that stands for objs stands for them and the new object.
LEMMA BindExact ==
    ASSUME NEW t \in Things, NEW objs \in Seq(Objects), Exact(t, objs),
           NEW x \in Objects, NEW n \in Int, n # 0
    PROVE  pd_bind(t, x, n) \in Things /\ Exact(pd_bind(t, x, n), <<x>> \o objs)
<1> DEFINE u == pd_bind(t, x, n)
<1>1. Len(t.elems) = Len(objs) /\ t.elems \in Seq(Elems) /\ t.id \in Int
    BY DEF Exact, Receivers, Things
<1>2. \A k \in 1 .. Len(objs) : t.elems[k].who = objs[k]
    BY <1>1 DEF Exact, Receivers
<1>3. CASE t.k = "none"
  <2>1. Len(objs) = 0 /\ objs = <<>>
      BY <1>3 DEF Exact
  <2> DEFINE e == <<Elem(x, 0)>>
  <2>2. u = [k |-> "object", id |-> 0, elems |-> e]
      BY <1>3 DEF pd_bind
  <2>3. e \in Seq(Elems) /\ Len(e) = 1 /\ e[1].who = x
      BY DEF Elem, Elems
  <2>4. u \in Things /\ u.elems = e /\ u.k = "object"
    <3> HIDE DEF e
    <3> QED BY <2>2, <2>3 DEF Things
  <2>5. Receivers(u) = <<x>>
    <3> HIDE DEF e, u
    <3> QED BY <2>3, <2>4 DEF Receivers
  <2>6. <<x>> \o objs = <<x>>
      BY <2>1
  <2>7. Len(<<x>>) = 1 /\ Len(<<x>>) # 0
      OBVIOUS
  <2> HIDE DEF u
  <2>8. Exact(u, <<x>>)
      BY <2>4, <2>5, <2>7 DEF Exact
  <2> QED BY <2>4, <2>6, <2>8 DEF u
<1>4. CASE t.k = "object"
  <2>1. Len(objs) = 1
      BY <1>4 DEF Exact
  <2> DEFINE e == <<Elem(x, n + 1), Elem(objs[1], n + 2)>>
  <2>2. u = [k |-> "bindlist", id |-> n, elems |-> e]
      BY <1>2, <1>4, <2>1 DEF pd_bind
  <2>3. e \in Seq(Elems) /\ Len(e) = 2 /\ e[1].who = x /\ e[2].who = objs[1]
    <3>1. Elem(x, n + 1) \in Elems /\ Elem(objs[1], n + 2) \in Elems
      <4>1. objs[1] \in Objects /\ n + 1 \in Int /\ n + 2 \in Int
          BY <2>1
      <4> QED BY <4>1 DEF Elem, Elems
    <3>2. Elem(x, n + 1).who = x /\ Elem(objs[1], n + 2).who = objs[1]
        BY DEF Elem, Elems
    <3> QED BY <3>1, <3>2
  <2>4. u \in Things /\ u.elems = e /\ u.k = "bindlist"
    <3> HIDE DEF e
    <3> QED BY <2>2, <2>3 DEF Things
  <2>5. Receivers(u) = <<x>> \o objs
    <3> HIDE DEF e, u
    <3> DEFINE y == <<x>> \o objs
    <3>1. /\ y \in Seq(Objects) /\ Len(y) = Len(objs) + 1 /\ y[1] = x
          /\ \A k \in 2 .. Len(objs) + 1 : y[k] = objs[k - 1]
        BY Pushed
    <3> HIDE DEF y
    <3>2. Len(y) = 2 /\ y[2] = objs[1]
        BY <2>1, <3>1
    <3>3. \A k \in 1 .. 2 : e[k].who = y[k]
        BY <2>3, <3>1, <3>2
    <3>4. Receivers(u) = [k \in 1 .. 2 |-> e[k].who]
        BY <2>3, <2>4 DEF Receivers
    <3>5. y = [k \in 1 .. 2 |-> y[k]]
      <4>1. \A z \in Seq(Objects) : z = [k \in 1 .. Len(z) |-> z[k]]
          OBVIOUS
      <4>2. y = [k \in 1 .. Len(y) |-> y[k]]
          BY <3>1, <4>1, Zenon
      <4> QED BY <3>2, <4>2
    <3>6. Receivers(u) = y
        BY <3>3, <3>4, <3>5, Zenon
    <3> QED BY <3>6 DEF y
  <2> QED BY <2>1, <2>4, <2>5 DEF Exact
<1>5. CASE t.k = "bindlist"
  <2>1. Len(objs) \in Nat /\ Len(objs) # 0 /\ Len(objs) # 1
      BY <1>5 DEF Exact
  <2> DEFINE e == <<Elem(x, n)>> \o t.elems
  <2>2. u = [t EXCEPT !.elems = e]
      BY <1>5 DEF pd_bind
  <2>3. e \in Seq(Elems) /\ Len(e) = Len(objs) + 1
      BY <1>1 DEF Elem, Elems
  <2>4. \A k \in 1 .. Len(e) : e[k].who = (<<x>> \o objs)[k]
    <3> SUFFICES ASSUME NEW k \in 1 .. Len(objs) + 1 PROVE e[k].who = (<<x>> \o objs)[k]
        BY <2>3
    <3>1. Elem(x, n) \in Elems /\ Elem(x, n).who = x
        BY DEF Elem, Elems
    <3>2. /\ e[1] = Elem(x, n) /\ \A i \in 2 .. Len(objs) + 1 : e[i] = t.elems[i - 1]
          /\ (<<x>> \o objs)[1] = x
          /\ \A i \in 2 .. Len(objs) + 1 : (<<x>> \o objs)[i] = objs[i - 1]
        BY <1>1, <3>1, Pushed
    <3>3. k = 1 \/ (k \in 2 .. Len(objs) + 1 /\ k - 1 \in 1 .. Len(objs))
        OBVIOUS
    <3> HIDE DEF e
    <3> QED BY <1>2, <3>1, <3>2, <3>3, Zenon
  <2>5. u \in Things /\ u.elems = e /\ u.k = "bindlist"
    <3> HIDE DEF e
    <3> QED BY <1>5, <2>2, <2>3 DEF Things
  <2>6. Receivers(u) = <<x>> \o objs
    <3> HIDE DEF e, u
    <3>1. (<<x>> \o objs) \in Seq(Objects) /\ Len(<<x>> \o objs) = Len(e)
        BY <2>3
    <3> QED BY <2>3, <2>4, <2>5, <3>1 DEF Receivers
  <2> QED BY <2>1, <2>5, <2>6 DEF Exact
<1> QED BY <1>3, <1>4, <1>5 DEF Things

\* A sequence without one of its elements.
LEMMA RemoveFacts ==
    ASSUME NEW S, NEW s \in Seq(S), NEW j \in 1 .. Len(s)
    PROVE  /\ RemoveAt(s, j) \in Seq(S) /\ Len(RemoveAt(s, j)) = Len(s) - 1
           /\ \A i \in 1 .. Len(s) - 1 : RemoveAt(s, j)[i] = IF i < j THEN s[i] ELSE s[i + 1]
<1> DEFINE a == SubSeq(s, 1, j - 1)
           b == SubSeq(s, j + 1, Len(s))
<1>1. a \in Seq(S) /\ Len(a) = j - 1 /\ \A i \in 1 .. j - 1 : a[i] = s[i]
    OBVIOUS
<1>2. b \in Seq(S) /\ Len(b) = Len(s) - j /\ \A i \in 1 .. Len(s) - j : b[i] = s[i + j]
    OBVIOUS
<1>3. RemoveAt(s, j) = a \o b
    BY DEF RemoveAt
<1> HIDE DEF a, b
<1>4. a \o b \in Seq(S) /\ Len(a \o b) = Len(s) - 1
  <2>1. a \o b \in Seq(S) /\ Len(a \o b) = Len(a) + Len(b)
    <3>1. \A x, y \in Seq(S) : x \o y \in Seq(S) /\ Len(x \o y) = Len(x) + Len(y)
        OBVIOUS
    <3> QED BY <1>1, <1>2, <3>1, Zenon
  <2> QED BY <1>1, <1>2, <2>1
<1>5. \A i \in 1 .. Len(s) - 1 : (a \o b)[i] = IF i < j THEN s[i] ELSE s[i + 1]
  <2> SUFFICES ASSUME NEW i \in 1 .. Len(s) - 1
               PROVE  (a \o b)[i] = IF i < j THEN s[i] ELSE s[i + 1]
      OBVIOUS
  <2>1. CASE i < j
      BY <1>1, <1>2, <2>1
  <2>2. CASE i >= j
    <3>1. i - (j - 1) \in 1 .. Len(s) - j /\ (i - (j - 1)) + j = i + 1
        BY <2>2
    <3>2. (a \o b)[i] = b[i - (j - 1)]
        BY <1>1, <1>2, <2>2
    <3> QED BY <1>2, <2>2, <3>1, <3>2
  <2>3. i < j \/ i >= j
      OBVIOUS
  <2> QED BY <2>1, <2>2, <2>3, Zenon
<1> QED BY <1>3, <1>4, <1>5, Zenon

\* In a sequence without duplicates the first occurrence of an element is the only one.
LEMMA FirstOccurrence ==
    ASSUME NEW S, NEW s \in Seq(S), NEW j \in 1 .. Len(s), IsInjective(s)
    PROVE  RemoveFirst(s, s[j]) = RemoveAt(s, j)
<1> DEFINE I == {i \in 1 .. Len(s) : s[i] = s[j]}
<1>1. I = {j}
    BY DEF IsInjective
<1>2. Min(I) = j
    BY <1>1 DEF Min
<1>3. SelectInSeq(s, LAMBDA v : v = s[j]) = j
    BY <1>1, <1>2 DEF SelectInSeq
<1> QED BY <1>3 DEF RemoveFirst

\* What pd_unbind leaves of a thing that stands for objs stands for the other objects.
LEMMA UnbindExact ==
    ASSUME NEW t \in Things, NEW objs \in Seq(Objects), Exact(t, objs), IsInjective(objs),
           NEW j \in 1 .. Len(objs)
    PROVE  pd_unbind(t, objs[j]) \in Things /\ Exact(pd_unbind(t, objs[j]), RemoveAt(objs, j))
<1> DEFINE u == pd_unbind(t, objs[j])
           left == RemoveAt(objs, j)
           rest == RemoveAt(t.elems, j)
<1>1. Len(t.elems) = Len(objs) /\ t.elems \in Seq(Elems) /\ t.id \in Int
    BY DEF Exact, Receivers, Things
<1>2. \A k \in 1 .. Len(objs) : t.elems[k].who = objs[k]
    BY <1>1 DEF Exact, Receivers
<1>3. SelectInSeq(t.elems, LAMBDA e : e.who = objs[j]) = j
  <2>1. t.elems[j].who = objs[j] /\ \A i \in 1 .. Len(t.elems) : t.elems[i].who = objs[j] => i = j
      BY <1>1, <1>2 DEF IsInjective
  <2>2. {i \in 1 .. Len(t.elems) : t.elems[i].who = objs[j]} = {j}
      BY <1>1, <2>1
  <2>3. Min({j}) = j
      BY DEF Min
  <2> QED BY <2>2, <2>3 DEF SelectInSeq
<1>4. /\ left \in Seq(Objects) /\ Len(left) = Len(objs) - 1
      /\ \A i \in 1 .. Len(objs) - 1 : left[i] = IF i < j THEN objs[i] ELSE objs[i + 1]
    BY RemoveFacts
<1>5. /\ rest \in Seq(Elems) /\ Len(rest) = Len(objs) - 1
      /\ \A i \in 1 .. Len(objs) - 1 : rest[i] = IF i < j THEN t.elems[i] ELSE t.elems[i + 1]
  <2>1. t.elems \in Seq(Elems) /\ j \in 1 .. Len(t.elems)
      BY <1>1
  <2> QED BY <1>1, <2>1, RemoveFacts
<1>6. \A i \in 1 .. Len(objs) - 1 : rest[i].who = left[i]
  <2> SUFFICES ASSUME NEW i \in 1 .. Len(objs) - 1 PROVE rest[i].who = left[i]
      OBVIOUS
  <2>1. i \in 1 .. Len(objs) /\ i + 1 \in 1 .. Len(objs)
      OBVIOUS
  <2> HIDE DEF rest, left
  <2> QED BY <1>2, <1>4, <1>5, <2>1
<1>7. CASE t.k = "object"
  <2>1. Len(objs) = 1 /\ Len(left) = 0 /\ j = 1
      BY <1>4, <1>7 DEF Exact
  <2>1a. u = NoThing
      BY <1>2, <1>7, <2>1 DEF pd_unbind
  <2>2. left = <<>>
      BY <1>4, <2>1
  <2> QED BY <2>1, <2>1a, <2>2 DEF Exact, NoThing, Things, Receivers
<1>8. CASE t.k = "bindlist"
  <2>1. Len(objs) \in Nat /\ Len(objs) # 0 /\ Len(objs) # 1
      BY <1>8 DEF Exact
  <2>2. WithoutFirst(t.elems, objs[j]) = rest
    <3>1. j # 0
        OBVIOUS
    <3> QED BY <1>3, <3>1, Zenon DEF WithoutFirst
  <2>3. u = IF Len(rest) > 1 THEN [t EXCEPT !.elems = rest]
            ELSE [k |-> "object", id |-> 0, elems |-> <<Elem(rest[1].who, 0)>>]
      BY <1>8, <2>2 DEF pd_unbind
  <2>4. /\ u \in Things /\ Receivers(u) = left
        /\ u.k = IF Len(rest) > 1 THEN "bindlist" ELSE "object"
    <3> HIDE DEF rest, left
    <3>1. rest \in Seq(Elems) /\ Len(rest) \in Nat /\ Len(rest) >= 1
        BY <1>5, <2>1
    <3>2. CASE Len(rest) > 1
      <4>1. u = [t EXCEPT !.elems = rest]
          BY <2>3, <3>2, Zenon
      <4> HIDE DEF u
      <4>2. u \in Things /\ u.elems = rest /\ u.k = "bindlist"
          BY <1>8, <3>1, <4>1 DEF Things
      <4>3. DOMAIN left = 1 .. Len(objs) - 1 /\ DOMAIN rest = 1 .. Len(objs) - 1
          BY <1>4, <1>5
      <4>4. left = [i \in 1 .. Len(objs) - 1 |-> left[i]]
          BY <1>4, <4>3
      <4>5. Receivers(u) = [i \in 1 .. Len(objs) - 1 |-> rest[i].who]
          BY <4>2, <4>3 DEF Receivers
      <4> QED BY <1>6, <3>2, <4>2, <4>4, <4>5
    <3>3. CASE ~ (Len(rest) > 1)
      <4>1. u = [k |-> "object", id |-> 0, elems |-> <<Elem(rest[1].who, 0)>>]
          BY <2>3, <3>3, Zenon
      <4> HIDE DEF u
      <4>2. Len(rest) = 1 /\ rest[1].who = left[1] /\ Len(left) = 1 /\ left[1] \in Objects
          BY <1>4, <1>5, <1>6, <3>1, <3>3
      <4>3. /\ <<Elem(left[1], 0)>> \in Seq(Elems) /\ Len(<<Elem(left[1], 0)>>) = 1
            /\ <<Elem(left[1], 0)>>[1].who = left[1]
          BY <4>2 DEF Elem, Elems
      <4>4. u \in Things /\ u.elems = <<Elem(left[1], 0)>> /\ u.k = "object"
          BY <4>1, <4>2, <4>3 DEF Things
      <4>5. left = <<left[1]>>
          BY <1>4, <4>2
      <4>6. Receivers(u) = <<left[1]>>
          BY <4>3, <4>4 DEF Receivers
      <4> QED BY <3>3, <4>4, <4>5, <4>6
    <3> QED BY <3>2, <3>3, Zenon
  <2>5. Len(left) = Len(rest) /\ Len(left) \in Nat /\ Len(left) >= 1
      BY <1>4, <1>5, <2>1
  <2> HIDE DEF rest, left, u
  <2>6. u.k = CASE Len(left) = 0 -> "none" [] Len(left) = 1 -> "object" [] OTHER -> "bindlist"
    <3>1. CASE Len(left) = 1
        BY <2>4, <2>5, <3>1
    <3>2. CASE Len(left) > 1
        BY <2>4, <2>5, <3>2
    <3> QED BY <2>5, <3>1, <3>2
  <2>7. u.k # "none"
      BY <2>4
  <2>8. u \in Things /\ Exact(u, left)
      BY <2>4, <2>6, <2>7 DEF Exact
  <2> QED BY <2>8 DEF u, left
<1>9. t.k # "none"
    BY DEF Exact
<1> QED BY <1>7, <1>8, <1>9 DEF Things

\* pd_bind keeps a bindlist and its elements.
LEMMA BindKeeps ==
    ASSUME NEW t \in Things, NEW x \in Objects, NEW n \in Int, n # 0, t.k = "bindlist"
    PROVE  LET u == pd_bind(t, x, n)
           IN  /\ u.k = "bindlist" /\ u.id = t.id
               /\ \A m \in 1 .. Len(t.elems) :
                     m + 1 \in 1 .. Len(u.elems) /\ u.elems[m + 1] = t.elems[m]
<1> DEFINE e == <<Elem(x, n)>> \o t.elems
           u == pd_bind(t, x, n)
<1>1. u = [t EXCEPT !.elems = e]
    BY DEF pd_bind
<1>2. t.elems \in Seq(Elems) /\ Elem(x, n) \in Elems
    BY DEF Things, Elem, Elems
<1>3. Len(e) = Len(t.elems) + 1 /\ \A k \in 2 .. Len(t.elems) + 1 : e[k] = t.elems[k - 1]
    BY <1>2, Pushed
<1> HIDE DEF e
<1>4. u.k = "bindlist" /\ u.id = t.id /\ u.elems = e
    BY <1>1 DEF Things
<1> HIDE DEF u
<1>5. \A m \in 1 .. Len(t.elems) : m + 1 \in 1 .. Len(e) /\ e[m + 1] = t.elems[m]
    BY <1>2, <1>3
<1>6. /\ u.k = "bindlist" /\ u.id = t.id
      /\ \A m \in 1 .. Len(t.elems) :
            m + 1 \in 1 .. Len(u.elems) /\ u.elems[m + 1] = t.elems[m]
    BY <1>4, <1>5
<1> QED BY <1>6 DEF u

\* The bindings of a patch that was loaded.
LEMMA LoadedExact ==
    ASSUME NEW objs \in Seq(Objects)
    PROVE  Loaded(objs) \in Things /\ Exact(Loaded(objs), objs)
<1> DEFINE t == Loaded(objs)
           e == [j \in DOMAIN objs |-> Elem(objs[j], -1 - j)]
<1>1. CASE Len(objs) = 0
  <2>1. t = NoThing /\ objs = <<>>
      BY <1>1 DEF Loaded
  <2> QED BY <1>1, <2>1 DEF NoThing, Things, Exact, Receivers
<1>2. CASE Len(objs) = 1
  <2>1. t = [k |-> "object", id |-> 0, elems |-> <<Elem(objs[1], 0)>>]
      BY <1>2 DEF Loaded
  <2>2. <<Elem(objs[1], 0)>> \in Seq(Elems) /\ Elem(objs[1], 0).who = objs[1]
      BY <1>2 DEF Elem, Elems
  <2>3. t \in Things /\ t.k = "object" /\ t.elems = <<Elem(objs[1], 0)>>
      BY <2>1, <2>2 DEF Things
  <2>4. Receivers(t) = objs
      BY <1>2, <2>2, <2>3 DEF Receivers
  <2> QED BY <1>2, <2>3, <2>4 DEF Exact
<1>3. CASE Len(objs) # 0 /\ Len(objs) # 1
  <2>1. t = [k |-> "bindlist", id |-> -1, elems |-> e]
      BY <1>3 DEF Loaded
  <2>2. e \in Seq(Elems) /\ DOMAIN e = DOMAIN objs /\ \A j \in DOMAIN objs : e[j].who = objs[j]
    <3>1. DOMAIN objs = 1 .. Len(objs) /\ \A j \in DOMAIN objs : objs[j] \in Objects
        OBVIOUS
    <3>2. \A j \in DOMAIN objs : /\ Elem(objs[j], -1 - j) \in Elems
                                 /\ Elem(objs[j], -1 - j).who = objs[j]
        BY <3>1 DEF Elem, Elems
    <3> QED BY <3>1, <3>2
  <2> HIDE DEF e
  <2>3. t \in Things /\ t.k = "bindlist" /\ t.elems = e
      BY <2>1, <2>2 DEF Things
  <2>4. Receivers(t) = objs
    <3>1. Receivers(t) = [j \in DOMAIN objs |-> objs[j]]
        BY <2>2, <2>3 DEF Receivers
    <3> QED BY <3>1
  <2> QED BY <1>3, <2>3, <2>4 DEF Exact
<1> QED BY <1>1, <1>2, <1>3

-----------------------------------------------------------------------------
(* The invariant is inductive.                                             *)

\* The initial states.
LEMMA InitIInv == Init => IInv
<1> SUFFICES ASSUME Init PROVE IInv
    OBVIOUS
<1>1. PICK load \in Loads :
         /\ bound = load /\ s_thing = [s \in Symbols |-> Loaded(load[s])]
         /\ made = UNION {Range(load[s]) : s \in Symbols} /\ fresh = 1
    BY DEF Init
<1>2. load \in [Symbols -> Seq(Objects)]
    BY QlistAssumption
<1>3. \A s \in Symbols : load[s] \in Seq(Objects)
    BY <1>2
<1>4. \A s \in Symbols : Loaded(load[s]) \in Things /\ Exact(Loaded(load[s]), load[s])
    BY <1>3, LoadedExact
<1>5. s_thing \in [Symbols -> Things]
    BY <1>1, <1>4
<1>6. \A s \in Symbols : \A k \in 1 .. Len(load[s]) :
          load[s][k] \in Range(load[s]) /\ load[s][k] \in Objects
  <2> SUFFICES ASSUME NEW s \in Symbols, NEW k \in 1 .. Len(load[s])
               PROVE  load[s][k] \in Range(load[s]) /\ load[s][k] \in Objects
      OBVIOUS
  <2> QED BY <1>3 DEF Range
<1>7. made \subseteq Objects
  <2> SUFFICES ASSUME NEW o \in made PROVE o \in Objects
      OBVIOUS
  <2>1. PICK s \in Symbols : o \in Range(load[s])
      BY <1>1
  <2>2. PICK k \in DOMAIN load[s] : o = load[s][k]
      BY <2>1 DEF Range
  <2> QED BY <1>3, <2>2
<1>8. Types
  <2>1. x_binbuf \in Seq(Alphabet)
      BY QlistAssumption DEF Init, Alphabet
  <2>2. stack \in Seq(Frames) /\ fresh \in Nat \ {0} /\ bound \in [Symbols -> Seq(Objects)]
      BY <1>1, <1>2 DEF Init
  <2> QED BY <1>5, <1>7, <2>1, <2>2 DEF Init, Types
<1>9. Bindings
  <2> SUFFICES ASSUME NEW s \in Symbols
               PROVE  /\ Exact(s_thing[s], bound[s]) /\ IsInjective(bound[s])
                      /\ \A k \in 1 .. Len(bound[s]) : Name[bound[s][k]] = s /\ bound[s][k] \in made
      BY DEF Bindings
  <2>1. DOMAIN load[s] = 1 .. Len(load[s])
      BY <1>3
  <2>2. s_thing[s] = Loaded(load[s]) /\ bound[s] = load[s]
      BY <1>1
  <2>3. IsInjective(load[s]) /\ \A k \in 1 .. Len(load[s]) : Name[load[s][k]] = s
      BY <2>1, QlistAssumption
  <2>4. \A k \in 1 .. Len(load[s]) : load[s][k] \in made
      BY <1>1, <1>6
  <2> QED BY <1>4, <2>2, <2>3, <2>4, Zenon
<1>10. Depth /\ Rewinds /\ Safe /\ CrashNeedsChange /\ RewindStops
    BY DEF Init, Depth, Rewinds, Stops, Safe, AllSafe, CrashNeedsChange, RewindStops
<1> QED BY <1>8, <1>9, <1>10 DEF IInv

\* What the invariant says of the innermost call, and of the others.
LEMMA Below ==
    ASSUME IInv, stack # <<>>
    PROVE  /\ Top \in Frames /\ Tail(stack) \in Seq(Frames) /\ Calm(Tail(stack))
           /\ \A q \in BOOLEAN : (q <=> x_reentered \/ Saves(Top)) => Stops(Tail(stack), q)
           /\ ~inside => SafeFrame(Top, s_thing, bound) /\ AllSafe(Tail(stack), s_thing, bound)
<1>1. stack \in Seq(Frames) /\ x_reentered \in BOOLEAN
    BY DEF IInv, Types
<1>2. Top \in Frames /\ Tail(stack) \in Seq(Frames)
    BY <1>1, Popped DEF Top
<1>3. Calm(Tail(stack))
    BY DEF IInv, Depth
<1>4. \A q \in BOOLEAN : (q <=> x_reentered \/ Saves(Top)) => Stops(Tail(stack), q)
    BY <1>1, StopsPop DEF IInv, Rewinds, Top
<1>5. ~inside => SafeFrame(Top, s_thing, bound) /\ AllSafe(Tail(stack), s_thing, bound)
    BY <1>1, SafePop DEF IInv, Safe, Top
<1> QED BY <1>2, <1>3, <1>4, <1>5

\* A message comes from outside, or from inside calls of which none is between two messages.
LEMMA CallerCalm ==
    ASSUME IInv, MayCall
    PROVE  Calm(stack)
<1>1. stack \in Seq(Frames)
    BY DEF IInv, Types
<1>2. CASE stack = <<>>
    BY <1>2 DEF Calm
<1>3. CASE stack # <<>>
  <2>1. stack[1].frame = "handler" /\ Calm(Tail(stack))
      BY <1>3, Below DEF MayCall, Is, Top
  <2>2. Len(stack) >= 1 /\ \A k \in 1 .. Len(stack) - 1 : Tail(stack)[k] = stack[k + 1]
      BY <1>1, <1>3, Popped
  <2>3. Len(Tail(stack)) = Len(stack) - 1
      BY <1>1, <1>3, Popped
  <2> DEFINE t == Tail(stack)
  <2> HIDE DEF t
  <2>4. ASSUME NEW k \in 1 .. Len(stack), stack[k].frame = "donext" PROVE stack[k].at # "loop"
    <3>1. k # 1
        BY <2>1, <2>4
    <3>2. k - 1 \in 1 .. Len(t) /\ t[k - 1] = stack[k]
        BY <1>1, <2>2, <2>3, <3>1 DEF t
    <3> QED BY <2>1, <2>4, <3>2 DEF Calm, t
  <2> QED BY <2>4 DEF Calm
<1> QED BY <1>2, <1>3

\* Calls of which none is between two messages are what the invariant asks for.
LEMMA DepthCalm ==
    ASSUME NEW s \in Seq(Frames), Calm(s)
    PROVE  s = <<>> \/ Calm(Tail(s))
    BY CalmPop

\* New calls of qlist_donext, and the frames of handlers.
LEMMA NewFrames ==
    /\ \A a \in Int : Handler(a) \in Frames /\ Handler(a).frame = "handler"
    /\ \A drop, automatic \in BOOLEAN :
          LET f == DoNext(drop, automatic)
          IN  f \in Frames /\ f.frame = "donext" /\ ~f.rewound /\ ~f.moved /\ f.at = "loop"
              /\ f.target = NoThing
<1>1. NoThing \in Things
    BY DEF NoThing, Things
<1>2. \A a \in Int : Handler(a) \in Frames /\ Handler(a).frame = "handler"
    BY DEF Handler, Frames
<1> SUFFICES ASSUME NEW drop \in BOOLEAN, NEW automatic \in BOOLEAN
             PROVE  LET f == DoNext(drop, automatic)
                    IN  f \in Frames /\ f.frame = "donext" /\ ~f.rewound /\ ~f.moved
                        /\ f.at = "loop" /\ f.target = NoThing
    BY <1>2
<1> QED BY <1>1 DEF DoNext, DoNexts, Frames

\* A handler and a call take the place of the innermost call.
LEMMA HandedOver ==
    ASSUME IInv, stack # <<>>, NEW f \in Frames, NEW a \in Int
    PROVE  TwoOnto(Handler(a), f, Tail(stack)) = Onto(Handler(a), Onto(f, Tail(stack)))
<1>1. Handler(a) \in Frames /\ Tail(stack) \in Seq(Frames)
    BY Below, NewFrames
<1> QED BY <1>1, PushedTwice

\* Positions of the list.
LEMMA FirstOfFacts ==
    ASSUME x_binbuf \in Seq(Alphabet), NEW P, P \subseteq Nat
    PROVE  FirstOf(P) \in P \cup {natom} /\ \A i \in P \cup {natom} : FirstOf(P) <= i
<1>1. natom \in Nat
    BY DEF natom
<1>2. \E j \in P \cup {natom} : \A i \in P \cup {natom} : j <= i
    BY <1>1, Least
<1> QED BY <1>2 DEF FirstOf

\* Where the call on top of the stack begins, and the atom it finds there.
LEMMA OnsetFacts ==
    ASSUME Types, ~AtEnd
    PROVE  /\ x_onset \in 0 .. natom - 1 /\ Onset \in x_onset .. natom - 1
           /\ Atom(Onset) \in Alphabet /\ ~IsSep(Onset) /\ natom \in Nat
           /\ \A j \in x_onset .. Onset - 1 : IsSep(j)
<1>1. x_binbuf \in Seq(Alphabet) /\ natom \in Nat
    BY DEF Types, natom
<1>2. x_onset \in 0 .. natom - 1 /\ Onset # natom
    BY DEF AtEnd
<1> DEFINE P == {j \in x_onset .. natom - 1 : ~IsSep(j)}
<1>3. P \subseteq Nat /\ P \subseteq x_onset .. natom - 1
    BY <1>1, <1>2
<1>4. Onset = FirstOf(P)
    BY DEF Onset, SkipSeps
<1>5. Onset \in P /\ \A i \in P : Onset <= i
  <2> HIDE DEF P
  <2> QED BY <1>1, <1>2, <1>3, <1>4, FirstOfFacts
<1>6. Onset \in x_onset .. natom - 1 /\ ~IsSep(Onset)
    BY <1>5
<1>7. Atom(Onset) \in Alphabet
  <2>1. Onset + 1 \in 1 .. Len(x_binbuf)
      BY <1>1, <1>2, <1>6 DEF natom
  <2> HIDE DEF Onset
  <2> QED BY <1>1, <2>1 DEF Atom
<1>8. ASSUME NEW j \in x_onset .. Onset - 1, ~IsSep(j) PROVE FALSE
  <2>1. j \in P
      BY <1>1, <1>2, <1>6, <1>8
  <2>2. Onset <= j
      BY <1>5, <2>1
  <2> QED BY <1>2, <1>6, <2>2
<1> QED BY <1>1, <1>2, <1>6, <1>7, <1>8

\* Where a call leaves the list.
LEMMA SkipFacts ==
    ASSUME Types, ~AtEnd
    PROVE  SkipFloats(Onset) \in Nat /\ SkipAtoms(Onset) \in Nat
<1>1. Onset \in Nat /\ natom \in Nat /\ x_binbuf \in Seq(Alphabet)
    BY OnsetFacts DEF Types
<1>2. \A P : P \subseteq Nat => FirstOf(P) \in Nat
  <2> SUFFICES ASSUME NEW P, P \subseteq Nat PROVE FirstOf(P) \in Nat
      OBVIOUS
  <2>1. FirstOf(P) \in P \cup {natom}
      BY <1>1, FirstOfFacts
  <2> QED BY <1>1, <2>1
<1> DEFINE F == {j \in Onset .. natom - 1 : Atom(j) # "f"}
           A == {j \in Onset + 1 .. natom - 1 : IsSep(j) \/ Atom(j) = "$"}
<1>3. F \subseteq Nat /\ A \subseteq Nat
  <2> HIDE DEF Onset, natom
  <2> QED BY <1>1
<1>4. SkipFloats(Onset) = FirstOf(F) /\ SkipAtoms(Onset) = FirstOf(A)
    BY DEF SkipFloats, SkipAtoms
<1> QED BY <1>2, <1>3, <1>4

\* The thing that messages are sent to, and the things bound to atoms.
LEMMA ThingFacts ==
    ASSUME IInv, NEW a \in Alphabet
    PROVE  /\ Thing(a) \in Things
           /\ Thing(a) # NoThing => a \in Symbols /\ Thing(a) = s_thing[a]
                                    /\ Kept(s_thing[a], a, s_thing, bound)
<1>1. CASE a \notin Symbols
  <2>1. Thing(a) = NoThing
      BY <1>1 DEF Thing
  <2> QED BY <2>1 DEF NoThing, Things
<1>2. CASE a \in Symbols
  <2>1. Thing(a) = s_thing[a] /\ s_thing[a] \in Things /\ bound[a] \in Seq(Objects)
      BY <1>2 DEF Thing, IInv, Types
  <2>2. Exact(s_thing[a], bound[a])
      BY <1>2 DEF IInv, Bindings
  <2>3. CASE s_thing[a].k = "none"
      BY <2>1, <2>2, <2>3 DEF Exact
  <2>4. CASE s_thing[a].k = "bindlist"
      BY <1>2, <2>1, <2>4 DEF Kept
  <2>5. CASE s_thing[a].k = "object"
    <3>1. Len(bound[a]) = 1
        BY <2>1, <2>2, <2>5 DEF Exact
    <3>2. bound[a][1] = s_thing[a].elems[1].who
      <4>1. DOMAIN s_thing[a].elems = 1 .. 1
          BY <2>1, <2>2, <3>1 DEF Exact, Receivers, Things
      <4> QED BY <2>2, <4>1 DEF Exact, Receivers
    <3>3. 1 \in 1 .. Len(bound[a])
        BY <3>1
    <3> QED BY <1>2, <2>1, <2>5, <3>2, <3>3 DEF Kept
  <2> QED BY <2>1, <2>3, <2>4, <2>5 DEF Things
<1> QED BY <1>1, <1>2

\* Most steps leave the bindings alone: what is left to show of them is about the stack.
LEMMA StackStep ==
    ASSUME IInv, UNCHANGED <<s_thing, bound, made, fresh, inside>>,
           x_binbuf' \in Seq(Alphabet), moves' \in Nat, x_onset' \in Nat \cup {End},
           x_reentered' \in BOOLEAN,
           crashed' \in BOOLEAN, orphan' \in BOOLEAN, RewindStops',
           stack' \in Seq(Frames), stack' = <<>> \/ Calm(Tail(stack')),
           Stops(stack', x_reentered'),
           ~inside => ~crashed' /\ AllSafe(stack', s_thing, bound)
    PROVE  IInv'
<1>1. Types'
    BY DEF IInv, Types
<1>2. Bindings'
    BY DEF IInv, Bindings
<1>3. Depth' /\ Rewinds' /\ Safe' /\ CrashNeedsChange'
    BY DEF Depth, Rewinds, Safe, CrashNeedsChange
<1> QED BY <1>1, <1>2, <1>3 DEF IInv

\* A step that leaves everything as it is, unless freed memory is used.
LEMMA StillStep ==
    ASSUME IInv, CrashNeedsChange', crashed' \in BOOLEAN,
           UNCHANGED <<x_binbuf, moves, x_onset, orphan, x_reentered, s_thing, bound, made, fresh,
                       stack, inside, zombie>>
    PROVE  IInv'
<1>1. Types'
    BY DEF IInv, Types
<1>2. Bindings' /\ Depth' /\ Rewinds' /\ Safe' /\ RewindStops'
    BY DEF IInv, Bindings, Depth, Rewinds, Safe, RewindStops
<1> QED BY <1>1, <1>2 DEF IInv

\* A step that replaces the innermost call by another one.
LEMMA ReplaceStep ==
    ASSUME IInv, stack # <<>>, NEW f \in Frames,
           UNCHANGED <<s_thing, bound, made, fresh, inside>>,
           x_binbuf' \in Seq(Alphabet), moves' \in Nat, x_onset' \in Nat \cup {End},
           x_reentered' \in BOOLEAN,
           crashed' \in BOOLEAN, orphan' \in BOOLEAN, RewindStops', ~inside => ~crashed',
           stack' = <<f>> \o Tail(stack),
           x_reentered \/ Saves(Top) <=> x_reentered' \/ Saves(f),
           f.frame = "donext" => ~f.rewound /\ (f.at = "sent" => ~x_reentered'),
           ~inside => SafeFrame(f, s_thing, bound)
    PROVE  IInv'
<1>1. /\ Tail(stack) \in Seq(Frames) /\ Calm(Tail(stack))
      /\ \A q \in BOOLEAN : (q <=> x_reentered \/ Saves(Top)) => Stops(Tail(stack), q)
      /\ ~inside => AllSafe(Tail(stack), s_thing, bound)
    BY Below
<1>2. stack' \in Seq(Frames) /\ Tail(stack') = Tail(stack)
    BY <1>1, Pushed
<1>3. Stops(stack', x_reentered')
  <2> DEFINE q == x_reentered' \/ Saves(f)
  <2>1. q \in BOOLEAN
      BY DEF Saves
  <2>2. Stops(Tail(stack), q)
    <3>1. q <=> x_reentered \/ Saves(Top)
        BY Zenon
    <3> HIDE DEF q
    <3> QED BY <1>1, <2>1, <3>1, Zenon
  <2> QED BY <1>1, <2>1, <2>2, StopsPush
<1>4. ~inside => ~crashed' /\ AllSafe(stack', s_thing, bound)
    BY <1>1, SafePush
<1> QED BY <1>1, <1>2, <1>3, <1>4, StackStep

\* A step that ends the innermost call.
LEMMA PopStep ==
    ASSUME IInv, stack # <<>>,
           UNCHANGED <<s_thing, bound, made, fresh, inside, crashed>>, ~crashed,
           x_binbuf' \in Seq(Alphabet), moves' \in Nat, x_onset' \in Nat \cup {End},
           x_reentered' \in BOOLEAN,
           orphan' \in BOOLEAN, RewindStops',
           stack' = Tail(stack),
           x_reentered \/ Saves(Top) <=> x_reentered'
    PROVE  IInv'
<1>1. /\ Tail(stack) \in Seq(Frames) /\ Calm(Tail(stack))
      /\ \A q \in BOOLEAN : (q <=> x_reentered \/ Saves(Top)) => Stops(Tail(stack), q)
      /\ ~inside => AllSafe(Tail(stack), s_thing, bound)
    BY Below
<1>2. stack' = <<>> \/ Calm(Tail(stack'))
    BY <1>1, DepthCalm
<1>3. Stops(stack', x_reentered')
    BY <1>1
<1>4. crashed' \in BOOLEAN
    BY DEF IInv, Types
<1> QED BY <1>1, <1>2, <1>3, <1>4, StackStep

\* A step after which the calls s wait for a handler.
LEMMA WaitStep ==
    ASSUME IInv, NEW s \in Seq(Frames), NEW a \in Int,
           UNCHANGED <<s_thing, bound, made, fresh, inside>>, crashed' = FALSE,
           x_binbuf' \in Seq(Alphabet), moves' \in Nat, x_onset' \in Nat \cup {End},
           x_reentered' \in BOOLEAN,
           orphan' \in BOOLEAN, RewindStops',
           stack' = <<Handler(a)>> \o s, Calm(s), Stops(s, x_reentered'),
           ~inside => AllSafe(s, s_thing, bound)
    PROVE  IInv'
<1>1. \A h \in Frames : <<h>> \o s \in Seq(Frames) /\ Tail(<<h>> \o s) = s
    BY Pushed
<1>2. Handler(a) \in Frames /\ ~ Saves(Handler(a)) /\ SafeFrame(Handler(a), s_thing, bound)
    BY NewFrames DEF Saves, SafeFrame
<1>3. stack' \in Seq(Frames) /\ Tail(stack') = s
    BY <1>1, <1>2
<1>4. Stops(stack', x_reentered')
    BY <1>2, NewFrames, StopsPush
<1>5. ~inside => AllSafe(stack', s_thing, bound)
    BY <1>2, SafePush
<1> QED BY <1>3, <1>4, <1>5, StackStep

\* What the calls are after the innermost is replaced by f.
LEMMA Replaced ==
    ASSUME IInv, stack # <<>>, NEW f \in Frames, NEW r \in BOOLEAN,
           x_reentered \/ Saves(Top) <=> r \/ Saves(f),
           f.frame = "donext" => ~f.rewound /\ f.at # "loop" /\ (f.at = "sent" => ~r),
           ~inside => SafeFrame(f, s_thing, bound)
    PROVE  LET s == <<f>> \o Tail(stack)
           IN  /\ s \in Seq(Frames) /\ Calm(s) /\ Stops(s, r)
               /\ ~inside => AllSafe(s, s_thing, bound)
<1>1. /\ Tail(stack) \in Seq(Frames) /\ Calm(Tail(stack))
      /\ \A q \in BOOLEAN : (q <=> x_reentered \/ Saves(Top)) => Stops(Tail(stack), q)
      /\ ~inside => AllSafe(Tail(stack), s_thing, bound)
    BY Below
<1> DEFINE s == <<f>> \o Tail(stack)
<1>2. s \in Seq(Frames) /\ Calm(s)
    BY <1>1, Pushed, CalmPush
<1>3. Stops(s, r)
  <2> DEFINE q == r \/ Saves(f)
  <2>1. q \in BOOLEAN
      BY DEF Saves
  <2>2. Stops(Tail(stack), q)
    <3>1. q <=> x_reentered \/ Saves(Top)
        BY Zenon
    <3> HIDE DEF q
    <3> QED BY <1>1, <2>1, <3>1, Zenon
  <2> QED BY <1>1, <2>1, <2>2, StopsPush
<1>4. ~inside => AllSafe(s, s_thing, bound)
    BY <1>1, SafePush
<1> QED BY <1>2, <1>3, <1>4

\* A step that replaces the innermost call by a call that waits for a handler.
LEMMA HandStep ==
    ASSUME IInv, stack # <<>>, NEW f \in Frames, NEW a \in Int,
           UNCHANGED <<s_thing, bound, made, fresh, inside>>, crashed' = FALSE,
           x_binbuf' \in Seq(Alphabet), moves' \in Nat, x_onset' \in Nat \cup {End},
           x_reentered' \in BOOLEAN,
           orphan' \in BOOLEAN, RewindStops',
           stack' = <<Handler(a), f>> \o Tail(stack),
           x_reentered \/ Saves(Top) <=> x_reentered' \/ Saves(f),
           f.frame = "donext" => /\ ~f.rewound /\ f.at # "loop"
                                 /\ f.at = "sent" => ~x_reentered',
           ~inside => SafeFrame(f, s_thing, bound)
    PROVE  IInv'
<1> DEFINE s == <<f>> \o Tail(stack)
<1>1. /\ s \in Seq(Frames) /\ Calm(s) /\ Stops(s, x_reentered')
      /\ ~inside => AllSafe(s, s_thing, bound)
    BY Replaced
<1>2. stack' = <<Handler(a)>> \o s
  <2>1. TwoOnto(Handler(a), f, Tail(stack)) = Onto(Handler(a), Onto(f, Tail(stack)))
      BY HandedOver
  <2> QED BY <2>1, Zenon DEF Onto, TwoOnto
<1> HIDE DEF s
<1> QED BY <1>1, <1>2, WaitStep

\* A step that rewinds the list.
LEMMA RewindStep ==
    ASSUME IInv, MayCall,
           UNCHANGED <<s_thing, bound, made, fresh, inside, crashed>>,
           x_binbuf' \in Seq(Alphabet), moves' \in Nat, x_onset' \in Nat \cup {End}, x_reentered',
           x_reentered' \in BOOLEAN, orphan' \in BOOLEAN, RewindStops',
           stack' = Rewound(stack)
    PROVE  IInv'
<1>1. Calm(stack) /\ stack \in Seq(Frames)
    BY CallerCalm DEF IInv, Types
<1>2. stack' \in Seq(Frames) /\ Calm(stack') /\ Stops(stack', TRUE)
    BY <1>1, RewoundFacts, RewoundStops
<1>3. Stops(stack', x_reentered') /\ (stack' = <<>> \/ Calm(Tail(stack')))
    BY <1>2, DepthCalm DEF Stops
<1>4. ~inside => ~crashed' /\ AllSafe(stack', s_thing, bound)
    BY <1>1, MarkedSafe DEF IInv, Safe, MayCall
<1>5. crashed' \in BOOLEAN
    BY DEF IInv, Types
<1> QED BY <1>2, <1>3, <1>4, <1>5, StackStep

\* A step that begins a pass, after calls that are not between two messages.
LEMMA PassStep ==
    ASSUME IInv, NEW drop \in BOOLEAN, NEW automatic \in BOOLEAN, NEW s \in Seq(Frames),
           UNCHANGED <<x_binbuf, moves, s_thing, bound, made, fresh, inside, crashed>>, ~crashed,
           x_onset' \in Nat \cup {End}, x_reentered' \in BOOLEAN, orphan' \in BOOLEAN, RewindStops',
           stack' = <<DoNext(drop, automatic)>> \o s,
           Calm(s), Stops(s, x_reentered'),
           ~inside => AllSafe(s, s_thing, bound)
    PROVE  IInv'
<1> DEFINE f == DoNext(drop, automatic)
<1>1. /\ f \in Frames /\ f.frame = "donext" /\ ~f.rewound /\ f.target = NoThing
      /\ f.at = "loop" /\ ~ Saves(f)
    BY NewFrames DEF Saves
<1> HIDE DEF f
<1>2. stack' = <<f>> \o s
    BY DEF f
<1>3. stack' \in Seq(Frames) /\ Tail(stack') = s
    BY <1>1, <1>2, Pushed
<1>4. Stops(stack', x_reentered')
    BY <1>1, <1>2, StopsPush
<1>5. ~inside => ~crashed' /\ AllSafe(stack', s_thing, bound)
    BY <1>1, <1>2, SafePush DEF IInv, Safe, SafeFrame
<1>6. crashed' \in BOOLEAN /\ x_binbuf' \in Seq(Alphabet) /\ moves' \in Nat
    BY DEF IInv, Types
<1> QED BY <1>3, <1>4, <1>5, <1>6, StackStep

\* The contents that the list gets.
LEMMA Contents ==
    ASSUME NEW l \in Lists
    PROVE  /\ l \in Seq(Alphabet) /\ Append(l, ";") \in Seq(Alphabet)
           /\ \A b \in Seq(Alphabet), semi \in BOOLEAN :
                 b \o l \o (IF semi THEN <<";">> ELSE <<>>) \in Seq(Alphabet)
<1>1. l \in Seq(Alphabet) /\ ";" \in Alphabet
    BY QlistAssumption DEF Alphabet
<1>2. \A S, a : a \in S => \A x, y \in Seq(S) :
         x \o y \in Seq(S) /\ Append(x, a) \in Seq(S) /\ <<a>> \in Seq(S) /\ <<>> \in Seq(S)
    OBVIOUS
<1>3. Append(l, ";") \in Seq(Alphabet) /\ <<";">> \in Seq(Alphabet) /\ <<>> \in Seq(Alphabet)
    BY <1>1, <1>2, Zenon
<1>4. \A b, c \in Seq(Alphabet) : b \o l \o c \in Seq(Alphabet)
    BY <1>1, <1>2, Zenon
<1> QED BY <1>1, <1>3, <1>4, Zenon

\* A pass that is between two messages was not rewound.
LEMMA LoopNotRewound ==
    ASSUME IInv, stack # <<>>, Top.frame = "donext", Top.at = "loop"
    PROVE  Top.rewound = FALSE
<1>1. 1 \in 1 .. Len(stack) /\ Top \in DoNexts
    BY Below, Kinds, Popped DEF IInv, Types
<1>2. ~Top.rewound
    BY <1>1 DEF IInv, Rewinds, Stops, Top
<1> QED BY <1>1, <1>2 DEF DoNexts

\* An object is made: pd_bind.
LEMMA MakeStep ==
    ASSUME IInv, NEW o \in Objects, MakeObject(o)
    PROVE  IInv'
<1> DEFINE s == Name[o]
           t == pd_bind(s_thing[s], o, fresh)
           objs == <<o>> \o bound[s]
<1>1. /\ s \in Symbols /\ s_thing[s] \in Things /\ bound[s] \in Seq(Objects) /\ fresh \in Nat \ {0}
      /\ s_thing \in [Symbols -> Things] /\ bound \in [Symbols -> Seq(Objects)]
      /\ made \subseteq Objects
    BY QlistAssumption DEF IInv, Types
<1>2. /\ o \notin made /\ made' = made \cup {o} /\ fresh' = fresh + 3
      /\ UNCHANGED <<x_binbuf, moves, x_onset, orphan, x_reentered, stack, crashed, inside, zombie>>
      /\ s_thing' = [s_thing EXCEPT ![s] = t] /\ bound' = [bound EXCEPT ![s] = objs]
    BY DEF MakeObject, state, content, place, faults
<1>3. Exact(s_thing[s], bound[s]) /\ IsInjective(bound[s])
      /\ \A k \in 1 .. Len(bound[s]) : Name[bound[s][k]] = s /\ bound[s][k] \in made
    BY <1>1 DEF IInv, Bindings
<1>4. t \in Things /\ Exact(t, objs) /\ objs \in Seq(Objects)
    BY <1>1, <1>3, BindExact, Pushed
<1>5. /\ Len(objs) = Len(bound[s]) + 1 /\ objs[1] = o
      /\ \A k \in 2 .. Len(bound[s]) + 1 : objs[k] = bound[s][k - 1]
    BY <1>1, Pushed
<1>6. s_thing[s].k = "bindlist" =>
         /\ t.k = "bindlist" /\ t.id = s_thing[s].id
         /\ \A m \in 1 .. Len(s_thing[s].elems) :
               m + 1 \in 1 .. Len(t.elems) /\ t.elems[m + 1] = s_thing[s].elems[m]
  <2>1. fresh \in Int /\ fresh # 0
      BY <1>1
  <2> QED BY <1>1, <2>1, BindKeeps, Zenon
<1> HIDE DEF t, objs, s
<1>7. Types'
  <2>1. s_thing' \in [Symbols -> Things] /\ bound' \in [Symbols -> Seq(Objects)]
      BY <1>1, <1>2, <1>4
  <2>2. made' \subseteq Objects /\ fresh' \in Nat \ {0}
      BY <1>1, <1>2
  <2> QED BY <1>2, <2>1, <2>2 DEF IInv, Types
<1>8. \A r \in Symbols : r # s => s_thing'[r] = s_thing[r] /\ bound'[r] = bound[r]
    BY <1>1, <1>2
<1>9. s_thing'[s] = t /\ bound'[s] = objs
    BY <1>1, <1>2
<1>10. Bindings'
  <2> SUFFICES ASSUME NEW r \in Symbols
               PROVE  /\ Exact(s_thing'[r], bound'[r]) /\ IsInjective(bound'[r])
                      /\ \A k \in 1 .. Len(bound'[r]) :
                            Name[bound'[r][k]] = r /\ bound'[r][k] \in made'
      BY DEF Bindings
  <2>1. CASE r # s
      BY <1>2, <1>8, <2>1 DEF IInv, Bindings
  <2>2. CASE r = s
    <3>1. \A k \in 1 .. Len(objs) : Name[objs[k]] = s /\ objs[k] \in made'
      <4> SUFFICES ASSUME NEW k \in 1 .. Len(objs) PROVE Name[objs[k]] = s /\ objs[k] \in made'
          OBVIOUS
      <4>1. CASE k = 1
          BY <1>2, <1>5, <4>1 DEF s
      <4>2. CASE k # 1
        <5>1. objs[k] = bound[s][k - 1] /\ k - 1 \in 1 .. Len(bound[s])
            BY <1>1, <1>5, <4>2
        <5> QED BY <1>2, <1>3, <5>1
      <4> QED BY <4>1, <4>2
    <3>2. IsInjective(objs)
      <4> SUFFICES ASSUME NEW i \in 1 .. Len(objs), NEW j \in 1 .. Len(objs), objs[i] = objs[j]
                   PROVE  i = j
        <5>1. DOMAIN objs = 1 .. Len(objs)
            BY <1>4
        <5> QED BY <5>1 DEF IsInjective
      <4>1. \A k \in 1 .. Len(objs) : k # 1 =>
               /\ objs[k] = bound[s][k - 1] /\ k - 1 \in DOMAIN bound[s] /\ objs[k] # o
        <5> SUFFICES ASSUME NEW k \in 1 .. Len(objs), k # 1
                     PROVE  objs[k] = bound[s][k - 1] /\ k - 1 \in DOMAIN bound[s] /\ objs[k] # o
            OBVIOUS
        <5>1. objs[k] = bound[s][k - 1] /\ k - 1 \in 1 .. Len(bound[s])
            BY <1>1, <1>5
        <5> QED BY <1>1, <1>2, <1>3, <5>1
      <4>2. i = 1 <=> j = 1
          BY <1>5, <4>1
      <4>3. CASE i # 1
        <5>1. i - 1 = j - 1
            BY <1>3, <4>1, <4>2, <4>3 DEF IsInjective
        <5> QED BY <5>1
      <4> QED BY <4>2, <4>3
    <3> QED BY <1>4, <1>9, <2>2, <3>1, <3>2
  <2> QED BY <2>1, <2>2
<1>11. ASSUME NEW f, SafeFrame(f, s_thing, bound) PROVE SafeFrame(f, s_thing', bound')
  <2>1. ASSUME NEW c, NEW sym, Kept(c, sym, s_thing, bound) PROVE Kept(c, sym, s_thing', bound')
    <3>1. CASE sym # s
        BY <1>8, <2>1, <3>1 DEF Kept
    <3>2. CASE sym = s
      <4>1. CASE c.k = "bindlist" /\ s_thing[sym].k = "bindlist" /\ s_thing[sym].id = c.id
          BY <1>1, <1>6, <1>9, <3>2, <4>1 DEF Kept
      <4>2. ASSUME c.k = "object", NEW m \in 1 .. Len(bound[s]), bound[s][m] = c.elems[1].who
            PROVE  Kept(c, sym, s_thing', bound')
        <5>1. m + 1 \in 1 .. Len(objs) /\ objs[m + 1] = bound[s][m]
            BY <1>1, <1>5
        <5> QED BY <1>1, <1>9, <3>2, <4>2, <5>1 DEF Kept
      <4> QED BY <2>1, <3>2, <4>1, <4>2 DEF Kept
    <3> QED BY <3>1, <3>2
  <2>2. ASSUME NEW sym, NEW e, KeptElem(sym, e, s_thing) PROVE KeptElem(sym, e, s_thing')
    <3>1. CASE sym # s
        BY <1>8, <2>2, <3>1 DEF KeptElem
    <3>2. CASE sym = s
      <4>1. PICK m \in 1 .. Len(s_thing[s].elems) : s_thing[s].elems[m].id = e
          BY <2>2, <3>2 DEF KeptElem
      <4>2. m + 1 \in 1 .. Len(t.elems) /\ t.elems[m + 1].id = e /\ t.k = "bindlist"
          BY <1>6, <2>2, <3>2, <4>1 DEF KeptElem
      <4> QED BY <1>1, <1>9, <3>2, <4>2 DEF KeptElem
    <3> QED BY <3>1, <3>2
  <2> QED BY <1>11, <2>1, <2>2 DEF SafeFrame
<1>12. Depth' /\ Rewinds' /\ RewindStops' /\ CrashNeedsChange'
  <2>1. ~crashed'
      BY <1>2 DEF MakeObject, Call, MayCall
  <2> QED BY <1>2, <2>1 DEF IInv, Depth, Rewinds, RewindStops, CrashNeedsChange
<1>13. Safe'
    BY <1>2, <1>11 DEF IInv, Safe, AllSafe
<1> QED BY <1>7, <1>10, <1>12, <1>13 DEF IInv

\* An object is deleted: pd_unbind.
LEMMA DeleteStep ==
    ASSUME IInv, NEW o \in Objects, DeleteObject(o)
    PROVE  IInv'
<1> DEFINE s == Name[o]
           t == pd_unbind(s_thing[s], o)
<1>1. /\ s \in Symbols /\ s_thing[s] \in Things /\ bound[s] \in Seq(Objects)
      /\ s_thing \in [Symbols -> Things] /\ bound \in [Symbols -> Seq(Objects)]
      /\ stack \in Seq(Frames)
    BY QlistAssumption DEF IInv, Types
<1>2. PICK j \in 1 .. Len(bound[s]) : bound[s][j] = o
    BY <1>1 DEF DeleteObject
<1> DEFINE objs == RemoveAt(bound[s], j)
<1>3. Exact(s_thing[s], bound[s]) /\ IsInjective(bound[s])
      /\ \A k \in 1 .. Len(bound[s]) : Name[bound[s][k]] = s /\ bound[s][k] \in made
    BY <1>1 DEF IInv, Bindings
<1>4. RemoveFirst(bound[s], o) = objs
    BY <1>1, <1>2, <1>3, FirstOccurrence
<1>5. t \in Things /\ Exact(t, objs)
    BY <1>1, <1>2, <1>3, UnbindExact
<1>6. /\ objs \in Seq(Objects) /\ Len(objs) = Len(bound[s]) - 1
      /\ \A i \in 1 .. Len(bound[s]) - 1 :
            objs[i] = IF i < j THEN bound[s][i] ELSE bound[s][i + 1]
    BY <1>1, RemoveFacts
<1>7. /\ UNCHANGED <<x_binbuf, moves, x_onset, orphan, x_reentered, stack, crashed, zombie, made,
                     fresh>>
      /\ inside' = (inside \/ stack # <<>>)
      /\ s_thing' = [s_thing EXCEPT ![s] = t] /\ bound' = [bound EXCEPT ![s] = objs]
    BY <1>4 DEF DeleteObject, state, content, place
<1> HIDE DEF t, objs, s
<1>8. Types'
  <2>1. s_thing' \in [Symbols -> Things] /\ bound' \in [Symbols -> Seq(Objects)]
      BY <1>1, <1>5, <1>6, <1>7
  <2>2. inside' \in BOOLEAN
      BY <1>7 DEF IInv, Types
  <2> QED BY <1>7, <2>1, <2>2 DEF IInv, Types
<1>9. \A r \in Symbols : r # s => s_thing'[r] = s_thing[r] /\ bound'[r] = bound[r]
    BY <1>1, <1>7
<1>10. s_thing'[s] = t /\ bound'[s] = objs
    BY <1>1, <1>7
<1>11. Bindings'
  <2> SUFFICES ASSUME NEW r \in Symbols
               PROVE  /\ Exact(s_thing'[r], bound'[r]) /\ IsInjective(bound'[r])
                      /\ \A k \in 1 .. Len(bound'[r]) :
                            Name[bound'[r][k]] = r /\ bound'[r][k] \in made'
      BY DEF Bindings
  <2>1. CASE r # s
      BY <1>7, <1>9, <2>1 DEF IInv, Bindings
  <2>2. CASE r = s
    <3> DEFINE old(i) == IF i < j THEN i ELSE i + 1
    <3>1. ASSUME NEW i \in 1 .. Len(objs)
          PROVE  old(i) \in 1 .. Len(bound[s]) /\ objs[i] = bound[s][old(i)]
        BY <1>1, <1>6
    <3>2. \A i, k \in 1 .. Len(objs) : old(i) = old(k) => i = k
        BY <1>1, <1>6
    <3>3. DOMAIN objs = 1 .. Len(objs) /\ DOMAIN bound[s] = 1 .. Len(bound[s])
        BY <1>1, <1>6
    <3> HIDE DEF old
    <3>4. IsInjective(objs)
      <4> SUFFICES ASSUME NEW i \in 1 .. Len(objs), NEW k \in 1 .. Len(objs), objs[i] = objs[k]
                   PROVE  i = k
          BY <3>3 DEF IsInjective
      <4>1. old(i) = old(k)
          BY <1>3, <3>1, <3>3 DEF IsInjective
      <4> QED BY <3>2, <4>1
    <3>5. \A k \in 1 .. Len(objs) : Name[objs[k]] = s /\ objs[k] \in made'
        BY <1>3, <1>7, <3>1
    <3> QED BY <1>5, <1>10, <2>2, <3>4, <3>5
  <2> QED BY <2>1, <2>2
<1>12. Depth' /\ Rewinds' /\ RewindStops' /\ CrashNeedsChange'
  <2>1. ~crashed'
      BY <1>7 DEF DeleteObject, Call, MayCall
  <2> QED BY <1>7, <2>1 DEF IInv, Depth, Rewinds, RewindStops, CrashNeedsChange
<1>13. Safe'
  <2>1. CASE stack = <<>>
    <3>1. AllSafe(stack', s_thing', bound')
        BY <1>7, <2>1 DEF AllSafe
    <3> QED BY <1>7, <2>1, <3>1 DEF IInv, Safe
  <2>2. CASE stack # <<>>
      BY <1>7, <2>2 DEF Safe
  <2> QED BY <2>1, <2>2
<1> QED BY <1>8, <1>11, <1>12, <1>13 DEF IInv

\* A bindlist passes the message on to its next element.
LEMMA BindlistStep ==
    ASSUME IInv, BindlistNext
    PROVE  IInv'
<1> DEFINE elems == s_thing[Top.sym].elems
           here == {k \in DOMAIN elems : elems[k].id = Top.elem}
           kk == CHOOSE k \in here : TRUE
           f == ToElem(Top.sym, elems[1 + kk].id, Top.argv)
<1>1. /\ stack # <<>> /\ stack \in Seq(Frames) /\ Top.frame = "bindlist" /\ ~ Saves(Top)
      /\ Top \in [frame : {"bindlist"}, sym : Symbols, elem : Int, argv : Int]
      /\ crashed = FALSE
    BY Below, Kinds DEF BindlistNext, Is, IInv, Types, Saves
<1>2. /\ UNCHANGED <<x_binbuf, moves, x_onset, orphan, x_reentered, s_thing, bound, made, fresh,
                     inside, zombie>>
      /\ \/ (here = {} \/ Stale(Top)) /\ crashed' = TRUE /\ UNCHANGED stack
         \/ here # {} /\ Len(elems) \in here /\ stack' = Tail(stack) /\ UNCHANGED crashed
         \/ /\ here # {} /\ Len(elems) \notin here /\ UNCHANGED crashed
            /\ stack' = <<Handler(Top.argv), f>> \o Tail(stack)
    BY DEF BindlistNext, state, content, place, binding
<1>3. /\ x_binbuf' \in Seq(Alphabet) /\ x_onset' \in Nat \cup {End} /\ x_reentered' \in BOOLEAN
      /\ orphan' \in BOOLEAN /\ RewindStops' /\ moves' \in Nat /\ Top.argv \in Int
    BY <1>1, <1>2 DEF IInv, Types, RewindStops
<1>4. elems \in Seq(Elems) /\ DOMAIN elems = 1 .. Len(elems)
  <2>1. s_thing[Top.sym] \in Things
      BY <1>1 DEF IInv, Types
  <2> QED BY <2>1 DEF Things
<1>5. ~inside => here # {} /\ s_thing[Top.sym].k = "bindlist"
  <2>1. ~inside => KeptElem(Top.sym, Top.elem, s_thing)
      BY <1>1, Below DEF SafeFrame
  <2> QED BY <1>4, <2>1 DEF KeptElem
<1>6. CASE (here = {} \/ Stale(Top)) /\ crashed' = TRUE /\ UNCHANGED stack
  <2>1. ~inside => Stale(Top)
      BY <1>5, <1>6
  <2>2. Stale(Top) => Stale(Top)'
      BY <1>2, <1>6 DEF Stale, Top
  <2>3. CrashNeedsChange'
    <3> HIDE DEF here, elems
    <3> QED BY <1>1, <1>2, <1>6, <2>1, <2>2 DEF CrashNeedsChange
  <2> QED BY <1>2, <1>6, <2>3, StillStep
<1>7. CASE here # {} /\ Len(elems) \in here /\ stack' = Tail(stack) /\ UNCHANGED crashed
    BY <1>1, <1>2, <1>3, <1>7, PopStep
<1>8. CASE /\ here # {} /\ Len(elems) \notin here /\ UNCHANGED crashed
           /\ stack' = <<Handler(Top.argv), f>> \o Tail(stack)
  <2>1. kk \in here
      BY <1>8
  <2>2. kk \in 1 .. Len(elems) /\ kk # Len(elems)
      BY <1>4, <1>8, <2>1
  <2> HIDE DEF kk
  <2>3. 1 + kk \in 1 .. Len(elems)
      BY <1>4, <2>2
  <2>4. elems[1 + kk] \in Elems
      BY <1>4, <2>3
  <2>5. elems[1 + kk].id \in Int
      BY <2>4 DEF Elems
  <2>6. /\ f \in [frame : {"bindlist"}, sym : Symbols, elem : Int, argv : Int]
        /\ f.frame = "bindlist" /\ f.sym = Top.sym /\ f.elem = elems[1 + kk].id
    <3> HIDE DEF elems
    <3> QED BY <1>1, <2>5 DEF ToElem
  <2>7. ~inside => SafeFrame(f, s_thing, bound)
    <3>1. ~inside => KeptElem(Top.sym, elems[1 + kk].id, s_thing)
        BY <1>1, <1>5, <2>3 DEF KeptElem
    <3> HIDE DEF f, elems
    <3> QED BY <2>6, <3>1 DEF SafeFrame
  <2> HIDE DEF f, here, elems
  <2>8. f \in Frames
      BY <2>6 DEF Frames
  <2>9. ~ Saves(f)
      BY <2>6 DEF Saves
  <2> QED BY <1>1, <1>2, <1>3, <1>8, <2>6, <2>7, <2>8, <2>9, HandStep
<1> QED BY <1>2, <1>6, <1>7, <1>8

\* A message is sent.
LEMMA MessStep ==
    ASSUME IInv, DoMess
    PROVE  IInv'
<1> DEFINE found == Target = NoThing
           to  == IF found THEN Thing(Atom(Onset)) ELSE Target
           sym == IF found THEN Atom(Onset) ELSE Top.sym
           me  == [Top EXCEPT !.target = to, !.sym = sym, !.at = "sent", !.was = x_reentered,
                              !.moved = @ /\ ~Passed]
           there == StillThere(to, sym)
           first == IF found THEN Onset + 1 ELSE Onset
           silent == Top.drop \/ Atom(first) = "$"
           argv == IF Atom(first) = "f" \/ SkipAtoms(Onset) > first + 1 THEN moves ELSE NoArgs
           b == ToElem(sym, s_thing[sym].elems[1].id, argv)
<1>1. /\ Types /\ stack \in Seq(Frames) /\ stack # <<>> /\ Top \in DoNexts
      /\ Top.frame = "donext" /\ Top.at = "loop" /\ ~AtEnd /\ crashed = FALSE
    BY Below, Kinds DEF DoMess, Looping, Is, AtMess, IInv, Types
<1>1a. argv \in Int
    BY <1>1 DEF NoArgs, Types
<1>2. Top.rewound = FALSE
    BY <1>1, LoopNotRewound
<1>3. /\ RewindStops' /\ x_onset' \in Nat /\ x_reentered' = FALSE /\ moves' \in Nat
      /\ UNCHANGED <<x_binbuf, moves, s_thing, bound, made, fresh, inside>>
    BY <1>1, <1>2, SkipFacts DEF DoMess, GoesOn, content, binding, IInv, Types, RewindStops
<1>4. /\ crashed' = (~silent /\ ~there) /\ orphan' = (orphan /\ ~Passed)
      /\ stack' = IF silent \/ ~there THEN <<me>> \o Tail(stack)
                  ELSE IF to.k = "bindlist" THEN <<Handler(argv), b, me>> \o Tail(stack)
                  ELSE <<Handler(argv), me>> \o Tail(stack)
    BY DEF DoMess
<1>5. Atom(Onset) \in Alphabet
    BY <1>1, OnsetFacts
<1>6. Target \in Things /\ (Target # NoThing => Target = Top.target)
  <2>1. NoThing \in Things
      BY DEF NoThing, Things
  <2>2. Top.target \in Things
      BY <1>1 DEF DoNexts
  <2> QED BY <2>1, <2>2 DEF Target
<1>7. /\ to \in Things /\ sym \in Symbols /\ to # NoThing
      /\ ~inside => Kept(to, sym, s_thing, bound)
  <2>1. CASE found
    <3>1. to = Thing(Atom(Onset)) /\ sym = Atom(Onset) /\ Thing(Atom(Onset)) # NoThing
        BY <2>1 DEF DoMess
    <3> QED BY <1>5, <3>1, ThingFacts
  <2>2. CASE ~found
    <3>1. to = Top.target /\ sym = Top.sym /\ to # NoThing
        BY <1>6, <2>2
    <3>2. ~inside => Kept(to, sym, s_thing, bound)
        BY <1>1, <3>1, Below DEF SafeFrame
    <3> QED BY <1>1, <3>1, <3>2 DEF DoNexts
  <2> QED BY <2>1, <2>2
<1> HIDE DEF found, to, sym, first, silent, argv
<1>8. /\ me \in DoNexts /\ me.frame = "donext" /\ me.target = to /\ me.sym = sym
      /\ me.at = "sent" /\ me.was = x_reentered /\ me.rewound = FALSE
  <2>1. (Top.moved /\ ~Passed) \in BOOLEAN /\ x_reentered \in BOOLEAN
      BY <1>1 DEF DoNexts, Types
  <2>2. sym \in Alphabet \cup {""}
      BY <1>7 DEF Alphabet
  <2> HIDE DEF Passed
  <2> QED BY <1>1, <1>2, <1>7, <2>1, <2>2 DEF DoNexts
<1> HIDE DEF me
<1>9. me \in Frames /\ (~inside => SafeFrame(me, s_thing, bound))
    BY <1>7, <1>8 DEF SafeFrame, Frames
<1>10. x_reentered \/ Saves(Top) <=> x_reentered' \/ Saves(me)
    BY <1>1, <1>3, <1>8 DEF Saves
<1>11. /\ x_binbuf' \in Seq(Alphabet) /\ x_reentered' \in BOOLEAN /\ orphan' \in BOOLEAN
       /\ there \in BOOLEAN
    BY <1>3, <1>4 DEF IInv, Types, StillThere
<1>12. ~inside => there
  <2>1. bound[sym] \in Seq(Objects)
      BY <1>7 DEF IInv, Types
  <2>2. DOMAIN bound[sym] = 1 .. Len(bound[sym])
      BY <2>1
  <2> QED BY <1>7, <2>2 DEF Kept, StillThere
<1>13. CASE silent \/ ~there
  <2>1. stack' = <<me>> \o Tail(stack) /\ crashed' \in BOOLEAN /\ (~inside => ~crashed')
      BY <1>4, <1>11, <1>12, <1>13
  <2> HIDE DEF there
  <2> QED BY <1>1, <1>3, <1>8, <1>9, <1>10, <1>11, <2>1, ReplaceStep
<1>14. CASE ~silent /\ there /\ to.k # "bindlist"
  <2>1. stack' = <<Handler(argv), me>> \o Tail(stack) /\ crashed' = FALSE
      BY <1>4, <1>14
  <2> HIDE DEF there
  <2> QED BY <1>1, <1>3, <1>8, <1>9, <1>10, <1>11, <1>1a, <2>1, HandStep
<1>15. CASE ~silent /\ there /\ to.k = "bindlist"
  <2>1. stack' = <<Handler(argv), b, me>> \o Tail(stack) /\ crashed' = FALSE
      BY <1>4, <1>15
  <2>2. sym \in Symbols
      BY <1>7
  <2>3. /\ s_thing[sym].k = "bindlist" /\ s_thing[sym].elems \in Seq(Elems)
        /\ Len(s_thing[sym].elems) >= 1
    <3>1. s_thing[sym].id = to.id /\ to.id # 0
        BY <1>7, <1>15 DEF StillThere, Things
    <3>2. s_thing[sym] \in Things /\ Exact(s_thing[sym], bound[sym]) /\ bound[sym] \in Seq(Objects)
        BY <2>2 DEF IInv, Types, Bindings
    <3>3. s_thing[sym].k = "bindlist" /\ s_thing[sym].elems \in Seq(Elems)
        BY <3>1, <3>2 DEF Things
    <3>4. Len(bound[sym]) # 0 /\ Len(s_thing[sym].elems) = Len(bound[sym])
        BY <3>2, <3>3 DEF Exact, Receivers
    <3> QED BY <3>2, <3>3, <3>4
  <2>4. s_thing[sym].elems[1] \in Elems
      BY <2>3
  <2>5. s_thing[sym].elems[1].id \in Int
      BY <2>4 DEF Elems
  <2>6. b \in Frames /\ b.frame = "bindlist" /\ b.sym = sym /\ b.elem = s_thing[sym].elems[1].id
      BY <1>1a, <2>2, <2>5 DEF Frames, ToElem
  <2> HIDE DEF b, there
  <2>7. SafeFrame(b, s_thing, bound)
    <3>1. 1 \in 1 .. Len(s_thing[sym].elems)
        BY <2>3
    <3> QED BY <2>2, <2>3, <2>6, <3>1 DEF SafeFrame, KeptElem
  <2> DEFINE s == <<me>> \o Tail(stack)
             u == <<b>> \o s
  <2>8. /\ s \in Seq(Frames) /\ Calm(s) /\ Stops(s, x_reentered')
        /\ ~inside => AllSafe(s, s_thing, bound)
      BY <1>1, <1>3, <1>8, <1>9, <1>10, <1>11, Replaced
  <2> HIDE DEF s
  <2>9. u \in Seq(Frames) /\ Calm(u)
      BY <2>6, <2>8, Pushed, CalmPush
  <2>10. Stops(u, x_reentered') /\ (~inside => AllSafe(u, s_thing, bound))
    <3>1. ~ Saves(b)
        BY <2>6 DEF Saves
    <3> QED BY <1>11, <2>6, <2>7, <2>8, <3>1, StopsPush, SafePush
  <2>11. stack' = <<Handler(argv)>> \o u
    <3>1. Tail(stack) \in Seq(Frames) /\ Handler(argv) \in Frames
        BY <1>1, <1>1a, Below, NewFrames
    <3>2. me \in Frames /\ b \in Frames
        BY <1>9, <2>6
    <3>3. <<Handler(argv), b, me>> \o Tail(stack)
             = <<Handler(argv)>> \o (<<b>> \o (<<me>> \o Tail(stack)))
      <4> DEFINE h == Handler(argv)
                 t == Tail(stack)
      <4>1. h \in Frames /\ b \in Frames /\ me \in Frames /\ t \in Seq(Frames)
          BY <3>1, <3>2
      <4> HIDE DEF h, t
      <4>2. ThreeOnto(h, b, me, t) = Onto(h, Onto(b, Onto(me, t)))
          BY <4>1, PushedThrice
      <4> QED BY <4>2, Zenon DEF h, t, Onto, ThreeOnto
    <3> QED BY <2>1, <3>3 DEF s
  <2> HIDE DEF u
  <2> QED BY <1>1, <1>3, <1>11, <1>1a, <2>1, <2>9, <2>10, <2>11, WaitStep
<1> QED BY <1>13, <1>14, <1>15, Zenon

\* The vector is counted.
LEMMA MovesCounted ==
    ASSUME moves \in Nat, VectorMoves
    PROVE  moves' \in Nat
<1>1. PICK n \in Nat : n = moves
    OBVIOUS
<1>2. n + 1 \in Nat
    OBVIOUS
<1>3. moves' = n \/ moves' = n + 1
    BY <1>1, Zenon DEF VectorMoves
<1> QED BY <1>2, <1>3, Zenon

\* Every step preserves the invariant.
LEMMA NextIInv == IInv /\ [Next]_vars => IInv'
<1> SUFFICES ASSUME IInv, [Next]_vars PROVE IInv'
    OBVIOUS
<1> USE DEF End, content, RewindStops
<1>0. /\ Types /\ RewindStops /\ moves \in Nat /\ stack \in Seq(Frames)
      /\ x_binbuf \in Seq(Alphabet)
      /\ x_reentered \in BOOLEAN /\ orphan \in BOOLEAN /\ x_onset \in Nat \cup {End}
      /\ crashed \in BOOLEAN
    BY DEF IInv, Types
<1>1. ASSUME Call, qlist_rewind, stack' = Rewound(stack), UNCHANGED <<binding, faults>>,
             x_binbuf' \in Seq(Alphabet), moves' \in Nat
      PROVE  IInv'
    BY <1>0, <1>1, RewindStep DEF Call, qlist_rewind, binding, faults
<1>2. CASE Rewind
    BY <1>0, <1>1, <1>2 DEF Rewind
<1>3. CASE qlist_clear
  <2>1. x_binbuf' \in Seq(Alphabet) /\ moves' \in Nat
      BY <1>0, <1>3, MovesCounted DEF qlist_clear
  <2> QED BY <1>1, <1>3, <2>1 DEF qlist_clear
<1>4. ASSUME NEW l \in Lists, qlist_set(l) PROVE IInv'
  <2>1. x_binbuf' \in Seq(Alphabet) /\ moves' \in Nat
      BY <1>0, <1>4, Contents, MovesCounted DEF qlist_set
  <2> QED BY <1>1, <1>4, <2>1 DEF qlist_set
<1>5. ASSUME NEW l \in Lists, qlist_read(l) PROVE IInv'
  <2>1. x_binbuf' \in Seq(Alphabet) /\ moves' \in Nat
      BY <1>0, <1>5, Contents, MovesCounted DEF qlist_read
  <2> QED BY <1>0, <1>5, <2>1, RewindStep DEF qlist_read, Call, binding, faults
<1>6. CASE qlist_bang
  <2>1. Calm(stack)
      BY <1>6, CallerCalm DEF qlist_bang, Call
  <2>2. Rewound(stack) \in Seq(Frames) /\ Calm(Rewound(stack)) /\ Stops(Rewound(stack), TRUE)
      BY <1>0, <2>1, RewoundFacts, RewoundStops
  <2>3. Stops(Rewound(stack), x_reentered') /\ x_reentered' \in BOOLEAN
      BY <1>6, <2>2 DEF qlist_bang, qlist_rewind
  <2>4. ~inside => AllSafe(Rewound(stack), s_thing, bound)
      BY <1>0, MarkedSafe DEF IInv, Safe
  <2> QED BY <1>0, <1>6, <2>2, <2>3, <2>4, PassStep
          DEF qlist_bang, Call, MayCall, qlist_rewind, binding, faults
<1>7. ASSUME NEW drop \in BOOLEAN, qlist_next(drop) PROVE IInv'
  <2>1. Calm(stack)
      BY <1>7, CallerCalm DEF qlist_next, Call
  <2>2. Moved(stack) \in Seq(Frames) /\ Calm(Moved(stack)) /\ Stops(Moved(stack), x_reentered)
      BY <1>0, <2>1, MovedFacts, MovedStops DEF IInv, Rewinds
  <2>3. ~inside => AllSafe(Moved(stack), s_thing, bound)
      BY <1>0, MarkedSafe DEF IInv, Safe
  <2> QED BY <1>0, <1>7, <2>2, <2>3, PassStep
          DEF qlist_next, Call, MayCall, binding, faults
<1>8. CASE qlist_tick
  <2>1. Calm(stack) /\ Stops(stack, x_reentered) /\ (~inside => AllSafe(stack, s_thing, bound))
      BY <1>8 DEF qlist_tick, Calm, Stops, AllSafe
  <2>2. stack' = <<DoNext(FALSE, TRUE)>> \o stack
      BY <1>8 DEF qlist_tick
  <2> QED BY <1>0, <1>8, <2>1, <2>2, PassStep DEF qlist_tick, state, place, binding, faults
<1>9. ASSUME NEW l \in Lists, NEW semi \in BOOLEAN, qlist_add(l, semi) PROVE IInv'
  <2>1. x_binbuf' \in Seq(Alphabet) /\ moves' \in Nat
    <3>1. moves' \in Nat
        BY <1>0, <1>9, MovesCounted DEF qlist_add
    <3> QED BY <1>0, <1>9, <3>1, Contents DEF qlist_add
  <2> QED BY <1>0, <1>9, <2>1, StackStep
          DEF qlist_add, Call, MayCall, place, binding, faults, IInv,
           Depth, Rewinds, Safe, Types
<1>10. CASE qlist_tempo
    BY <1>0, <1>10, StackStep
       DEF qlist_tempo, Call, MayCall, state, place, binding, faults, IInv,
           Depth, Rewinds, Safe, Types
<1>11. CASE HandlerReturns
  <2>1. stack # <<>> /\ ~ Saves(Top)
      BY <1>11 DEF HandlerReturns, Is, Saves
  <2> QED BY <1>0, <1>11, <2>1, PopStep DEF HandlerReturns, Is, state, place, binding, faults
<1>12. CASE DoEndBanged
  <2>1. stack # <<>> /\ ~ Saves(Top)
      BY <1>12 DEF DoEndBanged, Is, Saves
  <2>2. RewindStops'
      BY <1>0, <1>12 DEF DoEndBanged
  <2> QED BY <1>0, <1>12, <2>1, <2>2, PopStep DEF DoEndBanged, Is, state, place, binding
<1>13. CASE DoSent
  <2>1. stack # <<>> /\ Top \in DoNexts /\ Top.frame = "donext" /\ Top.at = "sent"
      BY <1>13, Below, Kinds DEF DoSent, Is
  <2>2. CASE x_reentered
      BY <1>0, <1>13, <2>1, <2>2, PopStep DEF DoSent, Is, Sent, place, binding, faults
  <2>3. CASE ~ x_reentered
    <3> DEFINE f == [Top EXCEPT !.at = "loop"]
    <3>1. /\ f \in Frames /\ f.frame = "donext" /\ f.rewound = Top.rewound
          /\ f.target = Top.target /\ f.sym = Top.sym /\ f.at = "loop"
        BY <2>1 DEF DoNexts, Frames
    <3>2. ~Top.rewound
      <4>1. 1 \in 1 .. Len(stack)
          BY <1>0, <2>1
      <4> QED BY <2>1, <2>3, <4>1 DEF IInv, Rewinds, Stops, Top
    <3> HIDE DEF f
    <3>3. stack' = <<f>> \o Tail(stack) /\ x_reentered' = Top.was
        BY <1>13, <2>3 DEF DoSent, Sent, f
    <3>4. x_reentered' \in BOOLEAN /\ (x_reentered \/ Saves(Top) <=> x_reentered' \/ Saves(f))
        BY <2>1, <2>3, <3>1, <3>3 DEF DoNexts, Saves
    <3>5. ~inside => SafeFrame(f, s_thing, bound)
        BY <2>1, <3>1, Below DEF SafeFrame
    <3> QED BY <1>0, <1>13, <2>1, <3>1, <3>2, <3>3, <3>4, <3>5, ReplaceStep
            DEF DoSent, Is, place, binding, faults
  <2> QED BY <2>2, <2>3
<1>14. CASE DoEnd
  <2>1. stack # <<>> /\ Top \in DoNexts /\ Top.frame = "donext" /\ Top.at = "loop"
      BY <1>14, Below, Kinds DEF DoEnd, Looping, Is
  <2>2. ~Top.rewound
      BY <2>1, LoopNotRewound
  <2> DEFINE f == [Top EXCEPT !.at = "banged"]
  <2>3. /\ f \in Frames /\ f.frame = "donext" /\ f.rewound = Top.rewound /\ f.at = "banged"
        /\ f.target = Top.target /\ f.sym = Top.sym
      BY <2>1 DEF DoNexts, Frames
  <2> HIDE DEF f
  <2>4. /\ stack' = <<Handler(NoArgs), f>> \o Tail(stack) /\ x_onset' = End /\ RewindStops'
        /\ crashed' = FALSE /\ NoArgs \in Int
      BY <1>0, <1>14, <2>2 DEF DoEnd, Looping, Is, GoesOn, NoArgs, f
  <2>5. x_reentered \/ Saves(Top) <=> x_reentered' \/ Saves(f)
      BY <1>14, <2>1, <2>3 DEF DoEnd, Saves
  <2>6. ~inside => SafeFrame(f, s_thing, bound)
      BY <2>1, <2>3, Below DEF SafeFrame
  <2> QED BY <1>0, <1>14, <2>1, <2>2, <2>3, <2>4, <2>5, <2>6, HandStep
          DEF DoEnd, binding
<1>15. CASE DoTime
  <2>1. stack # <<>> /\ Top \in DoNexts /\ Top.frame = "donext" /\ Top.at = "loop"
      BY <1>15, Below, Kinds DEF DoTime, Looping, Is
  <2>2. RewindStops' /\ x_onset' \in Nat /\ orphan' \in BOOLEAN
      BY <1>0, <1>15, <2>1, LoopNotRewound, SkipFacts DEF DoTime, GoesOn, AtTime
  <2>3. ~ Saves(Top)
      BY <2>1 DEF Saves
  <2>4. CASE Top.automatic
      BY <1>0, <1>15, <2>1, <2>2, <2>3, <2>4, PopStep DEF DoTime, Looping, Is, binding
  <2>5. CASE ~ Top.automatic
    <3>1. SafeFrame(Handler(moves), s_thing, bound) /\ Handler(moves) \in Frames
          /\ Handler(moves).frame = "handler"
        BY <1>0, NewFrames DEF SafeFrame
    <3>2. ~ Saves(Handler(moves))
        BY <1>0, NewFrames DEF Saves
    <3>3. stack' = <<Handler(moves)>> \o Tail(stack)
        BY <1>15, <2>5 DEF DoTime
    <3> QED BY <1>0, <1>15, <2>1, <2>2, <2>3, <3>1, <3>2, <3>3, ReplaceStep
            DEF DoTime, Looping, Is, binding
  <2> QED BY <2>4, <2>5
<1>16. CASE DoTarget
  <2>1. stack # <<>> /\ Top \in DoNexts /\ Top.frame = "donext" /\ Top.at = "loop" /\ ~AtEnd
      BY <1>16, Below, Kinds DEF DoTarget, Looping, Is, AtMess
  <2>2. RewindStops' /\ x_onset' \in Nat /\ orphan' \in BOOLEAN /\ ~Top.rewound
      BY <1>0, <1>16, <2>1, LoopNotRewound, SkipFacts DEF DoTarget, GoesOn
  <2> DEFINE a == Atom(Onset)
             f == [Top EXCEPT !.target = Thing(a), !.sym = a, !.moved = @ /\ ~Passed]
  <2>3. a \in Alphabet
      BY <1>0, <2>1, OnsetFacts
  <2>4. stack' = <<f>> \o Tail(stack)
      BY <1>16 DEF DoTarget
  <2> HIDE DEF a
  <2>5. /\ Thing(a) \in Things
        /\ Thing(a) # NoThing => a \in Symbols /\ Kept(Thing(a), a, s_thing, bound)
      BY <2>3, ThingFacts
  <2>6. /\ f \in Frames /\ f.frame = "donext" /\ f.rewound = Top.rewound
        /\ f.target = Thing(a) /\ f.sym = a /\ f.at = "loop"
    <3>1. (Top.moved /\ ~Passed) \in BOOLEAN
        BY <2>1 DEF DoNexts
    <3> HIDE DEF Thing, Passed
    <3> QED BY <2>1, <2>3, <2>5, <3>1 DEF DoNexts, Frames
  <2> HIDE DEF f
  <2>7. x_reentered \/ Saves(Top) <=> x_reentered' \/ Saves(f)
      BY <1>16, <2>1, <2>6 DEF DoTarget, Saves
  <2>8. ~inside => SafeFrame(f, s_thing, bound)
      BY <2>5, <2>6 DEF SafeFrame
  <2> QED BY <1>0, <1>16, <2>1, <2>2, <2>4, <2>6, <2>7, <2>8, ReplaceStep
          DEF DoTarget, Looping, Is, binding
<1>17. ASSUME NEW o \in Objects, MakeObject(o) PROVE IInv'
    BY <1>17, MakeStep
<1>18. ASSUME NEW o \in Objects, DeleteObject(o) PROVE IInv'
    BY <1>18, DeleteStep
<1>19. CASE DoMess
    BY <1>19, MessStep
<1>20. CASE BindlistNext
    BY <1>20, BindlistStep
<1>21. CASE HandlerRereads
  <2>1. stack # <<>> /\ Stale(Top) /\ UNCHANGED <<stack, moves>>
      BY <1>21 DEF HandlerRereads, Is, state
  <2>2. CrashNeedsChange'
      BY <2>1 DEF CrashNeedsChange, Stale, Top
  <2> QED BY <1>21, <2>2, StillStep DEF HandlerRereads, state, place, binding
<1>22. CASE UNCHANGED vars
  <2>1. UNCHANGED <<x_binbuf, moves, x_onset, orphan, x_reentered, s_thing, bound, made, fresh,
                    stack, crashed, inside, zombie>>
      BY <1>22 DEF vars, state, place, binding, faults
  <2>2. CrashNeedsChange'
      BY <2>1 DEF IInv, CrashNeedsChange, Stale, Top
  <2> QED BY <1>0, <2>1, <2>2, StillStep
<1> QED BY <1>2, <1>3, <1>4, <1>5, <1>6, <1>7, <1>8, <1>9, <1>10, <1>11, <1>12, <1>13, <1>14,
           <1>15, <1>16, <1>17, <1>18, <1>19, <1>20, <1>21, <1>22 DEF Next

-----------------------------------------------------------------------------
(* Lemmas about lines.                                                     *)

\* A bounded set of natural numbers has a greatest one.
LEMMA Greatest ==
    ASSUME NEW n \in Nat, NEW P, P \subseteq 0 .. n, NEW p \in P
    PROVE  \E j \in P : \A i \in P : i <= j
<1> DEFINE Q == {n - i : i \in P}
<1>1. Q \subseteq Nat /\ n - p \in Q
    OBVIOUS
<1>2. PICK q \in Q : \A i \in Q : q <= i
  <2> HIDE DEF Q
  <2> QED BY <1>1, Least
<1>3. PICK j \in P : q = n - j
    OBVIOUS
<1>4. \A i \in P : n - i \in Q
    OBVIOUS
<1> HIDE DEF Q
<1>5. \A i \in P : q <= n - i
    BY <1>2, <1>4
<1>6. \A i \in P : i <= j
    BY <1>3, <1>5
<1> QED BY <1>6

\* Numbers and commas keep a position clean.
LEMMA CleanStep ==
    ASSUME NEW b, NEW x \in Nat, NEW y \in Nat, x <= y
    PROVE  Clean(b, x) /\ (\A j \in x .. y - 1 : b[j + 1] \in {"f", ","}) => Clean(b, y)
<1>0. SUFFICES ASSUME Clean(b, x), \A j \in x .. y - 1 : b[j + 1] \in {"f", ","}
               PROVE  Clean(b, y)
    OBVIOUS
<1>1. PICK s \in 0 .. x : /\ s = 0 \/ b[s] = ";"
                          /\ \A j \in s .. x - 1 : b[j + 1] \in {"f", ","}
    BY <1>0 DEF Clean
<1>2. \A j \in s .. y - 1 : j \in s .. x - 1 \/ j \in x .. y - 1
    OBVIOUS
<1>3. \A j \in s .. y - 1 : b[j + 1] \in {"f", ","}
    BY <1>0, <1>1, <1>2, Zenon
<1>4. s \in 0 .. y
    OBVIOUS
<1> QED BY <1>1, <1>3, <1>4, Zenon DEF Clean

\* Anything but a semicolon keeps a position in its line.
LEMMA HeadedStep ==
    ASSUME NEW b, NEW sym, NEW x \in Nat, NEW y \in Nat, x <= y
    PROVE  Headed(b, x, sym) /\ (\A j \in x .. y - 1 : b[j + 1] # ";") => Headed(b, y, sym)
<1>0. SUFFICES ASSUME Headed(b, x, sym), \A j \in x .. y - 1 : b[j + 1] # ";"
               PROVE  Headed(b, y, sym)
    OBVIOUS
<1>1. PICK s \in 0 .. x : \E h \in s .. x - 1 :
         /\ s = 0 \/ b[s] = ";"
         /\ \A j \in s .. h - 1 : b[j + 1] \in {"f", ","}
         /\ b[h + 1] = sym
         /\ \A j \in h .. x - 1 : b[j + 1] # ";"
    BY <1>0 DEF Headed
<1>2. PICK h \in s .. x - 1 :
         /\ s = 0 \/ b[s] = ";"
         /\ \A j \in s .. h - 1 : b[j + 1] \in {"f", ","}
         /\ b[h + 1] = sym
         /\ \A j \in h .. x - 1 : b[j + 1] # ";"
    BY <1>1
<1>3. \A j \in h .. y - 1 : j \in h .. x - 1 \/ j \in x .. y - 1
    OBVIOUS
<1>4. \A j \in h .. y - 1 : b[j + 1] # ";"
    BY <1>0, <1>2, <1>3, Zenon
<1>5. s \in 0 .. y /\ h \in s .. y - 1
    OBVIOUS
<1> QED BY <1>0, <1>2, <1>4, <1>5, Zenon DEF Headed

\* A symbol at a clean position is the head of its line.
LEMMA CleanHead ==
    ASSUME NEW b, NEW x \in Nat, NEW y \in Nat, x < y
    PROVE  /\ Clean(b, x) /\ b[x + 1] \notin {"f", ",", ";"}
           /\ \A j \in x .. y - 1 : b[j + 1] # ";"
           => Headed(b, y, b[x + 1])
<1>0. SUFFICES ASSUME Clean(b, x), b[x + 1] \notin {"f", ",", ";"},
                      \A j \in x .. y - 1 : b[j + 1] # ";"
               PROVE  Headed(b, y, b[x + 1])
    OBVIOUS
<1>1. PICK s \in 0 .. x : /\ s = 0 \/ b[s] = ";"
                          /\ \A j \in s .. x - 1 : b[j + 1] \in {"f", ","}
    BY <1>0 DEF Clean
<1>2. s \in 0 .. y /\ x \in s .. y - 1
    OBVIOUS
<1> QED BY <1>0, <1>1, <1>2, Zenon DEF Headed

\* Separators, a semicolon among them, lead to a clean position.
LEMMA PassedClean ==
    ASSUME NEW b, NEW x \in Nat, NEW y \in Nat
    PROVE  /\ \A j \in x .. y - 1 : b[j + 1] \in {";", ","}
           /\ \E j \in x .. y - 1 : b[j + 1] = ";"
           => Clean(b, y)
<1>0. SUFFICES ASSUME \A j \in x .. y - 1 : b[j + 1] \in {";", ","},
                      \E j \in x .. y - 1 : b[j + 1] = ";"
               PROVE  Clean(b, y)
    OBVIOUS
<1> DEFINE P == {j \in x .. y - 1 : b[j + 1] = ";"}
<1>1. P \subseteq 0 .. y
  <2>1. \A j \in x .. y - 1 : j \in 0 .. y
      OBVIOUS
  <2> QED BY <2>1, Zenon
<1>2. PICK m \in P : \A i \in P : i <= m
  <2>1. PICK p : p \in P
      BY <1>0
  <2> HIDE DEF P
  <2> QED BY <1>1, <2>1, Greatest
<1>3. m \in x .. y - 1 /\ b[m + 1] = ";"
    OBVIOUS
<1>4. ASSUME NEW j \in m + 1 .. y - 1 PROVE b[j + 1] \in {"f", ","}
  <2>1. j \in x .. y - 1 /\ ~ (j <= m)
    <3>1. m \in x .. y - 1
        BY <1>3, Zenon
    <3> HIDE DEF P
    <3> QED BY <3>1
  <2>2. b[j + 1] # ";"
      BY <1>2, <2>1, Zenon
  <2>3. b[j + 1] \in {";", ","}
      BY <1>0, <2>1, Zenon
  <2> QED BY <2>2, <2>3
<1>5. m + 1 \in 0 .. y
  <2>1. m \in x .. y - 1
      BY <1>3
  <2> HIDE DEF P
  <2> QED BY <2>1
<1> QED BY <1>3, <1>4, <1>5, Zenon DEF Clean

\* What is appended to a list does not change the lines before it.
LEMMA Appended ==
    ASSUME NEW S, NEW b \in Seq(S), NEW c \in Seq(S), NEW x \in 0 .. Len(b)
    PROVE  /\ Clean(b, x) => Clean(b \o c, x)
           /\ \A sym : Headed(b, x, sym) => Headed(b \o c, x, sym)
<1> DEFINE d == b \o c
<1>1. \A j \in 1 .. x : d[j] = b[j]
    OBVIOUS
<1> HIDE DEF d
<1>2. ASSUME Clean(b, x) PROVE Clean(d, x)
  <2>1. PICK s \in 0 .. x : /\ s = 0 \/ b[s] = ";"
                            /\ \A j \in s .. x - 1 : b[j + 1] \in {"f", ","}
      BY <1>2 DEF Clean
  <2>2. \A j \in s .. x - 1 : j + 1 \in 1 .. x
      OBVIOUS
  <2>3. s = 0 \/ s \in 1 .. x
      OBVIOUS
  <2>4. (s = 0 \/ d[s] = ";") /\ \A j \in s .. x - 1 : d[j + 1] \in {"f", ","}
      BY <1>1, <2>1, <2>2, <2>3
  <2> QED BY <2>4, Zenon DEF Clean
<1>3. ASSUME NEW sym, Headed(b, x, sym) PROVE Headed(d, x, sym)
  <2>1. PICK s \in 0 .. x : \E h \in s .. x - 1 :
           /\ s = 0 \/ b[s] = ";"
           /\ \A j \in s .. h - 1 : b[j + 1] \in {"f", ","}
           /\ b[h + 1] = sym
           /\ \A j \in h .. x - 1 : b[j + 1] # ";"
      BY <1>3 DEF Headed
  <2>2. PICK h \in s .. x - 1 :
           /\ s = 0 \/ b[s] = ";"
           /\ \A j \in s .. h - 1 : b[j + 1] \in {"f", ","}
           /\ b[h + 1] = sym
           /\ \A j \in h .. x - 1 : b[j + 1] # ";"
      BY <2>1
  <2>3. /\ \A j \in s .. h - 1 : j + 1 \in 1 .. x
        /\ \A j \in h .. x - 1 : j + 1 \in 1 .. x
        /\ h + 1 \in 1 .. x /\ (s = 0 \/ s \in 1 .. x)
      OBVIOUS
  <2>4. /\ s = 0 \/ d[s] = ";"
        /\ \A j \in s .. h - 1 : d[j + 1] \in {"f", ","}
        /\ d[h + 1] = sym
        /\ \A j \in h .. x - 1 : d[j + 1] # ";"
      BY <1>1, <2>2, <2>3
  <2> QED BY <1>3, <2>4, Zenon DEF Headed
<1> QED BY <1>2, <1>3 DEF d

\* Where a line begins.
LEMMA LineStartIs ==
    ASSUME NEW k \in Nat, NEW s \in 0 .. k
    PROVE  /\ s = 0 \/ x_binbuf[s] = ";"
           /\ \A j \in s .. k - 1 : x_binbuf[j + 1] # ";"
           => LineStart(k) = s
<1>0. SUFFICES ASSUME s = 0 \/ x_binbuf[s] = ";",
                      \A j \in s .. k - 1 : x_binbuf[j + 1] # ";"
               PROVE  LineStart(k) = s
    OBVIOUS
<1> DEFINE semis == {j \in 0 .. k - 1 : x_binbuf[j + 1] = ";"}
<1>1. LineStart(k) = IF semis = {} THEN 0
                     ELSE 1 + CHOOSE j \in semis : \A i \in semis : i <= j
    BY DEF LineStart, Atom
<1>2. \A i \in semis : i \in Nat /\ i < s
  <2>1. \A i \in 0 .. k - 1 : i \in Nat /\ (i < s \/ i \in s .. k - 1)
      OBVIOUS
  <2> QED BY <1>0, <2>1, Zenon
<1>3. CASE s = 0
  <2>1. semis = {}
    <3> HIDE DEF semis
    <3> QED BY <1>2, <1>3
  <2> QED BY <1>1, <1>3, <2>1
<1>4. CASE s # 0
  <2>1. s - 1 \in semis
    <3>1. s - 1 \in 0 .. k - 1 /\ (s - 1) + 1 = s
        BY <1>4
    <3>2. x_binbuf[(s - 1) + 1] = ";"
        BY <1>0, <1>4, <3>1
    <3> QED BY <3>1, <3>2, Zenon
  <2> HIDE DEF semis
  <2>2. \A j \in semis : (\A i \in semis : i <= j) <=> j = s - 1
    <3>1. \A i \in semis : i \in Nat /\ i <= s - 1
        BY <1>2
    <3> QED BY <2>1, <3>1
  <2>3. (CHOOSE j \in semis : \A i \in semis : i <= j) = s - 1
      BY <2>1, <2>2
  <2>4. LineStart(k) = 1 + (s - 1)
      BY <1>1, <2>1, <2>3, Zenon
  <2> QED BY <2>4
<1> QED BY <1>3, <1>4

\* The first of a set of positions.
LEMMA FirstIs ==
    ASSUME x_binbuf \in Seq(Alphabet), NEW P, P \subseteq Nat, NEW h \in P,
           \A i \in P : h <= i, h < natom
    PROVE  FirstOf(P) = h
<1>1. FirstOf(P) \in P \cup {natom} /\ \A i \in P \cup {natom} : FirstOf(P) <= i
    BY FirstOfFacts
<1>2. natom \in Nat
    BY DEF natom
<1> DEFINE f == FirstOf(P)
<1>3. f \in P \cup {natom} /\ f <= h
    BY <1>1
<1> HIDE DEF f
<1>4. f = h
    BY <1>2, <1>3
<1> QED BY <1>4 DEF f

\* The symbol of the line of a position, from where the line begins and its first symbol.
LEMMA SymbolIs ==
    ASSUME NEW k \in Nat, NEW s \in 0 .. k, NEW h \in s .. k
    PROVE  /\ x_binbuf \in Seq(Alphabet) /\ h < natom
           /\ s = 0 \/ x_binbuf[s] = ";"
           /\ \A j \in s .. k - 1 : x_binbuf[j + 1] # ";"
           /\ \A j \in s .. h - 1 : x_binbuf[j + 1] \in {"f", ","}
           /\ x_binbuf[h + 1] \notin {"f", ","}
           => LineSymbol(k) = x_binbuf[h + 1]
<1>0. SUFFICES ASSUME x_binbuf \in Seq(Alphabet), h < natom,
                      s = 0 \/ x_binbuf[s] = ";",
                      \A j \in s .. k - 1 : x_binbuf[j + 1] # ";",
                      \A j \in s .. h - 1 : x_binbuf[j + 1] \in {"f", ","},
                      x_binbuf[h + 1] \notin {"f", ","}
               PROVE  LineSymbol(k) = x_binbuf[h + 1]
    OBVIOUS
<1>1. LineStart(k) = s
    BY <1>0, LineStartIs, Zenon
<1> DEFINE P == {j \in s .. natom - 1 : x_binbuf[j + 1] \notin {"f", ","}}
<1>2. natom \in Nat /\ h \in Nat /\ h < natom
  <2>1. x_binbuf \in Seq(Alphabet) /\ h < natom
      BY <1>0, Zenon
  <2> QED BY <2>1 DEF natom
<1>3. P \subseteq Nat /\ h \in P
  <2>1. \A j \in s .. natom - 1 : j \in Nat
      BY <1>2
  <2>2. h \in s .. natom - 1
      BY <1>2
  <2> QED BY <1>0, <2>1, <2>2, Zenon
<1>4. \A i \in P : h <= i
  <2>1. \A i \in s .. natom - 1 : h <= i \/ i \in s .. h - 1
      BY <1>2
  <2> QED BY <1>0, <2>1, Zenon
<1>5. LineSymbol(k) = x_binbuf[FirstOf(P) + 1]
    BY <1>1 DEF LineSymbol, Atom
<1> HIDE DEF P
<1>6. FirstOf(P) = h
    BY <1>0, <1>2, <1>3, <1>4, FirstIs
<1> QED BY <1>5, <1>6

\* The symbol of the line of a clean position, and of a line that begins with a symbol.
LEMMA LineSymbols ==
    ASSUME x_binbuf \in Seq(Alphabet), NEW k \in 0 .. natom - 1
    PROVE  /\ Clean(x_binbuf, k) /\ x_binbuf[k + 1] \notin {"f", ",", ";"}
                 => LineSymbol(k) = x_binbuf[k + 1]
           /\ \A sym : Headed(x_binbuf, k, sym) => LineSymbol(k) = sym
<1>0. natom \in Nat /\ k \in Nat
    BY DEF natom
<1>1. ASSUME Clean(x_binbuf, k), x_binbuf[k + 1] \notin {"f", ",", ";"}
      PROVE  LineSymbol(k) = x_binbuf[k + 1]
  <2>1. PICK s \in 0 .. k : /\ s = 0 \/ x_binbuf[s] = ";"
                            /\ \A j \in s .. k - 1 : x_binbuf[j + 1] \in {"f", ","}
      BY <1>1 DEF Clean
  <2>2. \A j \in s .. k - 1 : x_binbuf[j + 1] # ";"
      BY <2>1
  <2>3. k \in s .. k /\ k < natom
      BY <1>0
  <2> QED BY <1>0, <1>1, <2>1, <2>2, <2>3, SymbolIs
<1>2. ASSUME NEW sym, Headed(x_binbuf, k, sym) PROVE LineSymbol(k) = sym
  <2>1. PICK s \in 0 .. k : \E h \in s .. k - 1 :
           /\ s = 0 \/ x_binbuf[s] = ";"
           /\ \A j \in s .. h - 1 : x_binbuf[j + 1] \in {"f", ","}
           /\ x_binbuf[h + 1] = sym
           /\ \A j \in h .. k - 1 : x_binbuf[j + 1] # ";"
      BY <1>2 DEF Headed
  <2>2. PICK h \in s .. k - 1 :
           /\ s = 0 \/ x_binbuf[s] = ";"
           /\ \A j \in s .. h - 1 : x_binbuf[j + 1] \in {"f", ","}
           /\ x_binbuf[h + 1] = sym
           /\ \A j \in h .. k - 1 : x_binbuf[j + 1] # ";"
      BY <2>1
  <2>3. h \in s .. k /\ h < natom /\ \A j \in s .. k - 1 : j \in s .. h - 1 \/ j \in h .. k - 1
      BY <1>0
  <2>4. \A j \in s .. k - 1 : x_binbuf[j + 1] # ";"
    <3>1. \A j \in s .. h - 1 : x_binbuf[j + 1] # ";"
        BY <2>2
    <3> QED BY <2>2, <2>3, <3>1, Zenon
  <2>5. sym \notin {"f", ","}
      BY <1>2 DEF Headed
  <2> QED BY <1>0, <2>2, <2>3, <2>4, <2>5, SymbolIs
<1> QED BY <1>1, <1>2

-----------------------------------------------------------------------------
(* Lemmas about passes and lines.                                          *)

\* A call in front of the others: a pass answers for the position alone.
LEMMA InnerPush ==
    ASSUME NEW b, NEW x, NEW s \in Seq(Frames), NEW f \in Frames,
           IF f.frame = "donext" THEN Claim(f, b, x) ELSE InnerLine(s, b, x)
    PROVE  InnerLine(<<f>> \o s, b, x)
<1> DEFINE t == <<f>> \o s
<1>1. /\ Len(t) = Len(s) + 1 /\ t[1] = f /\ 1 \in 1 .. Len(t)
      /\ \A k \in 2 .. Len(s) + 1 : t[k] = s[k - 1]
    BY Pushed
<1> HIDE DEF t
<1>2. \A k \in 1 .. Len(t) : k # 1 =>
         k - 1 \in 1 .. Len(s) /\ t[k] = s[k - 1] /\ 1 \in 1 .. k - 1
    BY <1>1
<1>3. \A k \in 1 .. Len(s) : k + 1 \in 1 .. Len(t) /\ t[k + 1] = s[k]
    BY <1>1
<1>4. CASE f.frame = "donext"
  <2>1. \A k \in 1 .. Len(t) :
           t[k].frame = "donext" /\ (\A j \in 1 .. k - 1 : t[j].frame # "donext") => k = 1
      BY <1>1, <1>2, <1>4
  <2> QED BY <1>1, <1>4, <2>1 DEF InnerLine, t
<1>5. CASE f.frame # "donext"
  <2>1. ASSUME \A k \in 1 .. Len(t) : t[k].frame # "donext" PROVE Clean(b, x)
      BY <1>3, <1>5, <2>1 DEF InnerLine
  <2>2. ASSUME NEW k \in 1 .. Len(t), t[k].frame = "donext",
               \A j \in 1 .. k - 1 : t[j].frame # "donext"
        PROVE  Claim(t[k], b, x)
    <3>1. k # 1 /\ k - 1 \in 1 .. Len(s) /\ t[k] = s[k - 1]
        BY <1>1, <1>2, <1>5, <2>2
    <3>2. \A j \in 1 .. (k - 1) - 1 : j + 1 \in 1 .. k - 1 /\ j \in 1 .. Len(s)
        BY <3>1
    <3>3. \A j \in 1 .. (k - 1) - 1 : s[j].frame # "donext"
        BY <1>3, <2>2, <3>2
    <3> QED BY <1>5, <2>2, <3>1, <3>3 DEF InnerLine
  <2> QED BY <2>1, <2>2 DEF InnerLine, t
<1> QED BY <1>4, <1>5

\* The innermost call, and the others without it.
LEMMA InnerPop ==
    ASSUME NEW b, NEW x, NEW s \in Seq(Frames), s # <<>>, InnerLine(s, b, x)
    PROVE  IF s[1].frame = "donext" THEN Claim(s[1], b, x) ELSE InnerLine(Tail(s), b, x)
<1> DEFINE t == Tail(s)
<1>1. /\ Len(s) \in Nat /\ Len(s) >= 1 /\ Len(t) = Len(s) - 1
      /\ \A k \in 1 .. Len(s) - 1 : t[k] = s[k + 1]
    BY Popped
<1> HIDE DEF t
<1>2. CASE s[1].frame = "donext"
  <2>1. 1 \in 1 .. Len(s) /\ \A j \in 1 .. 1 - 1 : s[j].frame # "donext"
      BY <1>1
  <2> QED BY <1>2, <2>1 DEF InnerLine
<1>3. CASE s[1].frame # "donext"
  <2>1. \A k \in 1 .. Len(s) : k = 1 \/ (k - 1 \in 1 .. Len(t) /\ t[k - 1] = s[k])
    <3> SUFFICES ASSUME NEW k \in 1 .. Len(s), k # 1
                 PROVE  k - 1 \in 1 .. Len(t) /\ t[k - 1] = s[k]
        OBVIOUS
    <3>1. k - 1 \in 1 .. Len(s) - 1 /\ (k - 1) + 1 = k
        BY <1>1
    <3> QED BY <1>1, <3>1
  <2>2. \A k \in 1 .. Len(t) : k + 1 \in 1 .. Len(s) /\ t[k] = s[k + 1]
      BY <1>1
  <2>3. ASSUME \A k \in 1 .. Len(t) : t[k].frame # "donext" PROVE Clean(b, x)
      BY <1>3, <2>1, <2>3 DEF InnerLine
  <2>4. ASSUME NEW k \in 1 .. Len(t), t[k].frame = "donext",
               \A j \in 1 .. k - 1 : t[j].frame # "donext"
        PROVE  Claim(t[k], b, x)
    <3>1. ASSUME NEW j \in 1 .. (k + 1) - 1 PROVE s[j].frame # "donext"
      <4>1. CASE j = 1
          BY <1>3, <4>1
      <4>2. CASE j # 1
        <5>1. j \in 1 .. Len(s) /\ j - 1 \in 1 .. k - 1
            BY <1>1, <4>2
        <5>2. t[j - 1] = s[j]
            BY <2>1, <4>2, <5>1, Zenon
        <5>3. t[j - 1].frame # "donext"
            BY <2>4, <5>1, Zenon
        <5> QED BY <5>2, <5>3
      <4> QED BY <4>1, <4>2
    <3> QED BY <2>2, <2>4, <3>1 DEF InnerLine
  <2>5. InnerLine(t, b, x)
      BY <2>3, <2>4 DEF InnerLine
  <2> QED BY <1>3, <2>5 DEF t
<1> QED BY <1>2, <1>3

\* At a clean position, passes that were rewound or stepped on have nothing to answer for.
LEMMA InnerClean ==
    ASSUME NEW b, NEW x, NEW s, Clean(b, x), Stepped(s)
    PROVE  InnerLine(s, b, x)
    BY DEF InnerLine, Stepped, Claim

\* A call in front of the others.
LEMMA NestedPush ==
    ASSUME NEW s \in Seq(Frames), NEW f \in Frames,
           IF f.frame = "donext" THEN Stepped(s) ELSE Nested(s)
    PROVE  Nested(<<f>> \o s)
<1> DEFINE t == <<f>> \o s
<1>1. /\ Len(t) = Len(s) + 1 /\ t[1] = f
      /\ \A k \in 2 .. Len(s) + 1 : t[k] = s[k - 1]
    BY Pushed
<1> HIDE DEF t
<1>2. ASSUME NEW k \in 1 .. Len(t), NEW j \in 1 .. k - 1, t[k].frame = "donext",
             t[j].frame = "donext"
      PROVE  t[k].moved \/ t[k].rewound
  <2>1. k - 1 \in 1 .. Len(s) /\ t[k] = s[k - 1]
      BY <1>1
  <2>2. CASE f.frame = "donext"
      BY <1>2, <2>1, <2>2 DEF Stepped
  <2>3. CASE f.frame # "donext"
    <3>1. j # 1
        BY <1>1, <1>2, <2>3
    <3>2. j - 1 \in 1 .. (k - 1) - 1 /\ t[j] = s[j - 1]
        BY <1>1, <3>1
    <3> QED BY <1>2, <2>1, <2>3, <3>2 DEF Nested
  <2> QED BY <2>2, <2>3
<1> QED BY <1>2 DEF Nested, t

\* The others without the innermost call.
LEMMA NestedPop ==
    ASSUME NEW s \in Seq(Frames), s # <<>>, Nested(s)
    PROVE  IF s[1].frame = "donext" THEN Stepped(Tail(s)) ELSE Nested(Tail(s))
<1> DEFINE t == Tail(s)
<1>1. /\ Len(s) \in Nat /\ Len(t) = Len(s) - 1
      /\ \A k \in 1 .. Len(s) - 1 : t[k] = s[k + 1]
    BY Popped
<1> HIDE DEF t
<1>2. \A k \in 1 .. Len(t) : k + 1 \in 1 .. Len(s) /\ t[k] = s[k + 1] /\ 1 \in 1 .. (k + 1) - 1
    BY <1>1
<1>3. CASE s[1].frame = "donext"
    BY <1>2, <1>3 DEF Nested, Stepped, t
<1>4. CASE s[1].frame # "donext"
  <2>1. ASSUME NEW k \in 1 .. Len(t), NEW j \in 1 .. k - 1, t[k].frame = "donext",
               t[j].frame = "donext"
        PROVE  t[k].moved \/ t[k].rewound
    <3>1. j \in 1 .. Len(t) /\ j + 1 \in 1 .. (k + 1) - 1
        OBVIOUS
    <3> QED BY <1>2, <2>1, <3>1 DEF Nested
  <2> QED BY <1>4, <2>1 DEF Nested, t
<1> QED BY <1>3, <1>4

\* A pass that has a target if it needs one, in front of such passes.
LEMMA AimedPush ==
    ASSUME NEW s \in Seq(Frames), NEW f \in Frames, Aimed(s), AimedFrame(f)
    PROVE  Aimed(<<f>> \o s)
<1> DEFINE t == <<f>> \o s
<1>1. /\ Len(t) = Len(s) + 1 /\ t[1] = f
      /\ \A k \in 2 .. Len(s) + 1 : t[k] = s[k - 1]
    BY Pushed
<1> HIDE DEF t
<1>2. ASSUME NEW k \in 1 .. Len(t) PROVE AimedFrame(t[k])
  <2>1. CASE k = 1
      BY <1>1, <2>1
  <2>2. CASE k # 1
    <3>1. k - 1 \in 1 .. Len(s) /\ t[k] = s[k - 1]
        BY <1>1, <2>2
    <3> QED BY <3>1 DEF Aimed
  <2> QED BY <2>1, <2>2
<1> QED BY <1>2 DEF t, Aimed

\* Such passes without the innermost call.
LEMMA AimedPop ==
    ASSUME NEW s \in Seq(Frames), s # <<>>, Aimed(s)
    PROVE  Aimed(Tail(s)) /\ AimedFrame(s[1])
<1> DEFINE t == Tail(s)
<1>1. Len(t) = Len(s) - 1 /\ \A k \in 1 .. Len(s) - 1 : t[k] = s[k + 1] /\ k + 1 \in 1 .. Len(s)
    BY Popped
<1>2. 1 \in 1 .. Len(s)
    BY Popped
<1> HIDE DEF t
<1>3. Aimed(t) /\ AimedFrame(s[1])
    BY <1>1, <1>2 DEF Aimed
<1> QED BY <1>3 DEF t

\* Passes that the list is rewound or stepped on under.
LEMMA MarkedPasses ==
    ASSUME NEW s \in Seq(Frames), Calm(s), Aimed(s)
    PROVE  /\ Stepped(Rewound(s)) /\ Stepped(Moved(s))
           /\ Aimed(Rewound(s)) /\ Aimed(Moved(s))
<1>1. Len(Rewound(s)) = Len(s) /\ Len(Moved(s)) = Len(s)
    BY RewoundFacts, MovedFacts
<1>2. Stepped(Rewound(s)) /\ Stepped(Moved(s))
    BY <1>1, RewoundFields, MovedFields, RewoundRewound DEF Stepped
<1>3. ASSUME NEW k \in 1 .. Len(s) PROVE AimedFrame(Rewound(s)[k])
    BY RewoundFields DEF Aimed, AimedFrame
<1>4. ASSUME NEW k \in 1 .. Len(s) PROVE AimedFrame(Moved(s)[k])
  <2>1. s[k] \in Frames
      OBVIOUS
  <2>2. CASE s[k].frame = "donext"
    <3>1. s[k].at \in {"sent", "banged"}
        BY <2>1, <2>2, Kinds DEF Calm, DoNexts
    <3> QED BY <2>2, <3>1, MovedFields DEF Aimed, AimedFrame
  <2>3. CASE s[k].frame # "donext"
      BY <2>3, MovedFields DEF AimedFrame
  <2> QED BY <2>2, <2>3
<1> QED BY <1>1, <1>2, <1>3, <1>4 DEF Aimed

\* From where a pass stands to what it finds there.
LEMMA Onwards ==
    ASSUME Types, ~AtEnd
    PROVE  /\ Passed => Clean(x_binbuf, Onset)
           /\ ~Passed /\ Clean(x_binbuf, x_onset) => Clean(x_binbuf, Onset)
           /\ \A sym : ~Passed /\ Headed(x_binbuf, x_onset, sym) => Headed(x_binbuf, Onset, sym)
<1> DEFINE o == Onset
           x == x_onset
           b == x_binbuf
<1>1. x \in Nat /\ o \in Nat /\ x <= o /\ \A j \in x .. o - 1 : b[j + 1] \in {";", ","}
  <2>1. x \in Nat /\ o \in Nat /\ x <= o
      BY OnsetFacts
  <2>2. \A j \in x .. o - 1 : IsSep(j)
      BY OnsetFacts
  <2> HIDE DEF o, x
  <2> QED BY <2>1, <2>2 DEF IsSep, Atom
<1>2. Passed <=> \E j \in x .. o - 1 : b[j + 1] = ";"
    BY DEF Passed, Atom
<1> HIDE DEF o, x, b
<1>3. Passed => Clean(b, o)
    BY <1>1, <1>2, PassedClean
<1>4. ~Passed => \A j \in x .. o - 1 : b[j + 1] \in {"f", ","}
    BY <1>1, <1>2
<1>5. ~Passed => \A j \in x .. o - 1 : b[j + 1] # ";"
    BY <1>1, <1>2
<1>6. ~Passed /\ Clean(b, x) => Clean(b, o)
    BY <1>1, <1>4, CleanStep
<1>7. \A sym : ~Passed /\ Headed(b, x, sym) => Headed(b, o, sym)
    BY <1>1, <1>5, HeadedStep
<1> QED BY <1>3, <1>6, <1>7 DEF o, x, b

\* From what a pass finds to where it leaves the list.
LEMMA Beyond ==
    ASSUME Types, ~AtEnd
    PROVE  /\ SkipAtoms(Onset) \in Onset + 1 .. natom
           /\ \A sym : Headed(x_binbuf, Onset, sym) => Headed(x_binbuf, SkipAtoms(Onset), sym)
           /\ Clean(x_binbuf, Onset) /\ Atom(Onset) # "f"
                 => Headed(x_binbuf, SkipAtoms(Onset), Atom(Onset))
           /\ SkipFloats(Onset) \in Onset .. natom
           /\ Clean(x_binbuf, Onset) => Clean(x_binbuf, SkipFloats(Onset))
<1> DEFINE o == Onset
           b == x_binbuf
           A == {j \in o + 1 .. natom - 1 : IsSep(j) \/ Atom(j) = "$"}
           F == {j \in o .. natom - 1 : Atom(j) # "f"}
           a == FirstOf(A)
           f == FirstOf(F)
<1>1. /\ o \in Nat /\ natom \in Nat /\ o < natom /\ ~IsSep(o) /\ b \in Seq(Alphabet)
    BY OnsetFacts DEF Types
<1>2. SkipAtoms(Onset) = a /\ SkipFloats(Onset) = f
    BY DEF SkipAtoms, SkipFloats
<1> HIDE DEF o
<1>3. A \subseteq Nat /\ F \subseteq Nat
  <2>1. \A j \in o .. natom - 1 : j \in Nat
      BY <1>1
  <2>2. \A j \in o + 1 .. natom - 1 : j \in Nat
      BY <1>1
  <2> QED BY <2>1, <2>2, Zenon
<1>4. a \in A \cup {natom} /\ \A i \in A \cup {natom} : a <= i
  <2> HIDE DEF A
  <2> QED BY <1>1, <1>3, FirstOfFacts DEF b
<1>5. f \in F \cup {natom} /\ \A i \in F \cup {natom} : f <= i
  <2> HIDE DEF F
  <2> QED BY <1>1, <1>3, FirstOfFacts DEF b
<1> HIDE DEF a, f
<1>6. a \in o + 1 .. natom
  <2>1. a = natom \/ a \in o + 1 .. natom - 1
      BY <1>4, Zenon
  <2> QED BY <1>1, <2>1
<1>7. f \in o .. natom
  <2>1. f = natom \/ f \in o .. natom - 1
      BY <1>5, Zenon
  <2> QED BY <1>1, <2>1
<1>8. \A j \in o .. a - 1 : ~IsSep(j)
  <2>1. \A j \in o .. a - 1 : j = o \/ (j \in o + 1 .. natom - 1 /\ ~ (a <= j))
      BY <1>1, <1>6
  <2> QED BY <1>1, <1>4, <2>1, Zenon
<1>9. \A j \in o .. f - 1 : Atom(j) = "f"
  <2>1. \A j \in o .. f - 1 : j \in o .. natom - 1 /\ ~ (f <= j)
      BY <1>1, <1>7
  <2> QED BY <1>5, <2>1, Zenon
<1>10. \A j \in o .. a - 1 : b[j + 1] # ";"
    BY <1>8 DEF IsSep, Atom
<1>11. \A j \in o .. f - 1 : b[j + 1] \in {"f", ","}
    BY <1>9 DEF Atom
<1> HIDE DEF A, F, b
<1>12. a \in Nat /\ f \in Nat /\ o < a /\ o <= a /\ o <= f
    BY <1>1, <1>6, <1>7
<1>13. \A sym : Headed(b, o, sym) => Headed(b, a, sym)
    BY <1>1, <1>10, <1>12, HeadedStep
<1>14. Atom(o) # "f" => b[o + 1] \notin {"f", ",", ";"}
    BY <1>1 DEF IsSep, Atom, b
<1>15. Clean(b, o) /\ Atom(o) # "f" => Headed(b, a, b[o + 1])
    BY <1>1, <1>10, <1>12, <1>14, CleanHead
<1>16. Clean(b, o) => Clean(b, f)
    BY <1>1, <1>11, <1>12, CleanStep
<1>17. b[o + 1] = Atom(o)
    BY DEF Atom, b
<1> QED BY <1>2, <1>6, <1>7, <1>13, <1>15, <1>16, <1>17 DEF o, b

\* What the invariant says of the innermost call and of the others.
LEMMA LinesBelow ==
    ASSUME IInv, LInv, stack # <<>>
    PROVE  /\ Aimed(Tail(stack)) /\ AimedFrame(Top)
           /\ IF Top.frame = "donext" THEN Stepped(Tail(stack)) ELSE Nested(Tail(stack))
           /\ ~orphan /\ x_onset # End =>
                 IF Top.frame = "donext" THEN Claim(Top, x_binbuf, x_onset)
                 ELSE InnerLine(Tail(stack), x_binbuf, x_onset)
<1>1. stack \in Seq(Frames)
    BY DEF IInv, Types
<1>2. Aimed(Tail(stack)) /\ AimedFrame(Top)
    BY <1>1, AimedPop DEF LInv, Top
<1>3. IF Top.frame = "donext" THEN Stepped(Tail(stack)) ELSE Nested(Tail(stack))
    BY <1>1, NestedPop DEF LInv, Top
<1>4. ~orphan /\ x_onset # End =>
         IF Top.frame = "donext" THEN Claim(Top, x_binbuf, x_onset)
         ELSE InnerLine(Tail(stack), x_binbuf, x_onset)
    BY <1>1, InnerPop DEF LInv, Lines, Top
<1> QED BY <1>2, <1>3, <1>4

\* The innermost pass is replaced by another one.
LEMMA PassReplaced ==
    ASSUME IInv, LInv, stack # <<>>, Top.frame = "donext", NEW f \in DoNexts, f \in Frames,
           f.frame = "donext", NEW b, NEW x, NEW o,
           AimedFrame(f), o => Claim(f, b, x)
    PROVE  LET s == <<f>> \o Tail(stack)
           IN  s \in Seq(Frames) /\ Nested(s) /\ Aimed(s) /\ (o => InnerLine(s, b, x))
<1>1. Tail(stack) \in Seq(Frames) /\ Aimed(Tail(stack)) /\ Stepped(Tail(stack))
    BY Below, LinesBelow
<1>2. <<f>> \o Tail(stack) \in Seq(Frames)
    BY <1>1, Pushed
<1>3. Nested(<<f>> \o Tail(stack)) /\ Aimed(<<f>> \o Tail(stack))
    BY <1>1, NestedPush, AimedPush
<1>4. o => InnerLine(<<f>> \o Tail(stack), b, x)
    BY <1>1, InnerPush
<1> QED BY <1>2, <1>3, <1>4

\* A handler, or a bindlist, in front of calls.
LEMMA OtherPushed ==
    ASSUME NEW s \in Seq(Frames), NEW f \in Frames, f.frame # "donext", NEW b, NEW x, NEW o,
           Nested(s), Aimed(s), o => InnerLine(s, b, x)
    PROVE  LET t == <<f>> \o s
           IN  t \in Seq(Frames) /\ Nested(t) /\ Aimed(t) /\ (o => InnerLine(t, b, x))
<1>1. <<f>> \o s \in Seq(Frames)
    BY Pushed
<1>2. AimedFrame(f)
    BY DEF AimedFrame
<1>3. Nested(<<f>> \o s) /\ Aimed(<<f>> \o s)
    BY <1>2, NestedPush, AimedPush
<1>4. o => InnerLine(<<f>> \o s, b, x)
    BY InnerPush
<1> QED BY <1>1, <1>3, <1>4

\* The beginning of a list is the beginning of a line.
LEMMA CleanZero ==
    ASSUME NEW b
    PROVE  Clean(b, 0)
<1>1. 0 \in 0 .. 0 /\ \A j \in 0 .. 0 - 1 : b[j + 1] \in {"f", ","}
    OBVIOUS
<1> QED BY <1>1 DEF Clean

\* The list is rewound.
LEMMA LinesRewind ==
    ASSUME IInv, LInv, MayCall, x_binbuf' \in Seq(Alphabet), x_onset' \in {0, End},
           stack' = Rewound(stack), ~astray'
    PROVE  LInv'
<1>1. Calm(stack) /\ stack \in Seq(Frames) /\ Aimed(stack)
    BY CallerCalm DEF IInv, Types, LInv
<1>2. Stepped(stack') /\ Aimed(stack')
    BY <1>1, MarkedPasses
<1>3. Nested(stack')
    BY <1>2 DEF Nested, Stepped
<1>4. x_onset' # End => Clean(x_binbuf', x_onset')
    BY CleanZero DEF End
<1>5. Lines'
    BY <1>2, <1>4, InnerClean DEF Lines, End
<1>6. (x_onset = End \/ x_onset \in 0 .. natom)'
    BY DEF natom, End
<1> QED BY <1>2, <1>3, <1>5, <1>6 DEF LInv

\* A pass begins.
LEMMA LinesPass ==
    ASSUME IInv, LInv, NEW drop \in BOOLEAN, NEW automatic \in BOOLEAN, NEW s \in Seq(Frames),
           UNCHANGED <<x_binbuf, astray>>, x_onset' \in {0, x_onset},
           stack' = <<DoNext(drop, automatic)>> \o s, Stepped(s), Aimed(s),
           ~orphan' /\ x_onset' # End => Clean(x_binbuf, x_onset')
    PROVE  LInv'
<1> DEFINE f == DoNext(drop, automatic)
<1>1. /\ f \in Frames /\ f.frame = "donext" /\ ~f.rewound /\ f.target = NoThing
      /\ f.at = "loop" /\ ~f.moved
    BY NewFrames
<1> HIDE DEF f
<1>2. AimedFrame(f) /\ stack' = <<f>> \o s
    BY <1>1 DEF AimedFrame, f
<1>3. Nested(stack') /\ Aimed(stack')
    BY <1>1, <1>2, NestedPush, AimedPush
<1>4. ~orphan' /\ x_onset' # End => Claim(f, x_binbuf, x_onset')
    BY <1>1 DEF Claim
<1>5. Lines'
    BY <1>1, <1>2, <1>4, InnerPush DEF Lines, End
<1>6. (x_onset = End \/ x_onset \in 0 .. natom)'
    BY DEF natom, End, LInv, IInv, Types
<1> QED BY <1>3, <1>5, <1>6 DEF LInv

\* A pass ends at a clean position.
LEMMA LinesPop ==
    ASSUME IInv, LInv, stack # <<>>, Top.frame = "donext",
           UNCHANGED <<x_binbuf, astray>>, x_onset' = End \/ x_onset' \in 0 .. natom,
           stack' = Tail(stack),
           ~orphan' /\ x_onset' # End => Clean(x_binbuf, x_onset')
    PROVE  LInv'
<1>1. Stepped(stack') /\ Aimed(stack')
    BY LinesBelow
<1>2. Nested(stack')
    BY <1>1 DEF Nested, Stepped
<1>3. Lines'
    BY <1>1, InnerClean DEF Lines, End
<1> QED BY <1>1, <1>2, <1>3 DEF LInv, natom

\* What the innermost pass finds between two messages: at the head of a line it is about to
\* choose a target, and in the rest of a line its target is the one of the line.
LEMMA LoopLine ==
    ASSUME IInv, LInv, Looping, ~AtEnd
    PROVE  /\ Target = NoThing => ~(Top.moved /\ ~Passed)
           /\ ~(orphan /\ ~Passed) /\ Target = NoThing => Clean(x_binbuf, Onset)
           /\ ~(orphan /\ ~Passed) /\ Target # NoThing /\ ~(Top.moved /\ ~Passed)
                 => Headed(x_binbuf, Onset, Top.sym)
<1>1. Types /\ stack # <<>> /\ Top.frame = "donext" /\ Top.at = "loop"
    BY DEF Looping, Is, IInv
<1>2. Top.rewound = FALSE
    BY <1>1, LoopNotRewound
<1>3. x_onset # End
    BY <1>1, OnsetFacts DEF End
<1>4. AimedFrame(Top) /\ (~orphan => Claim(Top, x_binbuf, x_onset))
    BY <1>1, <1>3, LinesBelow
<1>5. Top.moved => Top.target # NoThing
    BY <1>1, <1>4 DEF AimedFrame
<1>6. ~orphan /\ ~Top.moved => IF Top.target = NoThing THEN Clean(x_binbuf, x_onset)
                               ELSE Headed(x_binbuf, x_onset, Top.sym)
    BY <1>1, <1>2, <1>4 DEF Claim
<1>7. /\ Passed => Clean(x_binbuf, Onset)
      /\ ~Passed /\ Clean(x_binbuf, x_onset) => Clean(x_binbuf, Onset)
      /\ ~Passed /\ Headed(x_binbuf, x_onset, Top.sym) => Headed(x_binbuf, Onset, Top.sym)
    BY <1>1, Onwards
<1>8. Target = IF Passed THEN NoThing ELSE Top.target
    BY DEF Target
<1> QED BY <1>5, <1>6, <1>7, <1>8, Zenon

\* A pass chooses its target.
LEMMA TargetLines ==
    ASSUME IInv, LInv, DoTarget
    PROVE  LInv'
<1> DEFINE a == Atom(Onset)
           f == [Top EXCEPT !.target = Thing(a), !.sym = a, !.moved = @ /\ ~Passed]
<1>1. /\ stack # <<>> /\ Top \in DoNexts /\ Top.frame = "donext" /\ Top.at = "loop" /\ ~AtEnd
      /\ Looping /\ Target = NoThing /\ Types
    BY Below, Kinds DEF DoTarget, Looping, Is, AtMess, IInv
<1>2. Top.rewound = FALSE
    BY <1>1, LoopNotRewound
<1>3. a \in Alphabet /\ Thing(a) \in Things /\ (Thing(a) # NoThing => a \in Symbols) /\ a # "f"
    BY <1>1, OnsetFacts, ThingFacts DEF DoTarget, AtMess, AtTime
<1>4. (Top.moved /\ ~Passed) = FALSE /\ (~(orphan /\ ~Passed) => Clean(x_binbuf, Onset))
    BY <1>1, LoopLine
<1>5. /\ stack' = <<f>> \o Tail(stack) /\ UNCHANGED <<x_binbuf, astray>>
      /\ orphan' = (Thing(a) = NoThing \/ (orphan /\ ~Passed)) /\ x_onset' = SkipAtoms(Onset)
    BY DEF DoTarget, content
<1>6. /\ x_onset' \in 0 .. natom /\ Onset \in 0 .. natom
      /\ Clean(x_binbuf, Onset) => Headed(x_binbuf, x_onset', a)
  <2>1. Onset \in 0 .. natom - 1 /\ natom \in Nat
      BY <1>1, OnsetFacts
  <2>2. SkipAtoms(Onset) \in Onset + 1 .. natom
      BY <1>1, Beyond
  <2>3. Clean(x_binbuf, Onset) => Headed(x_binbuf, SkipAtoms(Onset), a)
      BY <1>1, <1>3, Beyond
  <2> HIDE DEF Onset, natom, a, SkipAtoms
  <2> QED BY <1>5, <2>1, <2>2, <2>3
<1> HIDE DEF a
<1>7. /\ f \in DoNexts /\ f \in Frames /\ f.frame = "donext" /\ f.rewound = FALSE
      /\ f.target = Thing(a) /\ f.sym = a /\ f.at = "loop" /\ f.moved = FALSE
  <2> HIDE DEF Thing, Passed
  <2> QED BY <1>1, <1>2, <1>3, <1>4 DEF DoNexts, Frames
<1> HIDE DEF f
<1>8. AimedFrame(f) /\ (~orphan' => Claim(f, x_binbuf, x_onset'))
    BY <1>4, <1>5, <1>6, <1>7 DEF AimedFrame, Claim
<1>9. /\ Nested(stack') /\ Aimed(stack')
      /\ ~orphan' => InnerLine(stack', x_binbuf, x_onset')
    BY <1>1, <1>5, <1>7, <1>8, PassReplaced
<1>10. (x_onset \in 0 .. natom)'
    BY <1>5, <1>6 DEF natom
<1> QED BY <1>5, <1>9, <1>10 DEF LInv, Lines

\* A pass sends a message, to the symbol that its line begins with.
LEMMA MessLines ==
    ASSUME IInv, LInv, DoMess
    PROVE  LInv'
<1> DEFINE found == Target = NoThing
           to  == IF found THEN Thing(Atom(Onset)) ELSE Target
           sym == IF found THEN Atom(Onset) ELSE Top.sym
           me  == [Top EXCEPT !.target = to, !.sym = sym, !.at = "sent", !.was = x_reentered,
                              !.moved = @ /\ ~Passed]
           there == StillThere(to, sym)
           first == IF found THEN Onset + 1 ELSE Onset
           silent == Top.drop \/ Atom(first) = "$"
           argv == IF Atom(first) = "f" \/ SkipAtoms(Onset) > first + 1 THEN moves ELSE NoArgs
           b == ToElem(sym, s_thing[sym].elems[1].id, argv)
<1>1. /\ Types /\ stack \in Seq(Frames) /\ stack # <<>> /\ Top \in DoNexts /\ Looping
      /\ Top.frame = "donext" /\ Top.at = "loop" /\ ~AtEnd /\ crashed = FALSE
    BY Below, Kinds DEF DoMess, Looping, Is, AtMess, IInv, Types
<1>1a. argv \in Int
    BY <1>1 DEF NoArgs, Types
<1>2. Top.rewound = FALSE
    BY <1>1, LoopNotRewound
<1>3. /\ x_onset' = SkipAtoms(Onset) /\ UNCHANGED x_binbuf
      /\ orphan' = (orphan /\ ~Passed)
      /\ astray' = (astray \/ (~me.moved /\ ~orphan' /\ sym # LineSymbol(Onset)))
      /\ stack' = IF silent \/ ~there THEN <<me>> \o Tail(stack)
                  ELSE IF to.k = "bindlist" THEN <<Handler(argv), b, me>> \o Tail(stack)
                  ELSE <<Handler(argv), me>> \o Tail(stack)
    BY DEF DoMess, content
<1>4. Atom(Onset) \in Alphabet /\ (found => Atom(Onset) # "f") /\ ~IsSep(Onset)
    BY <1>1, OnsetFacts DEF DoMess, AtMess, AtTime
<1>5. Target \in Things /\ (Target # NoThing => Target = Top.target)
  <2>1. NoThing \in Things
      BY DEF NoThing, Things
  <2>2. Top.target \in Things
      BY <1>1 DEF DoNexts
  <2> QED BY <2>1, <2>2 DEF Target
<1>6. to \in Things /\ sym \in Symbols /\ to # NoThing
  <2>1. CASE found
    <3>1. to = Thing(Atom(Onset)) /\ sym = Atom(Onset) /\ Thing(Atom(Onset)) # NoThing
        BY <2>1 DEF DoMess
    <3> QED BY <1>4, <3>1, ThingFacts
  <2>2. CASE ~found
    <3>1. to = Top.target /\ sym = Top.sym /\ to # NoThing
        BY <1>5, <2>2
    <3> QED BY <1>1, <3>1 DEF DoNexts
  <2> QED BY <2>1, <2>2
<1>7. ~orphan' /\ ~(Top.moved /\ ~Passed) =>
         Headed(x_binbuf, x_onset', sym) /\ sym = LineSymbol(Onset)
  <2> SUFFICES ASSUME ~(orphan /\ ~Passed), ~(Top.moved /\ ~Passed)
               PROVE  Headed(x_binbuf, SkipAtoms(Onset), sym) /\ sym = LineSymbol(Onset)
      BY <1>3
  <2>1. Onset \in 0 .. natom - 1 /\ x_binbuf \in Seq(Alphabet)
      BY <1>1, OnsetFacts DEF Types
  <2>2. CASE found
    <3>1. sym = Atom(Onset) /\ Clean(x_binbuf, Onset)
        BY <1>1, <2>2, LoopLine
    <3>2. Headed(x_binbuf, SkipAtoms(Onset), Atom(Onset))
        BY <1>1, <1>4, <2>2, <3>1, Beyond
    <3>3. x_binbuf[Onset + 1] \notin {"f", ",", ";"} /\ Atom(Onset) = x_binbuf[Onset + 1]
        BY <1>4, <2>2 DEF IsSep, Atom
    <3>4. LineSymbol(Onset) = x_binbuf[Onset + 1]
        BY <2>1, <3>1, <3>3, LineSymbols
    <3> QED BY <3>1, <3>2, <3>3, <3>4
  <2>3. CASE ~found
    <3>1. sym = Top.sym /\ Headed(x_binbuf, Onset, Top.sym)
        BY <1>1, <2>3, LoopLine
    <3>2. Headed(x_binbuf, SkipAtoms(Onset), Top.sym)
        BY <1>1, <3>1, Beyond
    <3>3. LineSymbol(Onset) = Top.sym
        BY <2>1, <3>1, LineSymbols
    <3> QED BY <3>1, <3>2, <3>3
  <2> QED BY <2>2, <2>3
<1> HIDE DEF found, to, sym, first, silent, argv
<1>8. /\ me \in DoNexts /\ me \in Frames /\ me.frame = "donext" /\ me.target = to /\ me.sym = sym
      /\ me.at = "sent" /\ me.rewound = FALSE /\ me.moved = (Top.moved /\ ~Passed)
  <2>1. (Top.moved /\ ~Passed) \in BOOLEAN /\ x_reentered \in BOOLEAN
      BY <1>1 DEF DoNexts, Types
  <2>2. sym \in Alphabet \cup {""}
      BY <1>6 DEF Alphabet
  <2> HIDE DEF Passed
  <2> QED BY <1>1, <1>2, <1>6, <2>1, <2>2 DEF DoNexts, Frames
<1> HIDE DEF me
<1>9. ~astray' /\ (~orphan' => Claim(me, x_binbuf, x_onset')) /\ AimedFrame(me)
    BY <1>3, <1>6, <1>7, <1>8 DEF LInv, Claim, AimedFrame
<1> DEFINE s == <<me>> \o Tail(stack)
<1>10. /\ s \in Seq(Frames) /\ Nested(s) /\ Aimed(s)
       /\ ~orphan' => InnerLine(s, x_binbuf, x_onset')
    BY <1>1, <1>8, <1>9, PassReplaced
<1>11. Handler(argv) \in Frames /\ Handler(argv).frame # "donext" /\ Tail(stack) \in Seq(Frames)
    BY <1>1, <1>1a, NewFrames, Below
<1>12. (x_onset \in 0 .. natom)'
  <2>1. Onset \in 0 .. natom - 1 /\ natom \in Nat
      BY <1>1, OnsetFacts
  <2>2. SkipAtoms(Onset) \in Onset + 1 .. natom
      BY <1>1, Beyond
  <2>3. natom' = natom
      BY <1>3 DEF natom
  <2> HIDE DEF Onset, natom, SkipAtoms
  <2> QED BY <1>3, <2>1, <2>2, <2>3
<1> SUFFICES Nested(stack') /\ Aimed(stack') /\ (~orphan' => InnerLine(stack', x_binbuf, x_onset'))
    BY <1>3, <1>9, <1>12 DEF LInv, Lines
<1>13. CASE silent \/ ~there
    BY <1>3, <1>10, <1>13
<1>14. CASE ~silent /\ there /\ to.k # "bindlist"
  <2>1. stack' = <<Handler(argv), me>> \o Tail(stack)
      BY <1>3, <1>14
  <2>2. stack' = <<Handler(argv)>> \o s
    <3>1. TwoOnto(Handler(argv), me, Tail(stack)) = Onto(Handler(argv), Onto(me, Tail(stack)))
        BY <1>1, <1>1a, <1>8, HandedOver
    <3> QED BY <2>1, <3>1, Zenon DEF Onto, TwoOnto
  <2> HIDE DEF s
  <2> QED BY <1>10, <1>11, <2>2, OtherPushed
<1>15. CASE ~silent /\ there /\ to.k = "bindlist"
  <2>1. stack' = <<Handler(argv), b, me>> \o Tail(stack)
      BY <1>3, <1>15
  <2>2. b \in Frames /\ b.frame # "donext"
    <3>1. s_thing[sym].id = to.id /\ to.id # 0
        BY <1>6, <1>15 DEF StillThere, Things
    <3>2. s_thing[sym] \in Things /\ Exact(s_thing[sym], bound[sym]) /\ bound[sym] \in Seq(Objects)
        BY <1>6 DEF IInv, Types, Bindings
    <3>3. s_thing[sym].k = "bindlist" /\ s_thing[sym].elems \in Seq(Elems)
        BY <3>1, <3>2 DEF Things
    <3>4. Len(bound[sym]) # 0 /\ Len(s_thing[sym].elems) = Len(bound[sym])
        BY <3>2, <3>3 DEF Exact, Receivers
    <3>5. s_thing[sym].elems[1] \in Elems
        BY <3>2, <3>3, <3>4
    <3>6. s_thing[sym].elems[1].id \in Int
        BY <3>5 DEF Elems
    <3> QED BY <1>1a, <1>6, <3>6 DEF Frames, ToElem
  <2> HIDE DEF b
  <2> DEFINE u == <<b>> \o s
  <2>3. stack' = <<Handler(argv)>> \o u
    <3>1. me \in Frames
        BY <1>8
    <3>2. <<Handler(argv), b, me>> \o Tail(stack)
             = <<Handler(argv)>> \o (<<b>> \o (<<me>> \o Tail(stack)))
      <4> DEFINE h == Handler(argv)
                 t == Tail(stack)
      <4>1. h \in Frames /\ b \in Frames /\ me \in Frames /\ t \in Seq(Frames)
          BY <1>11, <2>2, <3>1
      <4> HIDE DEF h, t
      <4>2. ThreeOnto(h, b, me, t) = Onto(h, Onto(b, Onto(me, t)))
          BY <4>1, PushedThrice
      <4> QED BY <4>2, Zenon DEF h, t, Onto, ThreeOnto
    <3> QED BY <2>1, <3>2
  <2> HIDE DEF s
  <2>4. /\ u \in Seq(Frames) /\ Nested(u) /\ Aimed(u)
        /\ ~orphan' => InnerLine(u, x_binbuf, x_onset')
      BY <1>10, <2>2, OtherPushed
  <2> HIDE DEF u
  <2> QED BY <1>11, <2>3, <2>4, OtherPushed
<1> QED BY <1>13, <1>14, <1>15, Zenon

\* The list grows at its end.
LEMMA AddLines ==
    ASSUME IInv, LInv, NEW l \in Lists, NEW semi \in BOOLEAN, qlist_add(l, semi)
    PROVE  LInv'
<1> DEFINE b == x_binbuf
           c == b \o l
           d == IF semi THEN <<";">> ELSE <<>>
<1>1. UNCHANGED <<x_onset, orphan, stack, astray>> /\ x_binbuf' = c \o d
    BY DEF qlist_add, place, faults
<1>2. b \in Seq(Alphabet) /\ l \in Seq(Alphabet) /\ ";" \in Alphabet
    BY Contents DEF IInv, Types, Alphabet
<1>3. d \in Seq(Alphabet)
  <2>1. \A S, a : a \in S => <<a>> \in Seq(S) /\ <<>> \in Seq(S)
      OBVIOUS
  <2>2. <<";">> \in Seq(Alphabet) /\ <<>> \in Seq(Alphabet)
      BY <1>2, <2>1, Zenon
  <2> QED BY <2>2, Zenon
<1> HIDE DEF b, d
<1>4. c \in Seq(Alphabet) /\ Len(b) \in Nat /\ Len(c) \in Nat /\ Len(c) >= Len(b)
  <2>1. \A S : \A x, y \in Seq(S) : /\ x \o y \in Seq(S) /\ Len(x) \in Nat
                                     /\ Len(x \o y) \in Nat /\ Len(x \o y) >= Len(x)
      OBVIOUS
  <2> QED BY <1>2, <2>1, Zenon
<1> HIDE DEF c
<1>5. Len(c \o d) \in Nat /\ Len(c \o d) >= Len(c)
    BY <1>3, <1>4
<1>6. x_onset = End \/ x_onset \in 0 .. Len(b)
    BY DEF LInv, natom, b
<1>7. (x_onset = End \/ x_onset \in 0 .. natom)'
    BY <1>1, <1>4, <1>5, <1>6 DEF natom, End
<1>8. ASSUME x_onset # End, InnerLine(stack, b, x_onset)
      PROVE  InnerLine(stack, c \o d, x_onset)
  <2>1. x_onset \in 0 .. Len(b) /\ x_onset \in 0 .. Len(c)
      BY <1>4, <1>6, <1>8
  <2>2. /\ Clean(b, x_onset) => Clean(c, x_onset)
        /\ \A sym : Headed(b, x_onset, sym) => Headed(c, x_onset, sym)
      BY <1>2, <2>1, Appended DEF c
  <2>3. /\ Clean(c, x_onset) => Clean(c \o d, x_onset)
        /\ \A sym : Headed(c, x_onset, sym) => Headed(c \o d, x_onset, sym)
      BY <1>3, <1>4, <2>1, Appended
  <2>4. \A f : Claim(f, b, x_onset) => Claim(f, c \o d, x_onset)
      BY <2>2, <2>3 DEF Claim
  <2> QED BY <1>8, <2>2, <2>3, <2>4 DEF InnerLine
<1>9. ~orphan /\ x_onset # End => InnerLine(stack, c \o d, x_onset)
    BY <1>8 DEF LInv, Lines, b
<1>10. Lines'
    BY <1>1, <1>9 DEF Lines, End
<1> QED BY <1>1, <1>7, <1>10 DEF LInv

\* A call that is not a pass ends, or another one that is not a pass takes its place.
LEMMA OtherLines ==
    ASSUME IInv, LInv, stack # <<>>, Top.frame # "donext",
           UNCHANGED <<x_binbuf, x_onset, orphan, astray>>,
           \/ stack' = Tail(stack)
           \/ \E f \in Frames, a \in Int :
                 f.frame # "donext" /\ stack' = <<Handler(a)>> \o (<<f>> \o Tail(stack))
    PROVE  LInv'
<1> DEFINE t == Tail(stack)
           o == ~orphan /\ x_onset # End
<1>1. t \in Seq(Frames) /\ Nested(t) /\ Aimed(t) /\ (o => InnerLine(t, x_binbuf, x_onset))
    BY Below, LinesBelow
<1> HIDE DEF t
<1>2. Nested(stack') /\ Aimed(stack') /\ (o => InnerLine(stack', x_binbuf, x_onset))
  <2>1. CASE stack' = t
      BY <1>1, <2>1
  <2>2. ASSUME NEW f \in Frames, NEW a \in Int, f.frame # "donext",
               stack' = <<Handler(a)>> \o (<<f>> \o t)
        PROVE  Nested(stack') /\ Aimed(stack') /\ (o => InnerLine(stack', x_binbuf, x_onset))
    <3> DEFINE u == <<f>> \o t
    <3>1. u \in Seq(Frames) /\ Nested(u) /\ Aimed(u) /\ (o => InnerLine(u, x_binbuf, x_onset))
      <4> HIDE DEF o
      <4> QED BY <1>1, <2>2, OtherPushed
    <3> HIDE DEF u, o
    <3>2. Handler(a) \in Frames /\ Handler(a).frame # "donext"
        BY NewFrames
    <3> QED BY <2>2, <3>1, <3>2, OtherPushed DEF u
  <2> QED BY <2>1, <2>2 DEF t
<1> QED BY <1>2 DEF LInv, Lines, natom, End

\* The steps of a bindlist.
LEMMA BindlistLines ==
    ASSUME IInv, LInv, BindlistNext
    PROVE  LInv'
<1> DEFINE elems == s_thing[Top.sym].elems
           here  == {k \in DOMAIN elems : elems[k].id = Top.elem}
           g     == ToElem(Top.sym, elems[1 + CHOOSE k \in here : TRUE].id, Top.argv)
           bad   == here = {} \/ (Len(elems) \notin here /\ Stale(Top))
<1>1. /\ stack # <<>> /\ Top.frame = "bindlist"
      /\ UNCHANGED <<x_binbuf, x_onset, orphan, astray>>
    BY DEF BindlistNext, Is, state, content, place
<1>2. Top \in [frame : {"bindlist"}, sym : Symbols, elem : Int, argv : Int]
    BY <1>1, Below, Kinds
<1>3. IF bad THEN UNCHANGED stack
      ELSE stack' = IF Len(elems) \in here THEN Tail(stack)
                    ELSE <<Handler(Top.argv), g>> \o Tail(stack)
    BY DEF BindlistNext
<1>4. CASE bad
    BY <1>1, <1>3, <1>4 DEF LInv, Lines, natom, End
<1>5. CASE ~bad /\ Len(elems) \in here
    BY <1>1, <1>3, <1>5, OtherLines
<1>6. CASE ~bad /\ Len(elems) \notin here
  <2> DEFINE k == CHOOSE k \in here : TRUE
  <2>1. k \in here
      BY <1>6
  <2>2. elems \in Seq(Elems)
      BY <1>2 DEF IInv, Types, Things
  <2> HIDE DEF k, elems
  <2>3. k \in DOMAIN elems /\ Len(elems) # k
      BY <1>6, <2>1
  <2>4. 1 + k \in 1 .. Len(elems)
      BY <2>2, <2>3
  <2>5. elems[1 + k] \in Elems
      BY <2>2, <2>4
  <2>6. g = ToElem(Top.sym, elems[1 + k].id, Top.argv)
      BY DEF k
  <2> HIDE DEF g
  <2>7. g \in Frames /\ g.frame # "donext"
      BY <1>2, <2>5, <2>6 DEF Frames, Elems, ToElem
  <2>8. Top.argv \in Int
      BY <1>2
  <2>9. stack' = <<Handler(Top.argv)>> \o (<<g>> \o Tail(stack))
    <3>1. TwoOnto(Handler(Top.argv), g, Tail(stack)) = Onto(Handler(Top.argv), Onto(g, Tail(stack)))
        BY <1>1, <2>7, <2>8, HandedOver
    <3>2. stack' = <<Handler(Top.argv), g>> \o Tail(stack)
        BY <1>3, <1>6
    <3> QED BY <3>1, <3>2, Zenon DEF Onto, TwoOnto
  <2> QED BY <1>1, <2>7, <2>8, <2>9, OtherLines
<1> QED BY <1>4, <1>5, <1>6

\* A pass sends the bang at the end of the list.
LEMMA EndLines ==
    ASSUME IInv, LInv, DoEnd
    PROVE  LInv'
<1>1. stack # <<>> /\ Top \in DoNexts /\ Top.frame = "donext" /\ Top.at = "loop"
    BY Below, Kinds DEF DoEnd, Looping, Is
<1> DEFINE f == [Top EXCEPT !.at = "banged"]
           s == <<f>> \o Tail(stack)
<1>2. f \in DoNexts /\ f \in Frames /\ f.frame = "donext" /\ f.at = "banged"
    BY <1>1 DEF DoNexts, Frames
<1> HIDE DEF f
<1>3. stack' = <<Handler(NoArgs), f>> \o Tail(stack) /\ x_onset' = End /\ UNCHANGED astray
    BY DEF DoEnd, f
<1>4. AimedFrame(f)
    BY <1>2 DEF AimedFrame
<1>5. s \in Seq(Frames) /\ Nested(s) /\ Aimed(s)
    BY <1>1, <1>2, <1>4, PassReplaced
<1>6. /\ Handler(NoArgs) \in Frames /\ Handler(NoArgs).frame # "donext" /\ NoArgs \in Int
      /\ Tail(stack) \in Seq(Frames)
    BY <1>1, NewFrames, Below DEF NoArgs
<1>7. stack' = <<Handler(NoArgs)>> \o s
  <2>1. TwoOnto(Handler(NoArgs), f, Tail(stack)) = Onto(Handler(NoArgs), Onto(f, Tail(stack)))
      BY <1>1, <1>2, <1>6, HandedOver
  <2> QED BY <1>3, <2>1, Zenon DEF Onto, TwoOnto
<1> HIDE DEF s
<1>8. Nested(stack') /\ Aimed(stack')
    BY <1>5, <1>6, <1>7, OtherPushed
<1> QED BY <1>3, <1>8 DEF LInv, Lines, End

\* A pass finds numbers at the beginning of a line.
LEMMA TimeLines ==
    ASSUME IInv, LInv, DoTime
    PROVE  LInv'
<1>1. /\ stack # <<>> /\ Top.frame = "donext" /\ Looping /\ ~AtEnd /\ Target = NoThing /\ Types
      /\ UNCHANGED <<x_binbuf, astray>> /\ x_onset' = SkipFloats(Onset)
      /\ orphan' = (orphan /\ ~Passed)
    BY DEF DoTime, Looping, Is, AtTime, IInv, content
<1>2. x_onset' \in 0 .. natom
  <2>1. Onset \in 0 .. natom - 1 /\ natom \in Nat /\ SkipFloats(Onset) \in Onset .. natom
      BY <1>1, OnsetFacts, Beyond
  <2> HIDE DEF Onset, natom, SkipFloats
  <2> QED BY <1>1, <2>1
<1>3. ~orphan' => Clean(x_binbuf, x_onset')
    BY <1>1, LoopLine, Beyond
<1>4. CASE Top.automatic
  <2>1. stack' = Tail(stack)
      BY <1>4 DEF DoTime
  <2> QED BY <1>1, <1>2, <1>3, <2>1, LinesPop
<1>5. CASE ~Top.automatic
  <2>1. stack' = <<Handler(moves)>> \o Tail(stack)
      BY <1>5 DEF DoTime
  <2> DEFINE t == Tail(stack)
  <2>2. t \in Seq(Frames) /\ Stepped(t) /\ Aimed(t)
      BY <1>1, Below, LinesBelow
  <2> HIDE DEF t
  <2>3. Nested(t) /\ (~orphan' => InnerLine(t, x_binbuf, x_onset'))
      BY <1>3, <2>2, InnerClean DEF Nested, Stepped
  <2>4. Handler(moves) \in Frames /\ Handler(moves).frame # "donext"
      BY NewFrames DEF IInv, Types
  <2>5. Nested(stack') /\ Aimed(stack') /\ (~orphan' => InnerLine(stack', x_binbuf, x_onset'))
      BY <2>1, <2>2, <2>3, <2>4, OtherPushed DEF t
  <2>6. (x_onset \in 0 .. natom)'
      BY <1>1, <1>2 DEF natom
  <2> QED BY <1>1, <2>5, <2>6 DEF LInv, Lines
<1> QED BY <1>4, <1>5

\* A message returns to the pass that sent it.
LEMMA SentLines ==
    ASSUME IInv, LInv, DoSent
    PROVE  LInv'
<1>1. /\ stack # <<>> /\ Top \in DoNexts /\ Top.frame = "donext" /\ Top.at = "sent"
      /\ UNCHANGED <<x_binbuf, x_onset, orphan, astray>>
    BY Below, Kinds DEF DoSent, Is, content, place, faults
<1>2. x_onset = End \/ x_onset \in 0 .. natom
    BY DEF LInv
<1>3. Top.rewound <=> x_reentered
  <2>1. 1 \in 1 .. Len(stack) /\ stack[1] = Top
      BY <1>1, Popped DEF IInv, Types, Top
  <2> QED BY <1>1, <2>1 DEF IInv, Rewinds, Stops
<1>4. AimedFrame(Top) /\ (~orphan /\ x_onset # End => Claim(Top, x_binbuf, x_onset))
    BY <1>1, LinesBelow
<1>5. CASE x_reentered
  <2>1. stack' = Tail(stack)
      BY <1>5 DEF DoSent, Sent
  <2>2. ~orphan /\ x_onset # End => Clean(x_binbuf, x_onset)
      BY <1>3, <1>4, <1>5 DEF Claim
  <2> QED BY <1>1, <1>2, <2>1, <2>2, LinesPop DEF End
<1>6. CASE ~x_reentered
  <2> DEFINE f == [Top EXCEPT !.at = "loop"]
             o == ~orphan /\ x_onset # End
  <2>1. /\ f \in DoNexts /\ f \in Frames /\ f.frame = "donext" /\ f.rewound = Top.rewound
        /\ f.target = Top.target /\ f.sym = Top.sym /\ f.at = "loop" /\ f.moved = Top.moved
      BY <1>1 DEF DoNexts, Frames
  <2> HIDE DEF f
  <2>2. stack' = <<f>> \o Tail(stack)
      BY <1>6 DEF DoSent, Sent, f
  <2>3. AimedFrame(f) /\ (o => Claim(f, x_binbuf, x_onset))
      BY <1>1, <1>4, <2>1 DEF AimedFrame, Claim
  <2>4. Nested(stack') /\ Aimed(stack') /\ (o => InnerLine(stack', x_binbuf, x_onset))
    <3> HIDE DEF o
    <3> QED BY <1>1, <2>1, <2>2, <2>3, PassReplaced
  <2> QED BY <1>1, <1>2, <2>4 DEF LInv, Lines, natom, End
<1> QED BY <1>5, <1>6

\* Every step preserves the invariant.
LEMMA NextLInv == IInv /\ LInv /\ [Next]_vars => LInv'
<1> SUFFICES ASSUME IInv, LInv, [Next]_vars PROVE LInv'
    OBVIOUS
<1> USE DEF content
<1>0. /\ stack \in Seq(Frames) /\ x_binbuf \in Seq(Alphabet) /\ Aimed(stack) /\ ~astray
      /\ x_onset = End \/ x_onset \in 0 .. natom
    BY DEF IInv, Types, LInv
<1>1. CASE Rewind
    BY <1>0, <1>1, LinesRewind DEF Rewind, Call, qlist_rewind, faults
<1>2. CASE qlist_clear
  <2>1. <<>> \in Seq(Alphabet)
      OBVIOUS
  <2> QED BY <1>0, <1>2, <2>1, LinesRewind DEF qlist_clear, Call, qlist_rewind, faults
<1>3. ASSUME NEW l \in Lists, qlist_set(l) PROVE LInv'
  <2>1. x_binbuf' \in Seq(Alphabet)
      BY <1>3, Contents DEF qlist_set
  <2> QED BY <1>0, <1>3, <2>1, LinesRewind DEF qlist_set, Call, qlist_rewind, faults
<1>4. ASSUME NEW l \in Lists, qlist_read(l) PROVE LInv'
  <2>1. x_binbuf' \in Seq(Alphabet)
      BY <1>0, <1>4, Contents DEF qlist_read
  <2> QED BY <1>0, <1>4, <2>1, LinesRewind DEF qlist_read, Call, faults
<1>5. CASE qlist_bang
  <2>1. Calm(stack)
      BY <1>5, CallerCalm DEF qlist_bang, Call
  <2>2. Rewound(stack) \in Seq(Frames) /\ Stepped(Rewound(stack)) /\ Aimed(Rewound(stack))
      BY <1>0, <2>1, RewoundFacts, MarkedPasses
  <2> QED BY <1>5, <2>2, CleanZero, LinesPass DEF qlist_bang, qlist_rewind, faults
<1>6. ASSUME NEW drop \in BOOLEAN, qlist_next(drop) PROVE LInv'
  <2>1. Calm(stack)
      BY <1>6, CallerCalm DEF qlist_next, Call
  <2>2. Moved(stack) \in Seq(Frames) /\ Stepped(Moved(stack)) /\ Aimed(Moved(stack))
      BY <1>0, <2>1, MovedFacts, MarkedPasses
  <2>3. ~orphan' /\ x_onset # End => Clean(x_binbuf, x_onset)
    <3> SUFFICES ASSUME ~orphan', x_onset # End PROVE Clean(x_binbuf, x_onset)
        OBVIOUS
    <3>1. ~orphan /\ stack = <<>>
        BY <1>6 DEF qlist_next
    <3>2. InnerLine(<<>>, x_binbuf, x_onset)
        BY <3>1 DEF LInv, Lines
    <3> QED BY <3>2 DEF InnerLine
  <2> QED BY <1>6, <2>2, <2>3, LinesPass DEF qlist_next, faults
<1>7. CASE qlist_tick
  <2>1. stack' = <<DoNext(FALSE, TRUE)>> \o <<>> /\ stack = <<>>
      BY <1>7 DEF qlist_tick
  <2>2. <<>> \in Seq(Frames) /\ Stepped(<<>>) /\ Aimed(<<>>)
      BY DEF Stepped, Aimed
  <2>3. UNCHANGED <<x_binbuf, x_onset, orphan, astray>>
      BY <1>7 DEF qlist_tick, state, place, faults
  <2>4. ~orphan /\ x_onset # End => Clean(x_binbuf, x_onset)
      BY <2>1 DEF LInv, Lines, InnerLine
  <2> QED BY <2>1, <2>2, <2>3, <2>4, LinesPass
<1>8. ASSUME NEW l \in Lists, NEW semi \in BOOLEAN, qlist_add(l, semi) PROVE LInv'
    BY <1>8, AddLines
<1>9. CASE UNCHANGED <<x_binbuf, x_onset, orphan, stack, astray>>
    BY <1>9 DEF LInv, Lines, natom, End
<1>10. CASE qlist_tempo
    BY <1>9, <1>10 DEF qlist_tempo, state, place, faults
<1>11. ASSUME NEW o \in Objects, MakeObject(o) \/ DeleteObject(o) PROVE LInv'
    BY <1>9, <1>11 DEF MakeObject, DeleteObject, state, place, faults
<1>12. CASE UNCHANGED vars
    BY <1>9, <1>12 DEF vars, state, place, faults
<1>13. CASE HandlerReturns
    BY <1>13, OtherLines DEF HandlerReturns, Is, state, place, faults
<1>14. CASE DoEndBanged
  <2>1. /\ stack # <<>> /\ Top.frame = "donext" /\ Top.at = "banged" /\ stack' = Tail(stack)
        /\ UNCHANGED <<x_binbuf, x_onset, orphan, astray>>
      BY <1>14 DEF DoEndBanged, Is, state, place, faults
  <2>2. ~orphan /\ x_onset # End => Clean(x_binbuf, x_onset)
      BY <2>1, LinesBelow DEF Claim
  <2> QED BY <1>0, <2>1, <2>2, LinesPop DEF End
<1>15. CASE DoEnd \/ DoTime \/ DoTarget \/ DoMess \/ BindlistNext \/ DoSent
    BY <1>15, EndLines, TimeLines, TargetLines, MessLines, BindlistLines, SentLines
<1>16. CASE HandlerRereads
    BY <1>9, <1>16 DEF HandlerRereads, state, place
<1> QED BY <1>1, <1>2, <1>3, <1>4, <1>5, <1>6, <1>7, <1>8, <1>10, <1>11, <1>12, <1>13, <1>14,
           <1>15, <1>16 DEF Next

-----------------------------------------------------------------------------
(* The theorems.                                                           *)

\* The invariant holds in every state of every behaviour.
LEMMA InvariantHolds == Spec => []IInv
    BY InitIInv, NextIInv, PTL DEF Spec

\* A message to a symbol reaches exactly the objects that are bound to it, newest first,
\* and a bindlist has at least two elements, for all objects, symbols and lists.
THEOREM ReceiversExact == Spec => []BindlistExact
<1>1. IInv => BindlistExact
    BY DEF IInv, Bindings, BindlistExact, Exact
<1> QED BY <1>1, InvariantHolds, PTL

\* A pass that is rewound from inside one of its messages goes no further in the list,
\* however deep the calls of qlist_donext are nested.
THEOREM RewoundPassStops == Spec => []RewindStops
<1>1. IInv => RewindStops
    BY DEF IInv
<1> QED BY <1>1, InvariantHolds, PTL

\* Freed memory is used only if an object was deleted from inside a message, or if a
\* receiver reads, or is handed on, arguments that were in the vector of the list and have
\* been moved by a change of the list since they were sent.
THEOREM CrashOnlyByChange == Spec => []CrashNeedsChange
<1>1. IInv => CrashNeedsChange
    BY DEF IInv
<1> QED BY <1>1, InvariantHolds, PTL

\* A message goes to the symbol at the head of its line, except where a line's head is bound
\* to nothing or a "next" steps on the list from inside a message, for all lists, objects
\* and nested calls.
THEOREM MessagesFollowTheirLine == Spec => []RightReceiver
<1>1. Init => LInv
    BY DEF Init, LInv, Nested, Aimed, Lines
<1>2. LInv => RightReceiver
    BY DEF LInv, RightReceiver
<1> QED BY <1>1, <1>2, InvariantHolds, NextLInv, PTL DEF Spec
=============================================================================
