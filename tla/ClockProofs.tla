----------------------------- MODULE ClockProofs -----------------------------
(* What the operations on clocks keep of the list: the lemmas that the       *)
(* proofs about the scheduler rest on.                                       *)
EXTENDS Clock, TLAPS

\* What RemoveAt returns, index by index.
LEMMA RemoveAtFacts ==
    ASSUME NEW S, NEW s \in Seq(S), NEW i \in 1 .. Len(s)
    PROVE  /\ RemoveAt(s, i) \in Seq(S)
           /\ Len(RemoveAt(s, i)) = Len(s) - 1
           /\ \A j \in 1 .. Len(s) - 1 :
                 RemoveAt(s, i)[j] = IF j < i THEN s[j] ELSE s[j + 1]
<1> DEFINE a == SubSeq(s, 1, i - 1)
           b == SubSeq(s, i + 1, Len(s))
<1>1. a \in Seq(S) /\ Len(a) = i - 1 /\ \A j \in 1 .. i - 1 : a[j] = s[j]
    OBVIOUS
<1>2. b \in Seq(S) /\ Len(b) = Len(s) - i /\ \A j \in 1 .. Len(s) - i : b[j] = s[i + j]
    OBVIOUS
<1>3. RemoveAt(s, i) = a \o b
    BY DEF RemoveAt
<1> HIDE DEF a, b
<1>4. a \o b \in Seq(S)
    BY <1>1, <1>2
<1>l. Len(a \o b) = Len(s) - 1
    BY <1>1, <1>2
<1>5. \A j \in 1 .. Len(s) - 1 : (a \o b)[j] = IF j < i THEN s[j] ELSE s[j + 1]
    BY <1>1, <1>2
<1> QED BY <1>3, <1>4, <1>l, <1>5

\* What InsertAt returns, index by index.
LEMMA InsertAtFacts ==
    ASSUME NEW S, NEW s \in Seq(S), NEW i \in 1 .. Len(s) + 1, NEW e \in S
    PROVE  /\ InsertAt(s, i, e) \in Seq(S)
           /\ Len(InsertAt(s, i, e)) = Len(s) + 1
           /\ \A j \in 1 .. Len(s) + 1 :
                 InsertAt(s, i, e)[j] = IF j < i THEN s[j] ELSE IF j = i THEN e ELSE s[j - 1]
<1> DEFINE a == SubSeq(s, 1, i - 1)
           b == SubSeq(s, i, Len(s))
           m == a \o <<e>>
<1>1. a \in Seq(S) /\ Len(a) = i - 1 /\ \A j \in 1 .. i - 1 : a[j] = s[j]
    OBVIOUS
<1>2. b \in Seq(S) /\ Len(b) = Len(s) - i + 1
      /\ \A j \in 1 .. Len(s) - i + 1 : b[j] = s[i + j - 1]
    OBVIOUS
<1>3. InsertAt(s, i, e) = m \o b
    BY DEF InsertAt
<1> HIDE DEF a, b
<1>4. m \in Seq(S) /\ Len(m) = i /\ m[i] = e /\ \A j \in 1 .. i - 1 : m[j] = s[j]
    BY <1>1
<1> HIDE DEF m
<1>5. m \o b \in Seq(S)
    BY <1>2, <1>4
<1>l. Len(m \o b) = Len(s) + 1
  <2>1. m \in Seq(S) /\ b \in Seq(S) /\ Len(m) = i /\ Len(b) = Len(s) - i + 1
    BY <1>2, <1>4
  <2>2. Len(m \o b) = Len(m) + Len(b)
    BY <2>1
  <2> QED BY <2>1, <2>2
<1>6. \A j \in 1 .. Len(s) + 1 :
         (m \o b)[j] = IF j < i THEN s[j] ELSE IF j = i THEN e ELSE s[j - 1]
    BY <1>2, <1>4
<1> QED BY <1>3, <1>5, <1>l, <1>6

-----------------------------------------------------------------------------
\* clock_unset's walk finds its clock and leaves the others as they were.
LEMMA UnlinkedFacts ==
    ASSUME ClockTypeOK, ListIsSetClocks, ListInOrder, NEW c \in Clocks
    PROVE  /\ Unlinked(c) \in Seq(Clocks)
           /\ \A i \in 1 .. Len(Unlinked(c)) :
                 /\ Unlinked(c)[i] # c
                 /\ \E j \in 1 .. Len(clock_setlist) : Unlinked(c)[i] = clock_setlist[j]
           /\ \A x \in Clocks \ {c} :
                 IsSet(x) => \E i \in 1 .. Len(Unlinked(c)) : Unlinked(c)[i] = x
           /\ \A i, j \in 1 .. Len(Unlinked(c)) : Unlinked(c)[i] = Unlinked(c)[j] => i = j
           /\ \A i, j \in 1 .. Len(Unlinked(c)) :
                 i < j => c_settime[Unlinked(c)[i]] <= c_settime[Unlinked(c)[j]]
<1> DEFINE l == clock_setlist
           u == Unlinked(c)
<1>0. l \in Seq(Clocks) /\ DOMAIN l = 1 .. Len(l) /\ Len(l) \in Nat
    BY DEF ClockTypeOK
<1>1. CASE ~IsSet(c)
  <2>1. u = l
    BY <1>1 DEF Unlinked
  <2> QED BY <1>0, <1>1, <2>1 DEF ListIsSetClocks, ListInOrder
<1>2. CASE IsSet(c)
  <2> DEFINE k == CHOOSE i \in DOMAIN clock_setlist : clock_setlist[i] = c
  <2>1. k \in 1 .. Len(l) /\ l[k] = c
    BY <1>0, <1>2 DEF ListIsSetClocks
  <2>2. u = RemoveAt(l, k)
    BY <1>2 DEF Unlinked
  <2> HIDE DEF k
  <2>3. /\ u \in Seq(Clocks)
        /\ Len(u) = Len(l) - 1
        /\ \A j \in 1 .. Len(l) - 1 : u[j] = IF j < k THEN l[j] ELSE l[j + 1]
    <3>1. RemoveAt(l, k) \in Seq(Clocks) /\ Len(RemoveAt(l, k)) = Len(l) - 1
        BY <1>0, <2>1, RemoveAtFacts
    <3>2. ASSUME NEW j \in 1 .. Len(l) - 1
          PROVE  RemoveAt(l, k)[j] = IF j < k THEN l[j] ELSE l[j + 1]
        BY <1>0, <2>1, RemoveAtFacts
    <3> QED BY <2>2, <3>1, <3>2
  <2> HIDE DEF u
  <2>4. \A i, j \in 1 .. Len(l) : l[i] = l[j] => i = j
    BY <1>0 DEF ListIsSetClocks
  <2>5. \A i, j \in 1 .. Len(l) : i < j => c_settime[l[i]] <= c_settime[l[j]]
    BY <1>0 DEF ListInOrder
  <2>6. \A i \in 1 .. Len(u) : u[i] # c /\ \E j \in 1 .. Len(l) : u[i] = l[j]
    BY <1>0, <2>1, <2>3, <2>4
  <2>7. \A x \in Clocks \ {c} : IsSet(x) => \E i \in 1 .. Len(u) : u[i] = x
    <3> SUFFICES ASSUME NEW x \in Clocks \ {c}, IsSet(x)
                 PROVE  \E i \in 1 .. Len(u) : u[i] = x
        OBVIOUS
    <3>1. PICK j \in 1 .. Len(l) : l[j] = x
        BY <1>0 DEF ListIsSetClocks
    <3>2. j # k
        BY <3>1, <2>1
    <3>3. CASE j < k
        BY <1>0, <2>1, <2>3, <3>1, <3>3
    <3>4. CASE j > k
      <4>1. j - 1 \in 1 .. Len(u) /\ u[j - 1] = l[j]
        BY <1>0, <2>1, <2>3, <3>1, <3>4
      <4> QED BY <3>1, <4>1
    <3> QED BY <2>1, <3>2, <3>3, <3>4
  <2>8. \A i, j \in 1 .. Len(u) : u[i] = u[j] => i = j
    BY <1>0, <2>1, <2>3, <2>4
  <2>9. \A i, j \in 1 .. Len(u) : i < j => c_settime[u[i]] <= c_settime[u[j]]
    BY <1>0, <2>1, <2>3, <2>5
  <2> QED BY <2>3, <2>6, <2>7, <2>8, <2>9 DEF u
<1> QED BY <1>1, <1>2

-----------------------------------------------------------------------------
\* What every operation on clocks keeps.
ListOK == ClockTypeOK /\ ListIsSetClocks /\ ListInOrder

\* A new clock is on no list.
LEMMA NewKeepsList ==
    ASSUME ListOK, NEW c \in Clocks, clock_new(c), sys_time' = sys_time
    PROVE  ListOK'
<1>1. clock_setlist \in Seq(Clocks) /\ DOMAIN clock_setlist = 1 .. Len(clock_setlist)
    BY DEF ListOK, ClockTypeOK
<1>2. \A i \in DOMAIN clock_setlist : clock_setlist[i] # c
    BY DEF ListOK, ListIsSetClocks, clock_new
<1>3. ClockTypeOK'
    BY DEF ListOK, ClockTypeOK, clock_new
<1>4. \A x \in Clocks \ {c} : c_settime'[x] = c_settime[x]
    BY DEF ListOK, ClockTypeOK, clock_new
<1>5. c_settime'[c] = -1
    BY DEF ListOK, ClockTypeOK, clock_new
<1>6. ListIsSetClocks'
    BY <1>1, <1>2, <1>4, <1>5 DEF ListOK, ListIsSetClocks, clock_new, IsSet
<1>7. ListInOrder'
    BY <1>1, <1>2, <1>4 DEF ListOK, ListInOrder, clock_new
<1> QED BY <1>3, <1>6, <1>7 DEF ListOK

\* Unlinking a clock, to unset it or to free it, at a time that the clocks
\* left behind have not passed.
LEMMA UnlinkKeepsList ==
    ASSUME ListOK, NEW c \in Clocks,
           clock_setlist' = Unlinked(c),
           c_settime' = [c_settime EXCEPT ![c] = -1],
           live' \in {live, live \ {c}},
           sys_time' \in Nat,
           \A i \in DOMAIN clock_setlist :
              clock_setlist[i] # c => c_settime[clock_setlist[i]] >= sys_time'
    PROVE  ListOK'
<1> DEFINE u == Unlinked(c)
<1>1. clock_setlist \in Seq(Clocks) /\ DOMAIN clock_setlist = 1 .. Len(clock_setlist)
    BY DEF ListOK, ClockTypeOK
<1>2. /\ u \in Seq(Clocks)
      /\ \A i \in 1 .. Len(u) :
            u[i] # c /\ \E j \in 1 .. Len(clock_setlist) : u[i] = clock_setlist[j]
      /\ \A x \in Clocks \ {c} : IsSet(x) => \E i \in 1 .. Len(u) : u[i] = x
      /\ \A i, j \in 1 .. Len(u) : u[i] = u[j] => i = j
      /\ \A i, j \in 1 .. Len(u) : i < j => c_settime[u[i]] <= c_settime[u[j]]
    BY UnlinkedFacts DEF ListOK
<1>3. clock_setlist' = u
    OBVIOUS
<1> HIDE DEF u
<1>4. \A x \in Clocks \ {c} : c_settime'[x] = c_settime[x]
    BY DEF ListOK, ClockTypeOK
<1>5. c_settime'[c] = -1
    BY DEF ListOK, ClockTypeOK
<1>6. \A i \in 1 .. Len(u) : u[i] \in Clocks \ {c}
    BY <1>2
<1>7. DOMAIN clock_setlist' = 1 .. Len(u)
    BY <1>2, <1>3
<1>8. ClockTypeOK'
    BY <1>2, <1>3 DEF ListOK, ClockTypeOK
<1>9. ListIsSetClocks'
  <2>1. \A x \in Clocks : IsSet(x)' => \E i \in 1 .. Len(u) : u[i] = x
    BY <1>2, <1>4, <1>5 DEF IsSet
  <2>2. \A i \in 1 .. Len(u) : IsSet(u[i]) /\ u[i] \in live
    BY <1>1, <1>2 DEF ListOK, ListIsSetClocks
  <2>3. \A i \in 1 .. Len(u) : c_settime'[u[i]] >= 0 /\ u[i] \in live'
    BY <1>4, <1>6, <2>2 DEF IsSet
  <2> QED BY <1>2, <1>3, <1>7, <2>1, <2>3 DEF ListIsSetClocks, IsSet
<1>10. ListInOrder'
  <2>1. \A i \in 1 .. Len(u) : c_settime[u[i]] >= sys_time'
    BY <1>1, <1>2
  <2> QED BY <1>2, <1>3, <1>4, <1>6, <1>7, <2>1 DEF ListInOrder
<1> QED BY <1>8, <1>9, <1>10 DEF ListOK

\* The two callers of UnlinkKeepsList: clock_unset and clock_free.
LEMMA UnsetKeepsList ==
    ASSUME ListOK, NEW c \in Clocks, clock_unset(c) \/ clock_free(c), sys_time' = sys_time
    PROVE  ListOK'
<1>1. \A i \in DOMAIN clock_setlist : c_settime[clock_setlist[i]] >= sys_time'
    BY DEF ListOK, ListInOrder
<1>2. sys_time' \in Nat
    BY DEF ListOK, ClockTypeOK
<1> QED BY <1>1, <1>2, UnlinkKeepsList DEF clock_unset, clock_free

\* clock_set unlinks its clock and links it in again in firing order.
LEMMA SetKeepsList ==
    ASSUME ListOK, NEW c \in Clocks, NEW setticks \in Int, clock_set(c, setticks),
           sys_time' = sys_time
    PROVE  ListOK'
<1> DEFINE u == Unlinked(c)
           t == IF setticks < sys_time THEN sys_time ELSE setticks
           n == clock_setlist'
<1>1. clock_setlist \in Seq(Clocks) /\ DOMAIN clock_setlist = 1 .. Len(clock_setlist)
    BY DEF ListOK, ClockTypeOK
<1>2. /\ u \in Seq(Clocks)
      /\ \A i \in 1 .. Len(u) :
            u[i] # c /\ \E j \in 1 .. Len(clock_setlist) : u[i] = clock_setlist[j]
      /\ \A x \in Clocks \ {c} : IsSet(x) => \E i \in 1 .. Len(u) : u[i] = x
      /\ \A i, j \in 1 .. Len(u) : u[i] = u[j] => i = j
      /\ \A i, j \in 1 .. Len(u) : i < j => c_settime[u[i]] <= c_settime[u[j]]
    BY UnlinkedFacts DEF ListOK
<1>3. t \in Nat /\ t >= sys_time /\ sys_time \in Nat
    BY DEF ListOK, ClockTypeOK
<1>4. PICK k \in 1 .. Len(u) + 1 : IsPlaceFor(u, t, k) /\ n = InsertAt(u, k, c)
    BY DEF clock_set, Clamped
<1>5. c_settime' = [c_settime EXCEPT ![c] = t] /\ live' = live /\ c \in live
    BY DEF clock_set, Clamped
<1> HIDE DEF u, t, n
<1>6. /\ n \in Seq(Clocks)
      /\ Len(n) = Len(u) + 1
      /\ \A j \in 1 .. Len(u) + 1 :
            n[j] = IF j < k THEN u[j] ELSE IF j = k THEN c ELSE u[j - 1]
  <2>1. u \in Seq(Clocks)
    BY <1>2
  <2>2. n = InsertAt(u, k, c)
    BY <1>4
  <2>3. InsertAt(u, k, c) \in Seq(Clocks)
    BY <2>1, InsertAtFacts
  <2>4. Len(InsertAt(u, k, c)) = Len(u) + 1
    BY <2>1, InsertAtFacts
  <2>5. ASSUME NEW j \in 1 .. Len(u) + 1
        PROVE  InsertAt(u, k, c)[j] = IF j < k THEN u[j] ELSE IF j = k THEN c ELSE u[j - 1]
    BY <2>1, InsertAtFacts
  <2> QED BY <2>2, <2>3, <2>4, <2>5
<1>7. c_settime'[c] = t /\ \A x \in Clocks \ {c} : c_settime'[x] = c_settime[x]
    BY <1>5 DEF ListOK, ClockTypeOK
<1>8. Len(u) \in Nat /\ DOMAIN n = 1 .. Len(u) + 1 /\ \A i \in 1 .. Len(u) : u[i] \in Clocks \ {c}
    BY <1>2, <1>6
<1>9. /\ \A j \in 1 .. k - 1 : c_settime[u[j]] <= t
      /\ k <= Len(u) => c_settime[u[k]] > t
    BY <1>4 DEF IsPlaceFor
<1>10. c_settime \in [Clocks -> Int]
    BY DEF ListOK, ClockTypeOK
<1>11. \A j \in k .. Len(u) : c_settime[u[j]] > t
  <2> SUFFICES ASSUME NEW j \in k .. Len(u) PROVE c_settime[u[j]] > t
    OBVIOUS
  <2>1. j \in 1 .. Len(u) /\ k \in 1 .. Len(u)
    BY <1>8
  <2>2. c_settime[u[k]] <= c_settime[u[j]]
    BY <1>2, <1>8, <1>10, <2>1
  <2>3. c_settime[u[k]] \in Int /\ c_settime[u[j]] \in Int
    BY <1>8, <1>10, <2>1
  <2> QED BY <1>3, <1>9, <2>1, <2>2, <2>3
<1>a. \A j \in DOMAIN n : j \in Int /\ (j < k => j \in 1 .. Len(u) /\ n[j] = u[j])
    BY <1>6, <1>8
<1>b. k \in DOMAIN n /\ k \in Int /\ n[k] = c
    BY <1>6, <1>8
<1>c. \A j \in DOMAIN n : j > k => j - 1 \in 1 .. Len(u) /\ j - 1 >= k /\ n[j] = u[j - 1]
    BY <1>6, <1>8
<1>d. \A i, j \in 1 .. Len(u) : u[i] = u[j] => i = j
    BY <1>2
<1>e. \A i, j \in 1 .. Len(u) : i < j => c_settime[u[i]] <= c_settime[u[j]]
    BY <1>2
<1>12. ClockTypeOK'
    BY <1>3, <1>5, <1>6, <1>10 DEF ListOK, ClockTypeOK, n
<1>13. ListIsSetClocks'
  <2>1. \A x \in Clocks : IsSet(x)' => \E i \in DOMAIN n : n[i] = x
    <3> SUFFICES ASSUME NEW x \in Clocks, c_settime'[x] >= 0 PROVE \E i \in DOMAIN n : n[i] = x
        BY DEF IsSet
    <3>1. CASE x = c
        BY <1>4, <1>6, <1>8, <3>1
    <3>2. CASE x # c
      <4>1. PICK i \in 1 .. Len(u) : u[i] = x
        BY <1>2, <1>7, <3>2 DEF IsSet
      <4>2. CASE i < k
        BY <1>6, <1>8, <4>1, <4>2
      <4>3. CASE i >= k
        <5>1. i + 1 \in 1 .. Len(u) + 1 /\ n[i + 1] = u[i]
            BY <1>6, <1>8, <4>3
        <5> QED BY <1>8, <4>1, <5>1
      <4> QED BY <4>2, <4>3
    <3> QED BY <3>1, <3>2
  <2>2. \A i \in 1 .. Len(u) : IsSet(u[i]) /\ u[i] \in live
    BY <1>1, <1>2 DEF ListOK, ListIsSetClocks
  <2>3. \A i \in 1 .. Len(u) : c_settime'[u[i]] >= 0
    BY <1>7, <1>8, <2>2 DEF IsSet
  <2>4. ASSUME NEW i \in DOMAIN n PROVE c_settime'[n[i]] >= 0 /\ n[i] \in live'
    <3>1. CASE i < k
        BY <1>5, <1>a, <2>2, <2>3, <3>1
    <3>2. CASE i = k
        BY <1>3, <1>5, <1>7, <1>b, <3>2
    <3>3. CASE i > k
        BY <1>5, <1>c, <2>2, <2>3, <3>3
    <3> QED BY <1>a, <1>b, <3>1, <3>2, <3>3
  <2>5. ASSUME NEW i \in DOMAIN n, NEW j \in DOMAIN n, n[i] = n[j] PROVE i = j
    <3>1. CASE i < k
      <4>1. j # k
        BY <1>8, <1>a, <1>b, <2>5, <3>1
      <4>2. CASE j < k
        BY <1>2, <1>a, <2>5, <3>1, <4>2
      <4>3. CASE j > k
        <5>1. i \in 1 .. Len(u) /\ j - 1 \in 1 .. Len(u) /\ u[i] = u[j - 1] /\ j - 1 >= k
            BY <1>a, <1>c, <2>5, <3>1, <4>3
        <5> QED BY <1>a, <1>b, <1>d, <3>1, <5>1
      <4> QED BY <1>a, <1>b, <4>1, <4>2, <4>3
    <3>2. CASE i = k
      <4>1. ~(j < k)
        BY <1>8, <1>a, <1>b, <2>5, <3>2
      <4>2. ~(j > k)
        BY <1>8, <1>b, <1>c, <2>5, <3>2
      <4> QED BY <1>a, <1>b, <3>2, <4>1, <4>2
    <3>3. CASE i > k
      <4>1. j # k
        BY <1>8, <1>b, <1>c, <2>5, <3>3
      <4>2. CASE j < k
        <5>1. j \in 1 .. Len(u) /\ i - 1 \in 1 .. Len(u) /\ u[j] = u[i - 1] /\ i - 1 >= k
            BY <1>a, <1>c, <2>5, <3>3, <4>2
        <5> QED BY <1>a, <1>b, <1>d, <4>2, <5>1
      <4>3. CASE j > k
        <5>1. i - 1 \in 1 .. Len(u) /\ j - 1 \in 1 .. Len(u) /\ u[i - 1] = u[j - 1]
            BY <1>c, <2>5, <3>3, <4>3
        <5> QED BY <1>a, <1>d, <5>1
      <4> QED BY <1>a, <1>b, <4>1, <4>2, <4>3
    <3> QED BY <1>a, <1>b, <3>1, <3>2, <3>3
  <2> QED BY <2>1, <2>4, <2>5 DEF ListIsSetClocks, IsSet, n
<1>14. ListInOrder'
  <2>1. \A i \in 1 .. Len(u) : c_settime'[u[i]] = c_settime[u[i]] /\ c_settime[u[i]] \in Int
    BY <1>7, <1>8, <1>10
  <2>2. \A i \in 1 .. Len(u) : c_settime[u[i]] >= sys_time
    BY <1>1, <1>2 DEF ListOK, ListInOrder
  <2>3. \A i, j \in DOMAIN n : i < j => c_settime'[n[i]] <= c_settime'[n[j]]
    <3> SUFFICES ASSUME NEW i \in DOMAIN n, NEW j \in DOMAIN n, i < j
                 PROVE  c_settime'[n[i]] <= c_settime'[n[j]]
        OBVIOUS
    <3>1. CASE i < k /\ j < k
        BY <1>2, <1>a, <2>1, <3>1
    <3>2. CASE i < k /\ j = k
        BY <1>7, <1>9, <1>a, <1>b, <2>1, <3>2
    <3>3. CASE i < k /\ j > k
      <4>1. i < j - 1 \/ i = j - 1
        BY <1>a, <1>b, <3>3
      <4> QED BY <1>2, <1>a, <1>c, <2>1, <3>3, <4>1
    <3>4. CASE i = k
      <4>1. j > k /\ n[j] = u[j - 1] /\ j - 1 \in k .. Len(u)
        BY <1>8, <1>a, <1>b, <1>c, <3>4
      <4> QED BY <1>3, <1>7, <1>8, <1>11, <1>b, <2>1, <3>4, <4>1
    <3>5. CASE i > k
      <4>1. j > k /\ i - 1 < j - 1
        BY <1>a, <1>b, <3>5
      <4>2. /\ i - 1 \in 1 .. Len(u) /\ j - 1 \in 1 .. Len(u)
            /\ n[i] = u[i - 1] /\ n[j] = u[j - 1]
        BY <1>c, <3>5, <4>1
      <4>3. c_settime[u[i - 1]] <= c_settime[u[j - 1]]
        BY <1>e, <4>1, <4>2
      <4> QED BY <2>1, <4>2, <4>3
    <3> QED BY <1>a, <1>b, <3>1, <3>2, <3>3, <3>4, <3>5
  <2>4. ASSUME NEW i \in DOMAIN n PROVE c_settime'[n[i]] >= sys_time'
    <3>1. CASE i < k
        BY <1>a, <2>1, <2>2, <3>1
    <3>2. CASE i = k
        BY <1>3, <1>7, <1>b, <3>2
    <3>3. CASE i > k
        BY <1>c, <2>1, <2>2, <3>3
    <3> QED BY <1>a, <1>b, <3>1, <3>2, <3>3
  <2> QED BY <2>3, <2>4 DEF ListInOrder, n
<1> QED BY <1>12, <1>13, <1>14 DEF ListOK
=============================================================================
