------------------------------ MODULE GuiProofs ------------------------------
(***************************************************************************)
(* For every size of the ring, of the socket, of updates and of messages:  *)
(* the update queue is exact, an awaited ping is on its way, updates do    *)
(* not pile up, and messages are evaluated whole and in order.             *)
(*                                                                         *)
(* The proofs look at two sequences of bytes instead of at buffers: Down,  *)
(* what is on its way to the GUI, and Stream, what is on its way back, in  *)
(* the ring or before it.  Receiving leaves the stream alone, evaluating a *)
(* message takes it off the front, the GUI adds messages at the end.       *)
(***************************************************************************)
EXTENDS Gui, SequenceTheorems, FiniteSetTheorems, TLAPS

-----------------------------------------------------------------------------
(* Counting the bytes of a kind.                                           *)

\* The indices of a byte.
Places(s, b) == {k \in 1 .. Len(s) : s[k] = b}

\* Count is the number of places where the byte is.
LEMMA CountIs ==
    ASSUME NEW S, NEW s \in Seq(S), NEW b
    PROVE  /\ Count(s, b) = Cardinality(Places(s, b)) /\ IsFiniteSet(Places(s, b))
           /\ Count(s, b) \in Nat /\ (Count(s, b) = 0 <=> \A k \in 1 .. Len(s) : s[k] # b)
<1>1. DOMAIN s = 1 .. Len(s) /\ Len(s) \in Nat
    OBVIOUS
<1>2. Count(s, b) = Cardinality(Places(s, b))
    BY <1>1 DEF Count, Places
<1>3. IsFiniteSet(1 .. Len(s)) /\ Places(s, b) \in SUBSET (1 .. Len(s))
    BY <1>1, FS_Interval DEF Places
<1>4. IsFiniteSet(Places(s, b))
    BY <1>3, FS_Subset
<1>5. Cardinality(Places(s, b)) \in Nat
    BY <1>4, FS_CardinalityType
<1>6. Cardinality(Places(s, b)) = 0 <=> Places(s, b) = {}
    BY <1>4, FS_EmptySet
<1>7. Places(s, b) = {} <=> \A k \in 1 .. Len(s) : s[k] # b
    BY DEF Places
<1> QED BY <1>2, <1>4, <1>5, <1>6, <1>7

\* A set of numbers, moved.
LEMMA Moved ==
    ASSUME NEW n \in Int, NEW A, NEW B, IsFiniteSet(A), A \subseteq Int, B \subseteq Int,
           \A k \in Int : k \in A <=> k + n \in B
    PROVE  IsFiniteSet(B) /\ Cardinality(B) = Cardinality(A)
<1> DEFINE f == [k \in A |-> k + n]
<1>1. f \in [A -> B]
    OBVIOUS
<1>2. IsInjective(f)
    BY DEF IsInjective
<1>3. \A j \in B : \E k \in A : f[k] = j
  <2> SUFFICES ASSUME NEW j \in B PROVE \E k \in A : f[k] = j
      OBVIOUS
  <2>1. j - n \in Int /\ (j - n) + n = j
      OBVIOUS
  <2>2. j - n \in A
      BY <2>1
  <2>3. f[j - n] = j
      BY <2>1, <2>2
  <2> QED BY <2>2, <2>3
<1> HIDE DEF f
<1>4. f \in Bijection(A, B)
    BY <1>1, <1>2, <1>3 DEF Bijection, Injection, Surjection
<1> QED BY <1>4, FS_Bijection DEF ExistsBijection

\* In two sequences joined there is what is in both.
LEMMA CountConcat ==
    ASSUME NEW S, NEW s \in Seq(S), NEW t \in Seq(S), NEW b
    PROVE  Count(s \o t, b) = Count(s, b) + Count(t, b)
<1> DEFINE A == Places(s, b)
           B == Places(t, b)
           C == {k \in Len(s) + 1 .. Len(s) + Len(t) : t[k - Len(s)] = b}
<1>1. /\ s \o t \in Seq(S) /\ Len(s \o t) = Len(s) + Len(t)
      /\ \A i \in 1 .. Len(s) + Len(t) : (s \o t)[i] = IF i <= Len(s) THEN s[i] ELSE t[i - Len(s)]
    BY ConcatProperties
<1>2. Len(s) \in Nat /\ Len(t) \in Nat
    OBVIOUS
<1>3. Places(s \o t, b) = A \cup C
    BY <1>1, <1>2 DEF Places
<1>4. IsFiniteSet(A) /\ IsFiniteSet(B) /\ Cardinality(A) = Count(s, b) /\ Cardinality(B) = Count(t, b)
    BY CountIs
<1>5. IsFiniteSet(C) /\ Cardinality(C) = Cardinality(B)
  <2>1. B \subseteq Int /\ C \subseteq Int
      BY <1>2 DEF Places
  <2>2. \A k \in Int : k \in B <=> k + Len(s) \in C
    <3> TAKE k \in Int
    <3>1. (k + Len(s)) - Len(s) = k
        BY <1>2
    <3> QED BY <1>2, <3>1 DEF Places
  <2> HIDE DEF B, C
  <2>3. Len(s) \in Int
      BY <1>2
  <2> QED BY <1>4, <2>1, <2>2, <2>3, Moved
<1>6. A \cap C = {}
    BY <1>2 DEF Places
<1>7. Count(s \o t, b) = Cardinality(A \cup C)
    BY <1>1, <1>3, CountIs
<1> HIDE DEF A, B, C
<1>8. Cardinality(A \cup C) = Cardinality(A) + Cardinality(C) - Cardinality({})
    BY <1>4, <1>5, <1>6, FS_Union
<1>9. Count(s, b) \in Nat /\ Count(t, b) \in Nat
    BY CountIs
<1> QED BY <1>4, <1>5, <1>7, <1>8, <1>9, FS_EmptySet

\* In no bytes, in one byte, in n equal bytes and in an answer to a ping.
LEMMA CountSmall ==
    ASSUME NEW b, NEW c, NEW n \in Nat
    PROVE  /\ Count(<<>>, b) = 0
           /\ Count(<<c>>, b) = IF c = b THEN 1 ELSE 0
           /\ Count(Bytes(c, n), b) = IF c = b THEN n ELSE 0
<1>1. Count(<<>>, b) = 0
    BY FS_EmptySet DEF Count
<1>2. Count(<<c>>, b) = IF c = b THEN 1 ELSE 0
  <2>1. Places(<<c>>, b) = IF c = b THEN {1} ELSE {}
      BY DEF Places
  <2>2. Count(<<c>>, b) = Cardinality(Places(<<c>>, b))
      BY <<c>> \in Seq({c}), CountIs
  <2> QED BY <2>1, <2>2, FS_EmptySet, FS_Singleton
<1>3. Count(Bytes(c, n), b) = IF c = b THEN n ELSE 0
  <2>1. Places(Bytes(c, n), b) = IF c = b THEN 1 .. n ELSE {}
      BY DEF Places, Bytes
  <2>2. Bytes(c, n) \in Seq({c})
      BY DEF Bytes
  <2>3. Count(Bytes(c, n), b) = Cardinality(Places(Bytes(c, n), b))
      BY <2>2, CountIs
  <2>4. Cardinality(1 .. n) = n
    <3>1. Cardinality(1 .. n) = IF 1 > n THEN 0 ELSE n - 1 + 1
        BY FS_Interval
    <3> QED BY <3>1
  <2> QED BY <2>1, <2>3, <2>4, FS_EmptySet
<1> QED BY <1>1, <1>2, <1>3

\* In an answer to a ping.
LEMMA CountPing == Count(PING, "p") = 1
<1>1. Places(PING, "p") = {1}
    BY DEF Places, PING
<1>2. PING \in Seq({"p", "semi"})
    BY DEF PING
<1>3. Count(PING, "p") = Cardinality(Places(PING, "p"))
    BY <1>2, CountIs
<1> QED BY <1>1, <1>3, FS_Singleton

-----------------------------------------------------------------------------
(* The bytes between the GUI and the evaluation of its messages, oldest    *)
(* first: what is in the ring buffer, and what is on the way to it.        *)

UpBytes == {"p", "m", "semi", "backslash"}
DownBytes == {"u", "d", "ping"}

RingOK(buf, h, t) ==
    buf \in [0 .. INBUFSIZE - 1 -> UpBytes] /\ h \in 0 .. INBUFSIZE - 1 /\ t \in 0 .. INBUFSIZE - 1
SlotAt(t, k) == (t + k) % INBUFSIZE
LengthOf(h, t, p) == IF p = "reading" /\ h = t THEN INBUFSIZE ELSE (h - t) % INBUFSIZE
WindowOf(buf, h, t, p) == [k \in 1 .. LengthOf(h, t, p) |-> buf[SlotAt(t, k - 1)]]
StreamOf(buf, h, t, p, rest) == WindowOf(buf, h, t, p) \o rest
Stream == StreamOf(inbuf, inhead, intail, pd, topd)

\* Remainders near the size.
LEMMA Wrap ==
    ASSUME NEW x \in Int
    PROVE  /\ (x >= 0 /\ x < INBUFSIZE) => x % INBUFSIZE = x
           /\ (x >= INBUFSIZE /\ x < 2 * INBUFSIZE) => x % INBUFSIZE = x - INBUFSIZE
           /\ (x < 0 /\ x >= -INBUFSIZE) => x % INBUFSIZE = x + INBUFSIZE
<1> DEFINE n == INBUFSIZE
<1>0. n \in Nat \ {0}
    BY GuiAssumption
<1> HIDE DEF n
<1>1. x % n \in 0 .. n - 1 /\ x = n * (x \div n) + (x % n) /\ x \div n \in Int
    BY <1>0
<1>2. (x >= 0 /\ x < n) => x % n = x
    BY <1>0
<1>3. (x >= n /\ x < 2 * n) => x % n = x - n
    BY <1>0
<1>4. ASSUME x < 0, x >= -n PROVE x % n = x + n
  <2>1. x \div n = -1
    BY <1>0, <1>1, <1>4
  <2> QED BY <1>0, <1>1, <2>1
<1> QED BY <1>2, <1>3, <1>4 DEF n

\* The size of the ring.
LEMMA Size == INBUFSIZE \in Nat /\ INBUFSIZE > 2
    BY GuiAssumption

\* Slots and lengths without remainders.
LEMMA SlotIs ==
    ASSUME NEW t \in 0 .. INBUFSIZE - 1, NEW k \in 0 .. INBUFSIZE
    PROVE  /\ SlotAt(t, k) = IF t + k < INBUFSIZE THEN t + k ELSE t + k - INBUFSIZE
           /\ SlotAt(t, k) \in 0 .. INBUFSIZE - 1
<1>1. t + k \in Int /\ t + k >= 0 /\ t + k < 2 * INBUFSIZE
    BY Size
<1> QED BY <1>1, Wrap, Size DEF SlotAt

\* The number of bytes in the ring; full and empty differ in where the reader is.
LEMMA LengthIs ==
    ASSUME NEW h \in 0 .. INBUFSIZE - 1, NEW t \in 0 .. INBUFSIZE - 1, NEW p
    PROVE  /\ LengthOf(h, t, p) \in 0 .. INBUFSIZE
           /\ h = t => LengthOf(h, t, p) = IF p = "reading" THEN INBUFSIZE ELSE 0
           /\ h > t => LengthOf(h, t, p) = h - t
           /\ h < t => LengthOf(h, t, p) = h - t + INBUFSIZE
<1>1. h - t \in Int /\ h - t >= -INBUFSIZE /\ h - t < INBUFSIZE
    BY Size
<1> QED BY <1>1, Wrap, Size DEF LengthOf

\* What is in the ring, and what the stream is made of.
LEMMA WindowIs ==
    ASSUME NEW buf, NEW h, NEW t, RingOK(buf, h, t), NEW p
    PROVE  LET L == LengthOf(h, t, p)
               W == WindowOf(buf, h, t, p)
           IN  /\ L \in 0 .. INBUFSIZE /\ L \in Nat /\ W \in Seq(UpBytes) /\ Len(W) = L
               /\ \A k \in 1 .. L : W[k] = buf[SlotAt(t, k - 1)]
<1> DEFINE L == LengthOf(h, t, p)
           W == WindowOf(buf, h, t, p)
<1>1. L \in 0 .. INBUFSIZE /\ t \in 0 .. INBUFSIZE - 1 /\ buf \in [0 .. INBUFSIZE - 1 -> UpBytes]
    BY LengthIs DEF RingOK
<1>2. \A k \in 1 .. L : SlotAt(t, k - 1) \in 0 .. INBUFSIZE - 1
  <2> TAKE k \in 1 .. L
  <2>1. k - 1 \in 0 .. INBUFSIZE
      BY <1>1, Size
  <2> QED BY <1>1, <2>1, SlotIs
<1>3. W = [k \in 1 .. L |-> buf[SlotAt(t, k - 1)]]
    BY DEF WindowOf
<1>4. L \in Nat /\ W \in Seq(UpBytes) /\ Len(W) = L
  <2> HIDE DEF L
  <2>1. W \in [1 .. L -> UpBytes]
      BY <1>1, <1>2, <1>3
  <2>2. L \in Nat
      BY <1>1, Size
  <2> HIDE DEF W
  <2> QED BY <2>1, <2>2
<1>5. \A k \in 1 .. L : W[k] = buf[SlotAt(t, k - 1)]
    BY <1>3
<1> QED BY <1>1, <1>4, <1>5

\* The bytes of the stream, by their number.
LEMMA StreamIs ==
    ASSUME NEW buf, NEW h, NEW t, RingOK(buf, h, t), NEW p, NEW rest \in Seq(UpBytes)
    PROVE  LET L == LengthOf(h, t, p)
               S == StreamOf(buf, h, t, p, rest)
           IN  /\ L \in 0 .. INBUFSIZE /\ S \in Seq(UpBytes) /\ Len(S) = L + Len(rest)
               /\ \A k \in 1 .. L : S[k] = buf[SlotAt(t, k - 1)]
               /\ \A k \in 1 .. Len(rest) : S[L + k] = rest[k]
<1> DEFINE L == LengthOf(h, t, p)
           W == WindowOf(buf, h, t, p)
           S == StreamOf(buf, h, t, p, rest)
<1>1. L \in 0 .. INBUFSIZE /\ W \in Seq(UpBytes) /\ Len(W) = L
    BY WindowIs
<1>2. \A k \in 1 .. L : W[k] = buf[SlotAt(t, k - 1)]
    BY WindowIs
<1>3. S = W \o rest
    BY DEF StreamOf
<1> HIDE DEF L, W, S
<1>4. /\ S \in Seq(UpBytes) /\ Len(S) = L + Len(rest)
      /\ \A i \in 1 .. L + Len(rest) : S[i] = IF i <= L THEN W[i] ELSE rest[i - L]
    BY <1>1, <1>3, ConcatProperties
<1>5. L \in Nat /\ Len(rest) \in Nat
    BY <1>1, Size
<1>6. ASSUME NEW k \in 1 .. L PROVE S[k] = buf[SlotAt(t, k - 1)]
  <2>1. k \in 1 .. L + Len(rest) /\ k <= L
      BY <1>5
  <2> QED BY <1>2, <1>4, <2>1
<1>7. ASSUME NEW k \in 1 .. Len(rest) PROVE S[L + k] = rest[k]
  <2>1. L + k \in 1 .. L + Len(rest) /\ ~(L + k <= L) /\ (L + k) - L = k
      BY <1>5
  <2> QED BY <1>4, <2>1
<1> QED BY <1>1, <1>4, <1>6, <1>7 DEF L, S

\* The arithmetic of reading n bytes: the length, and the slots of old and of new bytes.
LEMMA ReadLength ==
    ASSUME NEW h \in 0 .. INBUFSIZE - 1, NEW t \in 0 .. INBUFSIZE - 1, NEW n \in Nat \ {0},
           h + n <= INBUFSIZE, h < t => h + n <= t - 1,
           NEW h2, h2 = IF h + n >= INBUFSIZE THEN 0 ELSE h + n,
           NEW p, p # "reading"
    PROVE  /\ h2 \in 0 .. INBUFSIZE - 1
           /\ LengthOf(h2, t, "reading") = LengthOf(h, t, p) + n
           /\ \A k \in 1 .. LengthOf(h, t, p) : SlotAt(t, k - 1) \notin h .. h + n - 1
           /\ \A k \in 1 .. n : SlotAt(t, LengthOf(h, t, p) + k - 1) = h + k - 1
<1> DEFINE L == LengthOf(h, t, p)
           L2 == LengthOf(h2, t, "reading")
<1>1. INBUFSIZE \in Nat /\ h2 \in 0 .. INBUFSIZE - 1
    BY Size
<1>2. L \in 0 .. INBUFSIZE /\ L = IF h >= t THEN h - t ELSE h - t + INBUFSIZE
    BY <1>1, LengthIs
<1>3. /\ h2 = t => L2 = INBUFSIZE
      /\ h2 > t => L2 = h2 - t
      /\ h2 < t => L2 = h2 - t + INBUFSIZE
    BY <1>1, LengthIs
<1> HIDE DEF L, L2
<1>4. L2 = L + n
    BY <1>1, <1>2, <1>3
<1>5. ASSUME NEW k \in 1 .. L PROVE SlotAt(t, k - 1) \notin h .. h + n - 1
  <2>1. k - 1 \in 0 .. INBUFSIZE
      BY <1>1, <1>2
  <2>2. SlotAt(t, k - 1) = IF t + (k - 1) < INBUFSIZE THEN t + (k - 1) ELSE t + (k - 1) - INBUFSIZE
      BY <2>1, SlotIs
  <2> QED BY <1>1, <1>2, <2>2
<1>6. ASSUME NEW k \in 1 .. n PROVE SlotAt(t, L + k - 1) = h + k - 1
  <2>1. L + k - 1 \in 0 .. INBUFSIZE
      BY <1>1, <1>2
  <2>2. SlotAt(t, L + k - 1)
          = IF t + (L + k - 1) < INBUFSIZE THEN t + (L + k - 1) ELSE t + (L + k - 1) - INBUFSIZE
      BY <2>1, SlotIs
  <2> QED BY <1>1, <1>2, <2>2
<1> QED BY <1>1, <1>4, <1>5, <1>6 DEF L, L2

\* Bytes that are received move from one part of the stream to the other.
Received(buf, h, t, rest, n, buf2, h2) ==
    /\ h + n <= IF h >= t THEN INBUFSIZE ELSE t - 1
    /\ buf2 = [i \in 0 .. INBUFSIZE - 1 |->
                 IF i \in h .. h + n - 1 THEN rest[i - h + 1] ELSE buf[i]]
    /\ h2 = IF h + n >= INBUFSIZE THEN 0 ELSE h + n

\* socketreceiver_read: the stream stays the same.
LEMMA ReadStream ==
    ASSUME NEW buf, NEW h, NEW t, RingOK(buf, h, t), NEW rest \in Seq(UpBytes),
           NEW n \in 1 .. Len(rest), NEW p, p # "reading", NEW buf2, NEW h2,
           Received(buf, h, t, rest, n, buf2, h2)
    PROVE  /\ RingOK(buf2, h2, t)
           /\ SubSeq(rest, n + 1, Len(rest)) \in Seq(UpBytes)
           /\ StreamOf(buf2, h2, t, "reading", SubSeq(rest, n + 1, Len(rest)))
                = StreamOf(buf, h, t, p, rest)
           /\ t > 0 => buf2[t - 1] = buf[t - 1]
<1> DEFINE more == SubSeq(rest, n + 1, Len(rest))
           L == LengthOf(h, t, p)
           L2 == LengthOf(h2, t, "reading")
           S == StreamOf(buf, h, t, p, rest)
           S2 == StreamOf(buf2, h2, t, "reading", more)
<1>0. /\ h + n <= IF h >= t THEN INBUFSIZE ELSE t - 1
      /\ buf2 = [i \in 0 .. INBUFSIZE - 1 |->
                   IF i \in h .. h + n - 1 THEN rest[i - h + 1] ELSE buf[i]]
      /\ h2 = IF h + n >= INBUFSIZE THEN 0 ELSE h + n
    BY DEF Received
<1> USE <1>0
<1>1. /\ h \in 0 .. INBUFSIZE - 1 /\ t \in 0 .. INBUFSIZE - 1
      /\ buf \in [0 .. INBUFSIZE - 1 -> UpBytes] /\ n \in Nat /\ n >= 1 /\ n <= Len(rest)
      /\ INBUFSIZE \in Nat /\ INBUFSIZE > 2 /\ h + n <= INBUFSIZE /\ Len(rest) \in Nat
      /\ h < t => h + n <= t - 1
    BY Size DEF RingOK
<1>2. /\ more \in Seq(UpBytes) /\ Len(more) = Len(rest) - n
      /\ \A i \in 1 .. Len(rest) - n : more[i] = rest[n + i]
    BY <1>1
<1>3. \A i \in 0 .. INBUFSIZE - 1 : i \in h .. h + n - 1 => i - h + 1 \in 1 .. Len(rest)
    BY <1>1
<1>4. RingOK(buf2, h2, t)
  <2>1. \A i \in 1 .. Len(rest) : rest[i] \in UpBytes
      OBVIOUS
  <2>2. buf2 \in [0 .. INBUFSIZE - 1 -> UpBytes]
      BY <1>1, <1>3, <2>1
  <2>3. h2 \in 0 .. INBUFSIZE - 1
      BY <1>1
  <2> QED BY <1>1, <2>2, <2>3 DEF RingOK
<1>5. /\ h2 \in 0 .. INBUFSIZE - 1 /\ L2 = L + n /\ L \in 0 .. INBUFSIZE
      /\ \A k \in 1 .. L : SlotAt(t, k - 1) \notin h .. h + n - 1
      /\ \A k \in 1 .. n : SlotAt(t, L + k - 1) = h + k - 1
  <2>1. n \in Nat \ {0}
      BY <1>1
  <2>2. L \in 0 .. INBUFSIZE
      BY <1>1, LengthIs
  <2> QED BY <1>1, <2>1, <2>2, ReadLength
<1>6. /\ S \in Seq(UpBytes) /\ Len(S) = L + Len(rest)
      /\ \A k \in 1 .. L : S[k] = buf[SlotAt(t, k - 1)]
      /\ \A k \in 1 .. Len(rest) : S[L + k] = rest[k]
    BY StreamIs
<1>7. /\ S2 \in Seq(UpBytes) /\ Len(S2) = L2 + Len(more)
      /\ \A k \in 1 .. L2 : S2[k] = buf2[SlotAt(t, k - 1)]
      /\ \A k \in 1 .. Len(more) : S2[L2 + k] = more[k]
  <2> HIDE DEF more
  <2>1. more \in Seq(UpBytes)
      BY <1>2
  <2>2. LET l == LengthOf(h2, t, "reading")
            s == StreamOf(buf2, h2, t, "reading", more)
        IN  /\ l \in 0 .. INBUFSIZE /\ s \in Seq(UpBytes) /\ Len(s) = l + Len(more)
            /\ \A k \in 1 .. l : s[k] = buf2[SlotAt(t, k - 1)]
            /\ \A k \in 1 .. Len(more) : s[l + k] = more[k]
      BY ONLY <1>4, <2>1, StreamIs
  <2> QED BY <2>2
<1> HIDE DEF S, S2, more, L, L2
<1>8. /\ Len(S2) = Len(S) /\ L \in Nat /\ Len(S) = L + Len(rest) /\ Len(rest) >= n
      /\ L2 = L + n /\ Len(more) = Len(rest) - n
  <2>1. Len(S2) = L2 + Len(more)
      BY <1>7
  <2>2. Len(more) = Len(rest) - n
      BY <1>2
  <2>3. Len(S) = L + Len(rest)
      BY <1>6
  <2>4. L2 = L + n /\ L \in Nat
      BY <1>1, <1>5
  <2>5. Len(rest) >= n /\ Len(rest) \in Nat /\ n \in Nat
      BY <1>1
  <2> QED BY <2>1, <2>2, <2>3, <2>4, <2>5
<1>9. ASSUME NEW k \in 1 .. Len(S) PROVE S2[k] = S[k]
  <2>1. CASE k <= L
    <3>1. k \in 1 .. L /\ k \in 1 .. L2 /\ k - 1 \in 0 .. INBUFSIZE
        BY <1>1, <1>5, <1>8, <2>1
    <3>2. SlotAt(t, k - 1) \in 0 .. INBUFSIZE - 1 /\ SlotAt(t, k - 1) \notin h .. h + n - 1
        BY <1>1, <1>5, <3>1, SlotIs
    <3>3. buf2[SlotAt(t, k - 1)] = buf[SlotAt(t, k - 1)]
        BY <3>2
    <3> QED BY <1>6, <1>7, <3>1, <3>3
  <2>2. CASE k > L /\ k <= L + n
    <3>1. /\ k \in 1 .. L2 /\ k - L \in 1 .. n /\ k - L \in 1 .. Len(rest)
          /\ L + (k - L) = k /\ L + (k - L) - 1 = k - 1
        BY <1>1, <1>5, <1>8, <2>2
    <3>2. SlotAt(t, L + (k - L) - 1) = h + (k - L) - 1
        BY <1>5, <3>1
    <3>3. SlotAt(t, k - 1) = h + (k - L) - 1
        BY <3>1, <3>2
    <3>4. /\ h + (k - L) - 1 \in 0 .. INBUFSIZE - 1 /\ h + (k - L) - 1 \in h .. h + n - 1
          /\ (h + (k - L) - 1) - h + 1 = k - L
      <4> DEFINE i == k - L
      <4>1. i \in 1 .. n
          BY <3>1
      <4>2. h \in Nat /\ n \in Nat /\ h + n <= INBUFSIZE /\ INBUFSIZE \in Nat
          BY ONLY <1>1
      <4> HIDE DEF i
      <4>3. /\ h + i - 1 \in 0 .. INBUFSIZE - 1 /\ h + i - 1 \in h .. h + n - 1
            /\ (h + i - 1) - h + 1 = i
          BY ONLY <4>1, <4>2
      <4> QED BY <4>3 DEF i
    <3>5. buf2[SlotAt(t, k - 1)] = rest[k - L]
        BY <3>3, <3>4
    <3>6. S[L + (k - L)] = rest[k - L]
        BY <1>6, <3>1
    <3> QED BY <1>7, <3>1, <3>5, <3>6
  <2>3. CASE k > L + n
    <3>1. /\ k - L2 \in 1 .. Len(more) /\ L2 + (k - L2) = k /\ n + (k - L2) = k - L
          /\ k - L \in 1 .. Len(rest) /\ L + (k - L) = k
        BY <1>1, <1>8, <2>3
    <3>2. S2[L2 + (k - L2)] = more[k - L2]
        BY <1>7, <3>1
    <3>3. more[k - L2] = rest[n + (k - L2)]
        BY <1>2, <3>1
    <3>4. S[L + (k - L)] = rest[k - L]
        BY <1>6, <3>1
    <3> QED BY <3>1, <3>2, <3>3, <3>4
  <2>4. k <= L \/ (k > L /\ k <= L + n) \/ k > L + n
      BY <1>1, <1>8
  <2> QED BY <2>1, <2>2, <2>3, <2>4
<1>10. S2 = S
    BY <1>6, <1>7, <1>8, <1>9, SeqEqual
<1>11. t > 0 => buf2[t - 1] = buf[t - 1]
    BY <1>1
<1> QED BY <1>2, <1>4, <1>10, <1>11 DEF S, S2, more

\* The arithmetic of taking e bytes out of a ring that is being read.
LEMMA TakeLength ==
    ASSUME NEW h \in 0 .. INBUFSIZE - 1, NEW t \in 0 .. INBUFSIZE - 1,
           NEW e \in 1 .. LengthOf(h, t, "reading"), NEW t2, t2 = SlotAt(t, e),
           NEW p, p = IF t2 = h THEN "idle" ELSE "reading"
    PROVE  /\ t2 \in 0 .. INBUFSIZE - 1
           /\ LengthOf(h, t2, p) = LengthOf(h, t, "reading") - e
           /\ \A k \in 0 .. LengthOf(h, t2, p) - 1 : SlotAt(t2, k) = SlotAt(t, e + k)
<1> DEFINE L == LengthOf(h, t, "reading")
           L2 == LengthOf(h, t2, p)
<1>1. /\ INBUFSIZE \in Nat /\ INBUFSIZE > 0
      /\ L \in 0 .. INBUFSIZE /\ L = IF h > t THEN h - t ELSE h - t + INBUFSIZE
    BY Size, LengthIs
<1>2. e \in 1 .. L
    OBVIOUS
<1> HIDE DEF L
<1>3. e \in 0 .. INBUFSIZE
    BY <1>1, <1>2
<1>4. t2 \in 0 .. INBUFSIZE - 1 /\ t2 = IF t + e < INBUFSIZE THEN t + e ELSE t + e - INBUFSIZE
    BY <1>3, SlotIs
<1>5. /\ t2 = h => L2 = IF p = "reading" THEN INBUFSIZE ELSE 0
      /\ h > t2 => L2 = h - t2
      /\ h < t2 => L2 = h - t2 + INBUFSIZE
    BY <1>4, LengthIs
<1>6. p # "reading" <=> t2 = h
    OBVIOUS
<1> HIDE DEF L2
<1>7. L2 = L - e
    BY <1>1, <1>2, <1>4, <1>5, <1>6
<1>8. ASSUME NEW k \in 0 .. L2 - 1 PROVE SlotAt(t2, k) = SlotAt(t, e + k)
  <2>1. k \in 0 .. INBUFSIZE /\ e + k \in 0 .. INBUFSIZE
      BY <1>1, <1>2, <1>7
  <2>2. SlotAt(t2, k) = IF t2 + k < INBUFSIZE THEN t2 + k ELSE t2 + k - INBUFSIZE
      BY <1>4, <2>1, SlotIs
  <2>3. SlotAt(t, e + k) = IF t + (e + k) < INBUFSIZE THEN t + (e + k) ELSE t + (e + k) - INBUFSIZE
      BY <2>1, SlotIs
  <2> QED BY <1>1, <1>2, <1>4, <1>7, <2>1, <2>2, <2>3
<1> QED BY <1>4, <1>7, <1>8 DEF L, L2

\* What is left when the first e bytes are taken out.
Rest(s, e) == SubSeq(s, e + 1, Len(s))
Start(s, e) == SubSeq(s, 1, e)

\* The two parts of a sequence that is cut.
LEMMA RestIs ==
    ASSUME NEW S, NEW s \in Seq(S), NEW e \in 0 .. Len(s)
    PROVE  /\ Rest(s, e) \in Seq(S) /\ Len(Rest(s, e)) = Len(s) - e
           /\ \A k \in 1 .. Len(s) - e : Rest(s, e)[k] = s[e + k]
           /\ Start(s, e) \in Seq(S) /\ Len(Start(s, e)) = e
           /\ \A k \in 1 .. e : Start(s, e)[k] = s[k]
           /\ s = Start(s, e) \o Rest(s, e)
<1>1. Len(s) \in Nat /\ e \in Nat /\ e <= Len(s) /\ \A k \in 1 .. Len(s) : s[k] \in S
    OBVIOUS
<1>2. /\ Rest(s, e) \in Seq(S) /\ Len(Rest(s, e)) = Len(s) - e
      /\ \A k \in 1 .. Len(s) - e : Rest(s, e)[k] = s[e + k]
    BY <1>1 DEF Rest
<1>3. /\ Start(s, e) \in Seq(S) /\ Len(Start(s, e)) = e
      /\ \A k \in 1 .. e : Start(s, e)[k] = s[k]
    BY <1>1 DEF Start
<1>4. s = Start(s, e) \o Rest(s, e)
  <2>1. /\ Start(s, e) \o Rest(s, e) \in Seq(S)
        /\ Len(Start(s, e) \o Rest(s, e)) = e + (Len(s) - e)
        /\ \A k \in 1 .. e + (Len(s) - e) :
             (Start(s, e) \o Rest(s, e))[k] = IF k <= e THEN Start(s, e)[k] ELSE Rest(s, e)[k - e]
      BY <1>2, <1>3, ConcatProperties
  <2>2. e + (Len(s) - e) = Len(s)
      BY <1>1
  <2> DEFINE u == Start(s, e) \o Rest(s, e)
  <2>3. \A k \in 1 .. Len(s) : u[k] = IF k <= e THEN Start(s, e)[k] ELSE Rest(s, e)[k - e]
      BY <2>1, <2>2
  <2>4. u \in Seq(S) /\ Len(u) = Len(s)
      BY <2>1, <2>2
  <2> HIDE DEF u
  <2>5. ASSUME NEW k \in 1 .. Len(s) PROVE u[k] = s[k]
    <3>1. CASE k <= e
      <4>1. k \in 1 .. e
          BY <1>1, <3>1
      <4> QED BY <1>3, <2>3, <3>1, <4>1
    <3>2. CASE ~(k <= e)
      <4>1. k - e \in 1 .. Len(s) - e /\ e + (k - e) = k
          BY <1>1, <3>2
      <4>2. Rest(s, e)[k - e] = s[e + (k - e)]
          BY <1>2, <4>1
      <4> QED BY <2>3, <3>2, <4>1, <4>2
    <3> QED BY <3>1, <3>2
  <2>6. u = s
      BY <2>4, <2>5, SeqEqual
  <2> QED BY <2>6 DEF u
<1> QED BY <1>2, <1>3, <1>4

\* What socketreceiver_doread takes is missing at the front of the stream.
LEMMA TakeStream ==
    ASSUME NEW buf, NEW h, NEW t, RingOK(buf, h, t), NEW rest \in Seq(UpBytes),
           NEW e \in 1 .. LengthOf(h, t, "reading"), NEW t2, t2 = SlotAt(t, e),
           NEW p, p = IF t2 = h THEN "idle" ELSE "reading"
    PROVE  /\ RingOK(buf, h, t2)
           /\ e <= Len(StreamOf(buf, h, t, "reading", rest))
           /\ StreamOf(buf, h, t2, p, rest) = Rest(StreamOf(buf, h, t, "reading", rest), e)
<1> DEFINE L == LengthOf(h, t, "reading")
           L2 == LengthOf(h, t2, p)
           S == StreamOf(buf, h, t, "reading", rest)
           S2 == StreamOf(buf, h, t2, p, rest)
<1>1. h \in 0 .. INBUFSIZE - 1 /\ t \in 0 .. INBUFSIZE - 1 /\ e \in 1 .. L
    BY DEF RingOK
<1>2. /\ t2 \in 0 .. INBUFSIZE - 1 /\ L2 = L - e
      /\ \A k \in 0 .. L2 - 1 : SlotAt(t2, k) = SlotAt(t, e + k)
    BY <1>1, TakeLength
<1>3. RingOK(buf, h, t2)
    BY <1>2 DEF RingOK
<1>4. /\ L \in 0 .. INBUFSIZE /\ S \in Seq(UpBytes) /\ Len(S) = L + Len(rest)
      /\ \A k \in 1 .. L : S[k] = buf[SlotAt(t, k - 1)]
      /\ \A k \in 1 .. Len(rest) : S[L + k] = rest[k]
    BY StreamIs
<1>5. /\ S2 \in Seq(UpBytes) /\ Len(S2) = L2 + Len(rest)
      /\ \A k \in 1 .. L2 : S2[k] = buf[SlotAt(t2, k - 1)]
      /\ \A k \in 1 .. Len(rest) : S2[L2 + k] = rest[k]
    BY ONLY <1>3, rest \in Seq(UpBytes), StreamIs
<1> HIDE DEF L, L2, S, S2
<1>6. /\ L \in Nat /\ e \in Nat /\ e >= 1 /\ e <= L /\ L2 = L - e /\ Len(rest) \in Nat
      /\ Len(S) = L + Len(rest) /\ Len(S2) = Len(S) - e /\ Len(S2) = L2 + Len(rest)
  <2>1. L \in Nat
      BY <1>4, Size
  <2>2. L2 = L - e /\ e \in Nat /\ e >= 1 /\ e <= L
      BY <1>1, <1>2, <2>1
  <2>3. Len(S) = L + Len(rest) /\ Len(S2) = L2 + Len(rest)
      BY <1>4, <1>5
  <2>4. Len(rest) \in Nat
      OBVIOUS
  <2> QED BY <2>1, <2>2, <2>3, <2>4
<1>7. e \in 0 .. Len(S)
    BY <1>6
<1>8. /\ Rest(S, e) \in Seq(UpBytes) /\ Len(Rest(S, e)) = Len(S) - e
      /\ \A k \in 1 .. Len(S) - e : Rest(S, e)[k] = S[e + k]
    BY <1>4, <1>7, RestIs
<1>9. ASSUME NEW k \in 1 .. Len(S2) PROVE S2[k] = S[e + k]
  <2>1. CASE k <= L2
    <3>1. k \in 1 .. L2 /\ k - 1 \in 0 .. L2 - 1 /\ e + k \in 1 .. L /\ e + (k - 1) = (e + k) - 1
        BY <1>6, <2>1
    <3>2. SlotAt(t2, k - 1) = SlotAt(t, e + (k - 1))
        BY <1>2, <3>1
    <3>3. S[e + k] = buf[SlotAt(t, (e + k) - 1)]
        BY <1>4, <3>1
    <3> QED BY <1>5, <3>1, <3>2, <3>3
  <2>2. CASE k > L2
    <3>1. k - L2 \in 1 .. Len(rest) /\ L2 + (k - L2) = k /\ L + (k - L2) = e + k
        BY <1>6, <2>2
    <3>2. S2[L2 + (k - L2)] = rest[k - L2]
        BY <1>5, <3>1
    <3>3. S[L + (k - L2)] = rest[k - L2]
        BY <1>4, <3>1
    <3> QED BY <3>1, <3>2, <3>3
  <2>3. k <= L2 \/ k > L2
      BY <1>6
  <2> QED BY <2>1, <2>2, <2>3
<1>10. S2 = Rest(S, e)
  <2> DEFINE R == Rest(S, e)
  <2>1. R \in Seq(UpBytes) /\ Len(R) = Len(S2) /\ \A k \in 1 .. Len(S2) : R[k] = S2[k]
      BY <1>6, <1>8, <1>9
  <2>2. S2 \in Seq(UpBytes)
      BY <1>5
  <2> HIDE DEF R
  <2>3. S2 = R
      BY <2>1, <2>2, SeqEqual
  <2> QED BY <2>3 DEF R
<1> QED BY <1>3, <1>7, <1>10 DEF S, S2

\* Where socketreceiver_doread cuts: at unescaped semicolons, and at one at index 0.
IsCut(buf, i) == buf[i] = "semi" /\ (i = 0 \/ buf[i - 1] # "backslash")

\* An unescaped semicolon of the stream is a cut; a cut that is none is at index 0.
LEMMA BoundaryIs ==
    ASSUME NEW buf, NEW h, NEW t, RingOK(buf, h, t), NEW rest \in Seq(UpBytes),
           t > 0 => buf[t - 1] = "semi", NEW k \in 1 .. LengthOf(h, t, "reading"),
           NEW i, i = SlotAt(t, k - 1)
    PROVE  LET S == StreamOf(buf, h, t, "reading", rest)
           IN  /\ Unescaped(S, k) => IsCut(buf, i)
               /\ IsCut(buf, i) => S[k] = "semi"
               /\ IsCut(buf, i) => Unescaped(S, k) \/ (i = 0 /\ k > 1 /\ buf[INBUFSIZE - 1] = "backslash")
               /\ S[k] = buf[i]
<1> DEFINE L == LengthOf(h, t, "reading")
           S == StreamOf(buf, h, t, "reading", rest)
<1>1. /\ L \in 0 .. INBUFSIZE /\ S \in Seq(UpBytes) /\ Len(S) = L + Len(rest)
      /\ \A j \in 1 .. L : S[j] = buf[SlotAt(t, j - 1)]
    BY StreamIs
<1> HIDE DEF S
<1>2. t \in 0 .. INBUFSIZE - 1 /\ k \in 1 .. L /\ INBUFSIZE \in Nat /\ INBUFSIZE > 0
    BY Size DEF RingOK
<1> HIDE DEF L
<1>3. k - 1 \in 0 .. INBUFSIZE /\ k <= INBUFSIZE
    BY <1>1, <1>2
<1>4. i \in 0 .. INBUFSIZE - 1 /\ i = IF t + (k - 1) < INBUFSIZE THEN t + (k - 1) ELSE t + (k - 1) - INBUFSIZE
    BY <1>2, <1>3, SlotIs
<1>5. S[k] = buf[i]
    BY <1>1, <1>2
<1>6. CASE k = 1
  <2>1. i = t
      BY <1>2, <1>4, <1>6
  <2>2. i = 0 \/ buf[i - 1] # "backslash"
      BY <1>4, <2>1
  <2> QED BY <1>5, <1>6, <2>2 DEF Unescaped, S, IsCut
<1>7. CASE k # 1
  <2>1. k - 1 \in 1 .. L /\ (k - 1) - 1 \in 0 .. INBUFSIZE /\ k > 1
      BY <1>1, <1>2, <1>7
  <2>2. S[k - 1] = buf[SlotAt(t, (k - 1) - 1)]
      BY <1>1, <2>1
  <2>3. SlotAt(t, (k - 1) - 1) =
          IF t + ((k - 1) - 1) < INBUFSIZE THEN t + ((k - 1) - 1) ELSE t + ((k - 1) - 1) - INBUFSIZE
      BY <1>2, <2>1, SlotIs
  <2>4. SlotAt(t, (k - 1) - 1) = IF i = 0 THEN INBUFSIZE - 1 ELSE i - 1
    <3>1. k \in Int /\ k > 1 /\ k <= INBUFSIZE /\ t \in Int /\ t >= 0 /\ t < INBUFSIZE
        BY <1>2, <1>3, <1>7, <2>1
    <3>2. i = IF t + (k - 1) < INBUFSIZE THEN t + (k - 1) ELSE t + (k - 1) - INBUFSIZE
        BY <1>4
    <3> QED BY <1>2, <2>3, <3>1, <3>2
  <2>5. S[k - 1] = IF i = 0 THEN buf[INBUFSIZE - 1] ELSE buf[i - 1]
      BY <2>2, <2>4
  <2>6. Unescaped(S, k) <=> S[k] = "semi" /\ S[k - 1] # "backslash"
      BY <1>7 DEF Unescaped
  <2> QED BY <1>5, <2>1, <2>5, <2>6 DEF S, IsCut
<1> QED BY <1>6, <1>7

-----------------------------------------------------------------------------
(* What the GUI sends.                                                     *)

\* An answer to a ping, and a text with the semicolon that pdsend adds.
LEMMA SentIs ==
    /\ Append(<<"p">>, "semi") = PING /\ PING \in Seq(UpBytes)
    /\ \A m \in UserMsgs :
         /\ Append(m, "semi") \in Seq(UpBytes)
         /\ \A k \in 1 .. Len(Append(m, "semi")) : Append(m, "semi")[k] # "p"
<1>1. Append(<<"p">>, "semi") = PING /\ PING \in Seq(UpBytes)
  <2>1. Append(<<"p">>, "semi") = PING
    <3>1. <<"p">> \in Seq(UpBytes) /\ "semi" \in UpBytes
        BY DEF UpBytes
    <3> DEFINE u == Append(<<"p">>, "semi")
    <3>2. u \in Seq(UpBytes) /\ Len(u) = 2 /\ u[1] = "p" /\ u[2] = "semi"
        BY <3>1
    <3>3. PING \in Seq(UpBytes) /\ Len(PING) = 2 /\ PING[1] = "p" /\ PING[2] = "semi"
        BY DEF PING, UpBytes
    <3> HIDE DEF u
    <3>4. \A k \in 1 .. 2 : u[k] = PING[k]
      <4> TAKE k \in 1 .. 2
      <4>1. k = 1 \/ k = 2
          OBVIOUS
      <4> QED BY <3>2, <3>3, <4>1
    <3>5. u = PING
        BY <3>2, <3>3, <3>4, SeqEqual
    <3> QED BY <3>5 DEF u
  <2>2. PING \in Seq(UpBytes)
      BY DEF PING, UpBytes
  <2> QED BY <2>1, <2>2
<1>2. ASSUME NEW m \in UserMsgs
      PROVE  /\ Append(m, "semi") \in Seq(UpBytes)
             /\ \A k \in 1 .. Len(Append(m, "semi")) : Append(m, "semi")[k] # "p"
  <2> DEFINE u == Append(m, "semi")
  <2>1. m \in Seq({"m", "semi", "backslash"})
      BY GuiAssumption
  <2>2. u \in Seq({"m", "semi", "backslash"})
      BY <2>1
  <2> HIDE DEF u
  <2>3. \A k \in 1 .. Len(u) : u[k] \in {"m", "semi", "backslash"}
      BY <2>2
  <2>4. u \in Seq(UpBytes)
      BY <2>2, <2>3 DEF UpBytes
  <2> QED BY <2>3, <2>4 DEF u
<1> QED BY <1>1, <1>2

-----------------------------------------------------------------------------
(* Pings.  Below, d is what is on the way to the GUI, s what is on the way *)
(* back, w is 1 if Pd waits for an answer and b the bytes since the last   *)
(* ping.                                                                   *)

MaxLen(n) == n \in Lens /\ \A k \in Lens : k <= n

\* At most one ping, or its answer, is on the way; the updates that are on the way
\* were drawn before it, and are gone when it has reached the GUI.
Paced(d, s, w, b) ==
    /\ Count(d, "ping") + Count(s, "p") <= w
    /\ w = 0 => Count(d, "u") <= b
    /\ (w = 1 /\ Count(d, "ping") = 0) => Count(d, "u") = 0
    /\ \A j, k \in 1 .. Len(d) : (j < k /\ d[j] = "ping") => d[k] # "u"
    /\ \A n \in Nat : MaxLen(n) => Count(d, "u") <= GUI_BYTESPERPING - 1 + n

\* Unless input was dropped it is exactly one.
Answered(d, s, w) == Count(d, "ping") + Count(s, "p") = w

\* Lengths are positive numbers.
LEMMA Lengths == Lens \subseteq Nat \ {0} /\ GUI_BYTESPERPING \in Nat
    BY GuiAssumption

\* n equal bytes.
LEMMA BytesAre ==
    ASSUME NEW c \in DownBytes, NEW n \in Nat
    PROVE  /\ Bytes(c, n) \in Seq(DownBytes) /\ Len(Bytes(c, n)) = n
           /\ \A k \in 1 .. n : Bytes(c, n)[k] = c
    BY DEF Bytes

\* More bytes behind those on the way to the GUI, none of them a ping.
LEMMA CountMore ==
    ASSUME NEW d \in Seq(DownBytes), NEW c \in {"u", "d"}, NEW n \in Nat
    PROVE  LET e == d \o Bytes(c, n)
           IN  /\ e \in Seq(DownBytes)
               /\ Count(e, "ping") = Count(d, "ping")
               /\ Count(e, "u") = Count(d, "u") + (IF c = "u" THEN n ELSE 0)
               /\ Count(d, "ping") \in Nat /\ Count(d, "u") \in Nat
               /\ Len(e) = Len(d) + n
               /\ \A k \in 1 .. Len(d) + n : e[k] = IF k <= Len(d) THEN d[k] ELSE c
<1>1. c \in DownBytes /\ c # "ping"
    BY DEF DownBytes
<1>2. /\ Bytes(c, n) \in Seq(DownBytes) /\ Len(Bytes(c, n)) = n
      /\ \A k \in 1 .. n : Bytes(c, n)[k] = c
    BY <1>1, BytesAre
<1>3. /\ Count(d \o Bytes(c, n), "ping") = Count(d, "ping") + Count(Bytes(c, n), "ping")
      /\ Count(d \o Bytes(c, n), "u") = Count(d, "u") + Count(Bytes(c, n), "u")
    BY <1>2, CountConcat
<1>4. /\ Count(Bytes(c, n), "ping") = 0
      /\ Count(Bytes(c, n), "u") = IF c = "u" THEN n ELSE 0
    BY <1>1, CountSmall
<1>5. Count(d, "ping") \in Nat /\ Count(d, "u") \in Nat
    BY CountIs
<1> DEFINE e == d \o Bytes(c, n)
<1>6. /\ e \in Seq(DownBytes) /\ Len(e) = Len(d) + n
      /\ \A k \in 1 .. Len(d) + n : e[k] = IF k <= Len(d) THEN d[k] ELSE Bytes(c, n)[k - Len(d)]
    BY <1>2, ConcatProperties
<1> HIDE DEF e
<1>7. ASSUME NEW k \in 1 .. Len(d) + n PROVE e[k] = IF k <= Len(d) THEN d[k] ELSE c
  <2>1. CASE k <= Len(d)
      BY <1>6, <2>1
  <2>2. CASE ~(k <= Len(d))
    <3>1. Len(d) \in Nat /\ k - Len(d) \in 1 .. n
        BY <2>2
    <3> QED BY <1>2, <1>6, <2>2, <3>1
  <2> QED BY <2>1, <2>2
<1>8. Count(e, "ping") = Count(d, "ping")
    BY <1>3, <1>4, <1>5 DEF e
<1>9. Count(e, "u") = Count(d, "u") + (IF c = "u" THEN n ELSE 0)
    BY <1>3, <1>4 DEF e
<1> QED BY <1>5, <1>6, <1>7, <1>8, <1>9 DEF e

\* sys_vgui.
LEMMA PacedDirect ==
    ASSUME NEW d \in Seq(DownBytes), NEW s \in Seq(UpBytes), NEW w \in {0, 1}, NEW b \in Nat,
           Paced(d, s, w, b), NEW n \in Nat
    PROVE  /\ Paced(d \o Bytes("d", n), s, w, b + n)
           /\ Count(d \o Bytes("d", n), "ping") = Count(d, "ping")
<1> DEFINE e == d \o Bytes("d", n)
<1>1. /\ e \in Seq(DownBytes)
      /\ Count(e, "ping") = Count(d, "ping") /\ Count(e, "u") = Count(d, "u")
      /\ Count(d, "ping") \in Nat /\ Count(d, "u") \in Nat
      /\ Len(e) = Len(d) + n
      /\ \A k \in 1 .. Len(d) + n : e[k] = IF k <= Len(d) THEN d[k] ELSE "d"
  <2>1. "d" \in {"u", "d"} /\ "d" # "u"
      OBVIOUS
  <2>2. /\ e \in Seq(DownBytes)
        /\ Count(e, "ping") = Count(d, "ping")
        /\ Count(e, "u") = Count(d, "u") + (IF "d" = "u" THEN n ELSE 0)
        /\ Count(d, "ping") \in Nat /\ Count(d, "u") \in Nat
        /\ Len(e) = Len(d) + n
        /\ \A k \in 1 .. Len(d) + n : e[k] = IF k <= Len(d) THEN d[k] ELSE "d"
      BY <2>1, CountMore
  <2> HIDE DEF e
  <2>3. Count(e, "u") = Count(d, "u")
      BY <2>1, <2>2
  <2> QED BY <2>2, <2>3
<1> HIDE DEF e
<1>2. \A j, k \in 1 .. Len(e) : (j < k /\ e[j] = "ping") => e[k] # "u"
  <2> SUFFICES ASSUME NEW j \in 1 .. Len(e), NEW k \in 1 .. Len(e), j < k, e[j] = "ping", e[k] = "u"
               PROVE  FALSE
      OBVIOUS
  <2>1. Len(d) \in Nat
      OBVIOUS
  <2>2. j <= Len(d) /\ k <= Len(d)
      BY <1>1
  <2>3. j \in 1 .. Len(d) /\ k \in 1 .. Len(d) /\ d[j] = "ping" /\ d[k] = "u"
      BY <1>1, <2>1, <2>2
  <2> QED BY <2>3 DEF Paced
<1>3. w = 0 => Count(d, "u") <= b + n
    BY <1>1 DEF Paced
<1> QED BY <1>1, <1>2, <1>3 DEF Paced, e

\* sys_pretendguibytes.
LEMMA PacedPretend ==
    ASSUME NEW d \in Seq(DownBytes), NEW s, NEW w, NEW b \in Nat, Paced(d, s, w, b), NEW n \in Nat
    PROVE  Paced(d, s, w, b + n)
<1>1. Count(d, "u") \in Nat
    BY CountIs
<1> QED BY <1>1 DEF Paced

\* A ping is sent when none is waited for.
LEMMA PacedPing ==
    ASSUME NEW d \in Seq(DownBytes), NEW s \in Seq(UpBytes), NEW b \in Nat, Paced(d, s, 0, b)
    PROVE  /\ Paced(Append(d, "ping"), s, 1, 0)
           /\ Count(Append(d, "ping"), "ping") = Count(d, "ping") + 1
<1> DEFINE e == Append(d, "ping")
<1>1. "ping" \in DownBytes /\ <<"ping">> \in Seq(DownBytes)
    BY DEF DownBytes
<1>2. /\ e \in Seq(DownBytes) /\ Len(e) = Len(d) + 1
      /\ \A i \in 1 .. Len(d) : e[i] = d[i]
      /\ e[Len(d) + 1] = "ping" /\ e = d \o <<"ping">>
    BY <1>1, AppendProperties, AppendIsConcat
<1>3. /\ Count(e, "ping") = Count(d, "ping") + Count(<<"ping">>, "ping")
      /\ Count(e, "u") = Count(d, "u") + Count(<<"ping">>, "u")
  <2>1. /\ Count(d \o <<"ping">>, "ping") = Count(d, "ping") + Count(<<"ping">>, "ping")
        /\ Count(d \o <<"ping">>, "u") = Count(d, "u") + Count(<<"ping">>, "u")
      BY <1>1, CountConcat
  <2>2. e = d \o <<"ping">>
      BY <1>2
  <2> HIDE DEF e
  <2> QED BY <2>1, <2>2, Zenon
<1> HIDE DEF e
<1>4. Count(<<"ping">>, "ping") = 1 /\ Count(<<"ping">>, "u") = 0
    BY CountSmall
<1>5. Count(d, "ping") \in Nat /\ Count(d, "u") \in Nat /\ Count(s, "p") \in Nat
    BY CountIs
<1>6. /\ Count(e, "ping") = Count(d, "ping") + 1 /\ Count(e, "u") = Count(d, "u")
      /\ Count(d, "ping") = 0 /\ Count(s, "p") = 0
    BY <1>3, <1>4, <1>5 DEF Paced
<1>7. \A j \in 1 .. Len(d) : d[j] # "ping"
    BY <1>6, CountIs
<1>8. \A j, k \in 1 .. Len(e) : (j < k /\ e[j] = "ping") => e[k] # "u"
    BY <1>2, <1>7
<1>9. Count(e, "ping") + Count(s, "p") <= 1 /\ Count(e, "ping") = 1
    BY <1>6
<1>10. \A n \in Nat : MaxLen(n) => Count(e, "u") <= GUI_BYTESPERPING - 1 + n
    BY <1>6 DEF Paced
<1>11. Paced(e, s, 1, 0)
    BY <1>8, <1>9, <1>10 DEF Paced
<1> QED BY <1>6, <1>11 DEF e

\* An update is drawn: at most the bytes up to the next ping, and those of one update.
LEMMA PacedUpdate ==
    ASSUME NEW d \in Seq(DownBytes), NEW s \in Seq(UpBytes), NEW b \in Nat, Paced(d, s, 0, b),
           b < GUI_BYTESPERPING, NEW n \in Lens
    PROVE  /\ Paced(d \o Bytes("u", n), s, 0, b + n)
           /\ Count(d \o Bytes("u", n), "ping") = Count(d, "ping")
<1> DEFINE e == d \o Bytes("u", n)
<1>0. n \in Nat
    BY Lengths
<1>1. /\ e \in Seq(DownBytes)
      /\ Count(e, "ping") = Count(d, "ping") /\ Count(e, "u") = Count(d, "u") + n
      /\ Count(d, "ping") \in Nat /\ Count(d, "u") \in Nat
    BY <1>0, CountMore
<1>2. Count(s, "p") \in Nat
    BY CountIs
<1>3. Count(d, "ping") = 0 /\ Count(d, "u") <= b
    BY <1>1, <1>2 DEF Paced
<1> HIDE DEF e
<1>4. \A j \in 1 .. Len(e) : e[j] # "ping"
    BY <1>1, <1>3, CountIs
<1>5. ASSUME NEW k \in Nat, MaxLen(k) PROVE Count(e, "u") <= GUI_BYTESPERPING - 1 + k
  <2>1. n <= k
      BY <1>5 DEF MaxLen
  <2> QED BY <1>0, <1>1, <1>3, <2>1, Lengths
<1>6. Count(e, "u") <= b + n
    BY <1>0, <1>1, <1>3
<1>7. Count(e, "ping") + Count(s, "p") <= 0
    BY <1>1 DEF Paced
<1> QED BY <1>1, <1>4, <1>5, <1>6, <1>7 DEF Paced, e

\* One byte reaches the GUI; it answers a ping.
LEMMA CountTail ==
    ASSUME NEW d \in Seq(DownBytes), d # <<>>, NEW c
    PROVE  /\ Tail(d) \in Seq(DownBytes) /\ Count(Tail(d), c) \in Nat
           /\ Count(d, c) = (IF Head(d) = c THEN 1 ELSE 0) + Count(Tail(d), c)
<1>1. Head(d) \in DownBytes /\ Tail(d) \in Seq(DownBytes) /\ <<Head(d)>> \in Seq(DownBytes)
    OBVIOUS
<1>2. d = <<Head(d)>> \o Tail(d)
    OBVIOUS
<1>3. Count(<<Head(d)>> \o Tail(d), c) = Count(<<Head(d)>>, c) + Count(Tail(d), c)
    BY <1>1, CountConcat
<1>4. Count(<<Head(d)>>, c) = IF Head(d) = c THEN 1 ELSE 0
    BY CountSmall
<1>5. Count(Tail(d), c) \in Nat
    BY <1>1, CountIs
<1> QED BY <1>1, <1>2, <1>3, <1>4, <1>5

\* The GUI takes a byte, and answers if it is a ping.
LEMMA PacedHandle ==
    ASSUME NEW d \in Seq(DownBytes), d # <<>>, NEW s \in Seq(UpBytes), NEW w \in {0, 1}, NEW b \in Nat,
           Paced(d, s, w, b),
           NEW r \in Seq(UpBytes), Count(r, "p") = Count(s, "p") + (IF Head(d) = "ping" THEN 1 ELSE 0)
    PROVE  /\ Paced(Tail(d), r, w, b)
           /\ Count(Tail(d), "ping") + Count(r, "p") = Count(d, "ping") + Count(s, "p")
<1> DEFINE e == Tail(d)
<1>1. /\ e \in Seq(DownBytes) /\ Len(e) = Len(d) - 1 /\ Len(d) \in Nat /\ Len(d) > 0
      /\ \A k \in 1 .. Len(d) - 1 : e[k] = d[k + 1]
    OBVIOUS
<1>2. /\ Count(d, "ping") = (IF Head(d) = "ping" THEN 1 ELSE 0) + Count(e, "ping")
      /\ Count(d, "u") = (IF Head(d) = "u" THEN 1 ELSE 0) + Count(e, "u")
      /\ Count(e, "ping") \in Nat /\ Count(e, "u") \in Nat
    BY CountTail
<1>3. Count(s, "p") \in Nat /\ d[1] = Head(d)
    BY CountIs
<1> HIDE DEF e
<1>4. Count(e, "ping") + Count(r, "p") = Count(d, "ping") + Count(s, "p")
    BY <1>2, <1>3
<1>5. \A j, k \in 1 .. Len(e) : (j < k /\ e[j] = "ping") => e[k] # "u"
  <2> SUFFICES ASSUME NEW j \in 1 .. Len(e), NEW k \in 1 .. Len(e), j < k, e[j] = "ping", e[k] = "u"
               PROVE  FALSE
      OBVIOUS
  <2>1. /\ j + 1 \in 1 .. Len(d) /\ k + 1 \in 1 .. Len(d) /\ j + 1 < k + 1
        /\ d[j + 1] = "ping" /\ d[k + 1] = "u"
      BY <1>1
  <2> QED BY <2>1 DEF Paced
<1>6. (w = 1 /\ Count(e, "ping") = 0) => Count(e, "u") = 0
  <2>1. CASE Head(d) = "ping"
    <3>1. ASSUME NEW k \in 1 .. Len(e) PROVE e[k] # "u"
      <4>1. 1 \in 1 .. Len(d) /\ k + 1 \in 1 .. Len(d) /\ 1 < k + 1 /\ e[k] = d[k + 1]
          BY <1>1
      <4>2. d[1] = "ping"
          BY <1>3, <2>1
      <4> QED BY <4>1, <4>2 DEF Paced
    <3> QED BY <1>1, <3>1, CountIs
  <2>2. CASE Head(d) # "ping"
    <3>1. (w = 1 /\ Count(d, "ping") = 0) => Count(d, "u") = 0
        BY DEF Paced
    <3>2. Count(e, "ping") = Count(d, "ping")
        BY <1>2, <2>2
    <3>3. Count(d, "u") = 0 => Count(e, "u") = 0
      <4>1. Count(d, "u") = Count(e, "u") \/ Count(d, "u") = 1 + Count(e, "u")
          BY <1>2
      <4> QED BY <1>2, <4>1
    <3> QED BY <3>1, <3>2, <3>3
  <2> QED BY <2>1, <2>2
<1>7. Count(e, "u") <= Count(d, "u") /\ Count(d, "u") \in Nat
    BY <1>2
<1>8. w = 0 => Count(e, "u") <= b
  <2>1. w = 0 => Count(d, "u") <= b
      BY DEF Paced
  <2> QED BY <1>2, <1>7, <2>1
<1>9. \A n \in Nat : MaxLen(n) => Count(e, "u") <= GUI_BYTESPERPING - 1 + n
  <2> TAKE n \in Nat
  <2>1. MaxLen(n) => Count(d, "u") <= GUI_BYTESPERPING - 1 + n
      BY DEF Paced
  <2> QED BY <1>2, <1>7, <2>1, Lengths
<1>10. Count(e, "ping") + Count(r, "p") <= w
    BY <1>4 DEF Paced
<1> QED BY <1>4, <1>5, <1>6, <1>8, <1>9, <1>10 DEF Paced, e

\* The counts of the parts of a stream.
LEMMA CountParts ==
    ASSUME NEW s \in Seq(UpBytes), NEW e \in 0 .. Len(s)
    PROVE  /\ Count(s, "p") = Count(Start(s, e), "p") + Count(Rest(s, e), "p")
           /\ Count(Start(s, e), "p") \in Nat /\ Count(Rest(s, e), "p") \in Nat
<1>1. Start(s, e) \in Seq(UpBytes) /\ Rest(s, e) \in Seq(UpBytes) /\ s = Start(s, e) \o Rest(s, e)
    BY RestIs
<1>2. Count(Start(s, e) \o Rest(s, e), "p") = Count(Start(s, e), "p") + Count(Rest(s, e), "p")
    BY <1>1, CountConcat
<1> QED BY <1>1, <1>2, CountIs

\* Bytes that are lost, or evaluated.
LEMMA PacedRest ==
    ASSUME NEW d \in Seq(DownBytes), NEW s \in Seq(UpBytes), NEW w, NEW b, w \in {0, 1},
           Paced(d, s, w, b), NEW e \in 0 .. Len(s)
    PROVE  Paced(d, Rest(s, e), w, b)
<1>1. /\ Count(s, "p") = Count(Start(s, e), "p") + Count(Rest(s, e), "p")
      /\ Count(Start(s, e), "p") \in Nat /\ Count(Rest(s, e), "p") \in Nat
    BY CountParts
<1>2. Count(d, "ping") \in Nat
    BY CountIs
<1>3. Count(d, "ping") + Count(Rest(s, e), "p") <= w
  <2>1. Count(d, "ping") + Count(s, "p") <= w
      BY DEF Paced
  <2> QED BY <1>1, <1>2, <2>1
<1> QED BY <1>3 DEF Paced

\* An answer is evaluated: it was waited for, and no update is on the way.
LEMMA PacedAnswer ==
    ASSUME NEW d \in Seq(DownBytes), NEW s \in Seq(UpBytes), NEW w \in {0, 1}, NEW b \in Nat,
           Paced(d, s, w, b), NEW e \in 0 .. Len(s), Start(s, e) = PING
    PROVE  w = 1 /\ Paced(d, Rest(s, e), 0, b)
<1>1. Count(s, "p") = 1 + Count(Rest(s, e), "p") /\ Count(Rest(s, e), "p") \in Nat
    BY CountParts, CountPing
<1>2. Count(d, "ping") \in Nat /\ Count(d, "u") \in Nat
    BY CountIs
<1>3. Count(d, "ping") + Count(s, "p") <= w
    BY DEF Paced
<1>4. w = 1 /\ Count(d, "ping") = 0 /\ Count(Rest(s, e), "p") = 0
    BY <1>1, <1>2, <1>3
<1>5. Count(d, "u") = 0
    BY <1>4 DEF Paced
<1> QED BY <1>4, <1>5 DEF Paced

\* A message that is evaluated takes an answer with it if one is in it.
LEMMA AnsweredRest ==
    ASSUME NEW d \in Seq(DownBytes), NEW s \in Seq(UpBytes), NEW w \in {0, 1}, Answered(d, s, w),
           NEW e \in 0 .. Len(s)
    PROVE  /\ Start(s, e) = PING => w = 1 /\ Answered(d, Rest(s, e), 0)
           /\ (\E k \in 1 .. Len(Start(s, e)) : Start(s, e)[k] = "p")
                => w = 1 /\ Answered(d, Rest(s, e), 0)
           /\ ~(\E k \in 1 .. Len(Start(s, e)) : Start(s, e)[k] = "p") => Answered(d, Rest(s, e), w)
<1> DEFINE m == Start(s, e)
           r == Rest(s, e)
<1>1. /\ Count(s, "p") = Count(m, "p") + Count(r, "p")
      /\ Count(m, "p") \in Nat /\ Count(r, "p") \in Nat
    BY CountParts
<1>2. m \in Seq(UpBytes)
    BY RestIs
<1>3. Count(d, "ping") \in Nat
    BY CountIs
<1>4. Count(d, "ping") + Count(s, "p") = w
    BY DEF Answered
<1>5. Count(m, "p") = 0 <=> \A k \in 1 .. Len(m) : m[k] # "p"
    BY <1>2, CountIs
<1>6. m = PING => Count(m, "p") = 1
    BY CountPing
<1> HIDE DEF m, r
<1>7. Count(m, "p") # 0 => w = 1 /\ Count(d, "ping") + Count(r, "p") = 0
    BY <1>1, <1>3, <1>4
<1>8. Count(m, "p") = 0 => Count(d, "ping") + Count(r, "p") = w
    BY <1>1, <1>3, <1>4
<1> QED BY <1>5, <1>6, <1>7, <1>8 DEF Answered, m, r

\* What the GUI sends holds an answer if it is one.
LEMMA CountMessage ==
    ASSUME NEW s \in Seq(UpBytes)
    PROVE  /\ s \o PING \in Seq(UpBytes) /\ Count(s \o PING, "p") = Count(s, "p") + 1
           /\ \A m \in UserMsgs :
                s \o Append(m, "semi") \in Seq(UpBytes) /\ Count(s \o Append(m, "semi"), "p") = Count(s, "p")
<1>1. s \o PING \in Seq(UpBytes) /\ Count(s \o PING, "p") = Count(s, "p") + 1
    BY SentIs, CountConcat, CountPing, ConcatProperties
<1>2. ASSUME NEW m \in UserMsgs
      PROVE  s \o Append(m, "semi") \in Seq(UpBytes) /\ Count(s \o Append(m, "semi"), "p") = Count(s, "p")
  <2> DEFINE u == Append(m, "semi")
  <2>1. u \in Seq(UpBytes) /\ \A k \in 1 .. Len(u) : u[k] # "p"
      BY SentIs
  <2> HIDE DEF u
  <2>2. Count(u, "p") = 0 /\ Count(s, "p") \in Nat
      BY <2>1, CountIs
  <2>3. Count(s \o u, "p") = Count(s, "p") + Count(u, "p")
      BY <2>1, CountConcat
  <2> QED BY <2>1, <2>2, <2>3, ConcatProperties DEF u
<1> QED BY <1>1, <1>2

\* The first bytes on the way to the GUI are not evaluated.
LEMMA PacedDrop ==
    ASSUME NEW d \in Seq(DownBytes), NEW s \in Seq(UpBytes), NEW w \in {0, 1}, NEW b \in Nat,
           Paced(d, s, w, b), NEW n \in 0 .. Len(d)
    PROVE  Paced(Rest(d, n), s, w, b)
<1> DEFINE e == Rest(d, n)
           m == Start(d, n)
<1>1. /\ e \in Seq(DownBytes) /\ Len(e) = Len(d) - n /\ Len(d) \in Nat /\ n \in Nat /\ n <= Len(d)
      /\ \A k \in 1 .. Len(d) - n : e[k] = d[n + k]
      /\ m \in Seq(DownBytes) /\ Len(m) = n /\ \A k \in 1 .. n : m[k] = d[k]
      /\ d = m \o e
  <2>1. n \in 0 .. Len(d) /\ Len(d) \in Nat
      OBVIOUS
  <2>2. n \in Nat /\ n <= Len(d)
      BY <2>1
  <2>3. /\ e \in Seq(DownBytes) /\ Len(e) = Len(d) - n
        /\ \A k \in 1 .. Len(d) - n : e[k] = d[n + k]
        /\ m \in Seq(DownBytes) /\ Len(m) = n /\ \A k \in 1 .. n : m[k] = d[k]
        /\ d = m \o e
      BY <2>1, RestIs
  <2> HIDE DEF e, m
  <2> QED BY <2>1, <2>2, <2>3
<1> HIDE DEF e, m
<1>2. /\ Count(d, "ping") = Count(m, "ping") + Count(e, "ping")
      /\ Count(d, "u") = Count(m, "u") + Count(e, "u")
    BY <1>1, CountConcat
<1>3. /\ Count(m, "ping") \in Nat /\ Count(e, "ping") \in Nat /\ Count(d, "ping") \in Nat
      /\ Count(m, "u") \in Nat /\ Count(e, "u") \in Nat /\ Count(d, "u") \in Nat
      /\ Count(s, "p") \in Nat
    BY <1>1, CountIs
<1>4. Count(e, "ping") + Count(s, "p") <= w
  <2>1. Count(d, "ping") + Count(s, "p") <= w
      BY DEF Paced
  <2> DEFINE x == Count(m, "ping")
             y == Count(e, "ping")
             z == Count(d, "ping")
             p == Count(s, "p")
  <2>2. z = x + y /\ x \in Nat /\ y \in Nat /\ z \in Nat /\ p \in Nat /\ z + p <= w /\ w \in Int
      BY <1>2, <1>3, <2>1
  <2> HIDE DEF x, y, z, p
  <2>3. y + p <= w
      BY <2>2
  <2> QED BY <2>3 DEF y, p
<1>5. w = 0 => Count(e, "u") <= b
  <2>1. w = 0 => Count(d, "u") <= b
      BY DEF Paced
  <2> QED BY <1>2, <1>3, <2>1
<1>6. ASSUME NEW j \in 1 .. Len(e), NEW k \in 1 .. Len(e), j < k, e[j] = "ping" PROVE e[k] # "u"
  <2>1. n + j \in 1 .. Len(d) /\ n + k \in 1 .. Len(d) /\ n + j < n + k
      BY <1>1, <1>6
  <2>2. d[n + j] = "ping" /\ e[k] = d[n + k]
      BY <1>1, <1>6
  <2> QED BY <2>1, <2>2 DEF Paced
<1>7. (w = 1 /\ Count(e, "ping") = 0) => Count(e, "u") = 0
  <2> SUFFICES ASSUME w = 1, Count(e, "ping") = 0 PROVE Count(e, "u") = 0
      OBVIOUS
  <2>1. CASE Count(m, "ping") = 0
    <3>1. Count(d, "ping") = 0
        BY <1>2, <1>3, <2>1
    <3>2. Count(d, "u") = 0
        BY <3>1 DEF Paced
    <3> QED BY <1>2, <1>3, <3>2
  <2>2. CASE Count(m, "ping") # 0
    <3>1. PICK j \in 1 .. n : d[j] = "ping"
        BY <1>1, <2>2, CountIs
    <3>2. ASSUME NEW k \in 1 .. Len(e) PROVE e[k] # "u"
      <4>1. j \in 1 .. Len(d) /\ n + k \in 1 .. Len(d) /\ j < n + k /\ e[k] = d[n + k]
          BY <1>1
      <4> QED BY <3>1, <4>1 DEF Paced
    <3> QED BY <1>1, <3>2, CountIs
  <2> QED BY <2>1, <2>2
<1>8. \A i \in Nat : MaxLen(i) => Count(e, "u") <= GUI_BYTESPERPING - 1 + i
  <2> TAKE i \in Nat
  <2>1. MaxLen(i) => Count(d, "u") <= GUI_BYTESPERPING - 1 + i
      BY DEF Paced
  <2> DEFINE x == Count(m, "u")
             y == Count(e, "u")
             z == Count(d, "u")
  <2>2. z = x + y /\ x \in Nat /\ y \in Nat /\ z \in Nat /\ (MaxLen(i) => z <= GUI_BYTESPERPING - 1 + i)
      BY <1>2, <1>3, <2>1
  <2> HIDE DEF x, y, z
  <2>3. MaxLen(i) => y <= GUI_BYTESPERPING - 1 + i
      BY <2>2, Lengths
  <2> QED BY <2>3 DEF y
<1> QED BY <1>4, <1>5, <1>6, <1>7, <1>8 DEF Paced, e

\* A ping among them is lost.
LEMMA AnsweredDrop ==
    ASSUME NEW d \in Seq(DownBytes), NEW s \in Seq(UpBytes), NEW w \in {0, 1}, Answered(d, s, w),
           NEW n \in 0 .. Len(d)
    PROVE  /\ (\E k \in 1 .. n : d[k] = "ping") => w = 1 /\ Answered(Rest(d, n), s, 0)
           /\ ~(\E k \in 1 .. n : d[k] = "ping") => Answered(Rest(d, n), s, w)
<1> DEFINE e == Rest(d, n)
           m == Start(d, n)
<1>1. /\ e \in Seq(DownBytes) /\ n \in Nat
      /\ m \in Seq(DownBytes) /\ Len(m) = n /\ \A k \in 1 .. n : m[k] = d[k]
      /\ d = m \o e
  <2>1. n \in 0 .. Len(d) /\ Len(d) \in Nat
      OBVIOUS
  <2>2. n \in Nat /\ n <= Len(d)
      BY <2>1
  <2>3. /\ e \in Seq(DownBytes) /\ Len(e) = Len(d) - n
        /\ \A k \in 1 .. Len(d) - n : e[k] = d[n + k]
        /\ m \in Seq(DownBytes) /\ Len(m) = n /\ \A k \in 1 .. n : m[k] = d[k]
        /\ d = m \o e
      BY <2>1, RestIs
  <2> HIDE DEF e, m
  <2> QED BY <2>1, <2>2, <2>3
<1> HIDE DEF e, m
<1>2. Count(d, "ping") = Count(m, "ping") + Count(e, "ping")
    BY <1>1, CountConcat
<1>3. /\ Count(m, "ping") \in Nat /\ Count(e, "ping") \in Nat /\ Count(s, "p") \in Nat
      /\ Count(m, "ping") = 0 <=> \A k \in 1 .. n : d[k] # "ping"
    BY <1>1, CountIs
<1>4. Count(d, "ping") + Count(s, "p") = w
    BY DEF Answered
<1>5. Count(m, "ping") # 0 => w = 1 /\ Count(e, "ping") + Count(s, "p") = 0
    BY <1>2, <1>3, <1>4
<1>6. Count(m, "ping") = 0 => Count(e, "ping") + Count(s, "p") = w
    BY <1>2, <1>3, <1>4
<1> QED BY <1>3, <1>5, <1>6 DEF Answered, e

-----------------------------------------------------------------------------
(* The invariant.                                                          *)

Waits == IF waitingforping THEN 1 ELSE 0

\* What is still to come of it.
Due == IF waitingforping /\ ~dropped THEN 1 ELSE 0

Types ==
    /\ guibuf \in Seq(DownBytes) /\ togui \in Seq(DownBytes) /\ topd \in Seq(UpBytes)
    /\ RingOK(inbuf, inhead, intail)
    /\ bytessincelastping \in Nat /\ waitingforping \in BOOLEAN /\ sent \in Seq(UpBytes)

\* Before the bytes that are left of a message there is the end of another.
Behind == intail > 0 => inbuf[intail - 1] = "semi"

\* Nothing is drawn while an answer is waited for.
Quiet == pd = "flushing" => ~waitingforping

Pacing == ~doubled => Paced(Down, Stream, Waits, bytessincelastping)
Answers == (~lost /\ ~doubled) => Answered(Down, Stream, Due) /\ (dropped => waitingforping)
Order == (~lost /\ ~straddled) => Stream = sent /\ ~garbled

Core == Types /\ Behind /\ Quiet /\ Pacing /\ Answers /\ Order
Queue == guiqueue \in Seq(Clients) /\ QueueExact
IInv == Core /\ Queue

\* The types of what the invariant is about.
LEMMA Facts ==
    ASSUME Core
    PROVE  /\ Down \in Seq(DownBytes) /\ Stream \in Seq(UpBytes) /\ Waits \in {0, 1} /\ Due \in {0, 1}
           /\ bytessincelastping \in Nat /\ guibuf \in Seq(DownBytes) /\ togui \in Seq(DownBytes)
           /\ topd \in Seq(UpBytes) /\ RingOK(inbuf, inhead, intail) /\ sent \in Seq(UpBytes)
           /\ ~doubled => Paced(Down, Stream, Waits, bytessincelastping)
           /\ (~lost /\ ~doubled) => Answered(Down, Stream, Due) /\ (dropped => waitingforping)
<1>1. Types /\ Pacing /\ Answers
    BY DEF Core
<1>2. Down \in Seq(DownBytes)
    BY <1>1, ConcatProperties DEF Types, Down
<1>3. Stream \in Seq(UpBytes)
    BY <1>1, StreamIs DEF Types, Stream
<1> QED BY <1>1, <1>2, <1>3 DEF Types, Pacing, Answers, Waits, Due

\* An answer that is to come is waited for, and not lost.
LEMMA DueIs == Due = 1 => waitingforping /\ ~dropped
    BY DEF Due

\* A step that leaves what comes from the GUI alone.
UpSame ==
    /\ UNCHANGED <<inbuf, inhead, intail, topd, sent, lost, dropped, doubled, straddled, garbled>>
    /\ pd = "reading" <=> pd' = "reading"

\* Where the reader is matters only to a full ring.
LEMMA StreamSame ==
    ASSUME UpSame
    PROVE  Stream' = Stream
<1>1. inbuf' = inbuf /\ inhead' = inhead /\ intail' = intail /\ topd' = topd
    BY DEF UpSame
<1>2. LengthOf(inhead, intail, pd') = LengthOf(inhead, intail, pd)
    BY DEF UpSame, LengthOf
<1>3. WindowOf(inbuf, inhead, intail, pd') = WindowOf(inbuf, inhead, intail, pd)
    BY <1>2 DEF WindowOf
<1>4. StreamOf(inbuf, inhead, intail, pd', topd) = StreamOf(inbuf, inhead, intail, pd, topd)
    BY <1>3 DEF StreamOf
<1>5. Stream' = StreamOf(inbuf', inhead', intail', pd', topd')
    BY DEF Stream
<1> QED BY <1>1, <1>4, <1>5 DEF Stream

\* A step that changes what goes to the GUI: what is left to show.
LEMMA DownStep ==
    ASSUME Core, UpSame, guibuf' \in Seq(DownBytes), togui' \in Seq(DownBytes),
           bytessincelastping' \in Nat, waitingforping' \in BOOLEAN, Quiet',
           ~doubled => Paced(Down', Stream, Waits', bytessincelastping'),
           (~lost /\ ~doubled) => Answered(Down', Stream, Due'), waitingforping => waitingforping'
    PROVE  Core'
<1>1. Stream' = Stream
    BY StreamSame
<1>2. Types /\ Behind /\ Answers /\ Order
    BY DEF Core
<1>3. /\ inbuf' = inbuf /\ inhead' = inhead /\ intail' = intail /\ topd' = topd /\ sent' = sent
      /\ lost' = lost /\ straddled' = straddled /\ garbled' = garbled
      /\ dropped' = dropped /\ doubled' = doubled
    BY DEF UpSame
<1>4. Types'
    BY <1>2, <1>3 DEF Types
<1>5. Behind'
    BY <1>2, <1>3 DEF Behind
<1>6. Pacing'
    BY <1>1, <1>3 DEF Pacing
<1>7. Answers'
    BY <1>1, <1>2, <1>3 DEF Answers
<1>8. Order'
    BY <1>1, <1>2, <1>3 DEF Order
<1> QED BY <1>4, <1>5, <1>6, <1>7, <1>8 DEF Core

\* It changes neither the pings on the way nor the waiting for them.
LEMMA DownAnswered ==
    ASSUME Core, UpSame, waitingforping' = waitingforping,
           ~doubled => Count(Down', "ping") = Count(Down, "ping")
    PROVE  (~lost /\ ~doubled) => Answered(Down', Stream, Due')
<1>1. Due' = Due
    BY DEF Due, UpSame
<1>2. (~lost /\ ~doubled) => Answered(Down, Stream, Due)
    BY Facts
<1> QED BY <1>1, <1>2 DEF Answered

\* A step that changes neither what is on the way nor what is counted.
LEMMA DownSame ==
    ASSUME Core, UpSame, UNCHANGED <<bytessincelastping, waitingforping>>,
           guibuf' \in Seq(DownBytes), togui' \in Seq(DownBytes), Down' = Down,
           pd' = "flushing" => ~waitingforping
    PROVE  Core'
<1>1. bytessincelastping' = bytessincelastping /\ waitingforping' = waitingforping
    OBVIOUS
<1>2. Waits' = Waits
    BY <1>1 DEF Waits
<1>3. bytessincelastping' \in Nat /\ waitingforping' \in BOOLEAN
    BY <1>1 DEF Core, Types
<1>4. Quiet'
    BY <1>1 DEF Quiet
<1>5. ~doubled => Paced(Down', Stream, Waits', bytessincelastping')
    BY <1>1, <1>2 DEF Core, Pacing
<1>6. (~lost /\ ~doubled) => Answered(Down', Stream, Due')
    BY <1>1, DownAnswered
<1> QED BY <1>1, <1>3, <1>4, <1>5, <1>6, DownStep

-----------------------------------------------------------------------------
(* What goes down to the GUI.                                              *)

\* sys_vgui.
LEMMA StepVgui ==
    ASSUME Core, NEW n \in Lens, sys_vgui(n)
    PROVE  Core'
<1>1. /\ guibuf' = guibuf \o Bytes("d", n) /\ bytessincelastping' = bytessincelastping + n
      /\ togui' = togui /\ waitingforping' = waitingforping /\ pd' = pd
      /\ UpSame
    BY DEF sys_vgui, UpSame, ring, history, replies, pings
<1>2. n \in Nat
    BY Lengths
<1>3. "d" \in DownBytes
    BY DEF DownBytes
<1>4. Bytes("d", n) \in Seq(DownBytes)
    BY <1>2, <1>3, BytesAre
<1>5. guibuf' \in Seq(DownBytes) /\ Down' = Down \o Bytes("d", n)
  <2>1. (togui \o guibuf) \o Bytes("d", n) = togui \o (guibuf \o Bytes("d", n))
    <3> DEFINE x == Bytes("d", n)
    <3>1. togui \in Seq(DownBytes) /\ guibuf \in Seq(DownBytes) /\ x \in Seq(DownBytes)
        BY <1>4, Facts
    <3> HIDE DEF x
    <3>2. (togui \o guibuf) \o x = togui \o (guibuf \o x)
        BY <3>1, ConcatAssociative
    <3> QED BY <3>2 DEF x
  <2>2. Down' = togui' \o guibuf'
      BY DEF Down
  <2> QED BY <1>1, <1>4, <2>1, <2>2, Facts, ConcatProperties DEF Down
<1>6. ASSUME ~doubled
      PROVE  /\ Paced(Down \o Bytes("d", n), Stream, Waits, bytessincelastping + n)
             /\ Count(Down \o Bytes("d", n), "ping") = Count(Down, "ping")
    BY <1>2, <1>6, Facts, PacedDirect
<1>7. Waits' = Waits
    BY <1>1 DEF Waits
<1>8. /\ bytessincelastping' \in Nat /\ waitingforping' \in BOOLEAN /\ togui' \in Seq(DownBytes)
      /\ Quiet'
    BY <1>1, <1>2 DEF Core, Types, Quiet
<1>9. ~doubled => /\ Paced(Down', Stream, Waits', bytessincelastping')
                  /\ Count(Down', "ping") = Count(Down, "ping")
    BY <1>1, <1>5, <1>6, <1>7, Zenon
<1>10. (~lost /\ ~doubled) => Answered(Down', Stream, Due')
    BY <1>1, <1>9, DownAnswered
<1> QED BY <1>1, <1>5, <1>8, <1>9, <1>10, DownStep

\* sys_pretendguibytes.
LEMMA StepPretend ==
    ASSUME Core, NEW n \in Lens, sys_pretendguibytes(n)
    PROVE  Core'
<1>1. /\ guibuf' = guibuf /\ bytessincelastping' = bytessincelastping + n
      /\ togui' = togui /\ waitingforping' = waitingforping /\ pd' = pd
      /\ UpSame
    BY DEF sys_pretendguibytes, UpSame, ring, history, replies, pings
<1>2. n \in Nat
    BY Lengths
<1>3. Down' = Down /\ Waits' = Waits
    BY <1>1 DEF Down, Waits
<1>4. ASSUME ~doubled PROVE Paced(Down, Stream, Waits, bytessincelastping + n)
    BY <1>2, <1>4, Facts, PacedPretend
<1>5. /\ bytessincelastping' \in Nat /\ waitingforping' \in BOOLEAN /\ togui' \in Seq(DownBytes)
      /\ guibuf' \in Seq(DownBytes) /\ Quiet'
    BY <1>1, <1>2 DEF Core, Types, Quiet
<1>6. ~doubled => Paced(Down', Stream, Waits', bytessincelastping')
    BY <1>1, <1>3, <1>4
<1>7. (~lost /\ ~doubled) => Answered(Down', Stream, Due')
    BY <1>1, <1>3, DownAnswered
<1> QED BY <1>1, <1>5, <1>6, <1>7, DownStep

\* A flush moves bytes from the buffer to the socket, in order.
LEMMA FlushSame ==
    ASSUME Core, NEW n, Flush(n)
    PROVE  Down' = Down /\ guibuf' \in Seq(DownBytes) /\ togui' \in Seq(DownBytes)
<1>1. /\ n \in 0 .. Len(guibuf)
      /\ togui' = togui \o Start(guibuf, n) /\ guibuf' = Rest(guibuf, n)
    BY Facts DEF Flush, Start, Rest
<1>2. /\ Start(guibuf, n) \in Seq(DownBytes) /\ Rest(guibuf, n) \in Seq(DownBytes)
      /\ guibuf = Start(guibuf, n) \o Rest(guibuf, n)
    BY <1>1, Facts, RestIs
<1>3. (togui \o Start(guibuf, n)) \o Rest(guibuf, n) = togui \o (Start(guibuf, n) \o Rest(guibuf, n))
  <2> DEFINE x == Start(guibuf, n)
             y == Rest(guibuf, n)
  <2>1. togui \in Seq(DownBytes) /\ x \in Seq(DownBytes) /\ y \in Seq(DownBytes)
      BY <1>2, Facts
  <2> HIDE DEF x, y
  <2>2. (togui \o x) \o y = togui \o (x \o y)
      BY <2>1, ConcatAssociative
  <2> QED BY <2>2 DEF x, y
<1>4. Down' = togui' \o guibuf'
    BY DEF Down
<1>5. togui' \in Seq(DownBytes)
    BY <1>1, <1>2, Facts, ConcatProperties
<1> QED BY <1>1, <1>2, <1>3, <1>4, <1>5 DEF Down

\* The flushes of sys_poll_togui and at the end of sys_flushqueue.
LEMMA StepFlush ==
    ASSUME Core, NEW n, PollFlush(n) \/ FlushEnd(n)
    PROVE  Core'
<1>1. /\ UNCHANGED <<bytessincelastping, waitingforping>>
      /\ UpSame /\ pd' = "idle"
    BY DEF PollFlush, FlushEnd, UpSame, ring, history, replies, pings
<1>2. Flush(n) \/ (guibuf' = guibuf /\ togui' = togui)
    BY DEF PollFlush, FlushEnd
<1>3. guibuf' \in Seq(DownBytes) /\ togui' \in Seq(DownBytes) /\ Down' = Down
  <2>1. CASE Flush(n)
      BY <2>1, FlushSame
  <2>2. CASE guibuf' = guibuf /\ togui' = togui
      BY <2>2, Facts DEF Down
  <2> QED BY <1>2, <2>1, <2>2
<1>4. pd' = "flushing" => ~waitingforping
    BY <1>1
<1> QED BY <1>1, <1>3, <1>4, DownSame

\* Steps that only move the reader's place, or end a process.
LEMMA StepQuiet ==
    ASSUME Core, Bail \/ PollQueue \/ FlushEmpty \/ ReadEof \/ GuiDies
    PROVE  Core'
<1>1. /\ UNCHANGED <<bytessincelastping, waitingforping, guibuf, togui>>
      /\ UpSame
    BY DEF Bail, PollQueue, FlushEmpty, ReadEof, GuiDies, UpSame, out, ring, history, replies, pings
<1>2. pd' = "flushing" => ~waitingforping
  <2>1. CASE PollQueue
      BY <2>1 DEF PollQueue, MayDraw
  <2>2. CASE Bail \/ FlushEmpty \/ ReadEof
      BY <2>2 DEF Bail, FlushEmpty, ReadEof
  <2>3. CASE GuiDies
      BY <2>3 DEF GuiDies, Core, Quiet
  <2> QED BY <2>1, <2>2, <2>3
<1>3. guibuf' \in Seq(DownBytes) /\ togui' \in Seq(DownBytes) /\ Down' = Down
    BY <1>1, Facts DEF Down
<1> QED BY <1>1, <1>2, <1>3, DownSame

\* sys_flushqueue sends a ping.
LEMMA StepPing ==
    ASSUME Core, FlushPing
    PROVE  Core'
<1>1. /\ guibuf' = Append(guibuf, "ping") /\ bytessincelastping' = 0
      /\ togui' = togui /\ waitingforping' = TRUE /\ pd' = "idle"
      /\ UpSame
    BY DEF FlushPing, UpSame, ring, history, replies, pings
<1>2. ~waitingforping
    BY DEF FlushPing, Core, Quiet
<1>3. Waits = 0 /\ Waits' = 1
    BY <1>1, <1>2 DEF Waits
<1>4. "ping" \in DownBytes /\ <<"ping">> \in Seq(DownBytes)
    BY DEF DownBytes
<1>5. guibuf' \in Seq(DownBytes) /\ Down' = Append(Down, "ping")
  <2>1. (togui \o guibuf) \o <<"ping">> = togui \o (guibuf \o <<"ping">>)
    <3> DEFINE x == <<"ping">>
    <3>1. togui \in Seq(DownBytes) /\ guibuf \in Seq(DownBytes) /\ x \in Seq(DownBytes)
        BY <1>4, Facts
    <3> HIDE DEF x
    <3>2. (togui \o guibuf) \o x = togui \o (guibuf \o x)
        BY <3>1, ConcatAssociative
    <3> QED BY <3>2 DEF x
  <2>2. Append(guibuf, "ping") = guibuf \o <<"ping">> /\ Append(Down, "ping") = Down \o <<"ping">>
      BY <1>4, Facts, AppendIsConcat
  <2>3. Down' = togui' \o guibuf'
      BY DEF Down
  <2>4. guibuf' \in Seq(DownBytes)
      BY <1>1, <1>4, Facts
  <2> QED BY <1>1, <2>1, <2>2, <2>3, <2>4 DEF Down
<1>6. ~doubled => Paced(Down, Stream, 0, bytessincelastping)
    BY <1>3, Facts
<1>7. ASSUME ~doubled
      PROVE  /\ Paced(Append(Down, "ping"), Stream, 1, 0)
             /\ Count(Append(Down, "ping"), "ping") = Count(Down, "ping") + 1
    BY <1>6, <1>7, Facts, PacedPing
<1>8. Count(Down, "ping") \in Nat /\ Count(Stream, "p") \in Nat
    BY Facts, CountIs
<1>9. ~doubled => /\ Paced(Down', Stream, Waits', bytessincelastping')
                  /\ Count(Down', "ping") = Count(Down, "ping") + 1
    BY <1>1, <1>3, <1>5, <1>7, Zenon
<1>10. (~lost /\ ~doubled) => Answered(Down', Stream, Due')
  <2> SUFFICES ASSUME ~lost, ~doubled PROVE Answered(Down', Stream, Due')
      OBVIOUS
  <2>1. Answered(Down, Stream, Due) /\ ~dropped
      BY <1>2, Facts
  <2>2. Due = 0 /\ Due' = 1
      BY <1>1, <1>2, <2>1 DEF Due, UpSame
  <2> QED BY <1>8, <1>9, <2>1, <2>2 DEF Answered
<1>11. /\ bytessincelastping' \in Nat /\ waitingforping' \in BOOLEAN /\ togui' \in Seq(DownBytes)
       /\ Quiet'
    BY <1>1, Facts DEF Quiet
<1> QED BY <1>1, <1>5, <1>9, <1>10, <1>11, DownStep

\* sys_flushqueue draws an update.
LEMMA StepUpdate ==
    ASSUME Core, NEW n \in Lens, FlushOne(n)
    PROVE  Core'
<1>1. /\ guibuf' = guibuf \o Bytes("u", n) /\ bytessincelastping' = bytessincelastping + n
      /\ togui' = togui /\ waitingforping' = waitingforping
      /\ pd = "flushing" /\ bytessincelastping < GUI_BYTESPERPING
      /\ UpSame
    BY DEF FlushOne, UpSame, ring, history, replies, pings
<1>2. n \in Nat /\ "u" \in DownBytes
    BY Lengths DEF DownBytes
<1>3. ~waitingforping
    BY <1>1 DEF Core, Quiet
<1>4. Bytes("u", n) \in Seq(DownBytes)
    BY <1>2, BytesAre
<1>5. guibuf' \in Seq(DownBytes) /\ Down' = Down \o Bytes("u", n)
  <2>1. (togui \o guibuf) \o Bytes("u", n) = togui \o (guibuf \o Bytes("u", n))
    <3> DEFINE x == Bytes("u", n)
    <3>1. togui \in Seq(DownBytes) /\ guibuf \in Seq(DownBytes) /\ x \in Seq(DownBytes)
        BY <1>4, Facts
    <3> HIDE DEF x
    <3>2. (togui \o guibuf) \o x = togui \o (guibuf \o x)
        BY <3>1, ConcatAssociative
    <3> QED BY <3>2 DEF x
  <2>2. Down' = togui' \o guibuf'
      BY DEF Down
  <2> QED BY <1>1, <1>4, <2>1, <2>2, Facts, ConcatProperties DEF Down
<1>6. Waits' = 0 /\ Waits = 0
    BY <1>1, <1>3 DEF Waits
<1>7. ~doubled => Paced(Down, Stream, 0, bytessincelastping)
    BY <1>6, Facts
<1>8. ASSUME ~doubled
      PROVE  /\ Paced(Down \o Bytes("u", n), Stream, 0, bytessincelastping + n)
             /\ Count(Down \o Bytes("u", n), "ping") = Count(Down, "ping")
    BY <1>1, <1>7, <1>8, Facts, PacedUpdate
<1>9. ~doubled => /\ Paced(Down', Stream, Waits', bytessincelastping')
                  /\ Count(Down', "ping") = Count(Down, "ping")
    BY <1>1, <1>5, <1>6, <1>8, Zenon
<1>10. /\ bytessincelastping' \in Nat /\ waitingforping' \in BOOLEAN /\ togui' \in Seq(DownBytes)
       /\ Quiet'
    BY <1>1, <1>2, <1>3, Facts DEF Core, Types, Quiet
<1>11. (~lost /\ ~doubled) => Answered(Down', Stream, Due')
    BY <1>1, <1>9, DownAnswered
<1> QED BY <1>1, <1>5, <1>9, <1>10, <1>11, DownStep

-----------------------------------------------------------------------------
(* What comes up from the GUI.                                             *)

\* A step that leaves what goes to the GUI alone, and the waiting for an answer.
LEMMA UpStep ==
    ASSUME Core, UNCHANGED <<guibuf, togui, bytessincelastping, waitingforping>>,
           pd' # "flushing", topd' \in Seq(UpBytes), RingOK(inbuf', inhead', intail'), Behind',
           sent' \in Seq(UpBytes), doubled' = doubled,
           ~doubled => Paced(Down, Stream', Waits, bytessincelastping), Answers', Order'
    PROVE  Core'
<1>1. /\ guibuf' = guibuf /\ togui' = togui /\ bytessincelastping' = bytessincelastping
      /\ waitingforping' = waitingforping
    OBVIOUS
<1>2. Down' = Down /\ Waits' = Waits
    BY <1>1 DEF Down, Waits
<1>3. Types'
    BY <1>1 DEF Core, Types
<1>4. Quiet'
    BY DEF Quiet
<1>5. Pacing'
    BY <1>1, <1>2 DEF Pacing
<1> QED BY <1>3, <1>4, <1>5 DEF Core

\* socketreceiver_read receives bytes.
LEMMA StepRead ==
    ASSUME Core, NEW n, ReadSome(n)
    PROVE  Core'
<1>1. /\ UNCHANGED <<guibuf, togui, bytessincelastping, waitingforping>>
      /\ intail' = intail /\ sent' = sent /\ lost' = lost /\ straddled' = straddled
      /\ dropped' = dropped /\ doubled' = doubled
      /\ garbled' = garbled /\ pd = "idle" /\ pd' = "reading" /\ n \in 1 .. Len(topd)
      /\ topd' = SubSeq(topd, n + 1, Len(topd))
      /\ inhead' = IF inhead + n >= INBUFSIZE THEN 0 ELSE inhead + n
      /\ inhead + n <= IF inhead >= intail THEN INBUFSIZE ELSE intail - 1
    BY DEF ReadSome, Readto, out, history, replies, pings
<1>2. inbuf' = [i \in 0 .. INBUFSIZE - 1 |->
                  IF i \in inhead .. inhead + n - 1 THEN topd[i - inhead + 1] ELSE inbuf[i]]
  <2>1. DOMAIN inbuf = 0 .. INBUFSIZE - 1
      BY Facts DEF RingOK
  <2> QED BY <2>1 DEF ReadSome
<1>3. pd # "reading"
    BY <1>1
<1>4. /\ RingOK(inbuf', inhead', intail)
      /\ SubSeq(topd, n + 1, Len(topd)) \in Seq(UpBytes)
      /\ StreamOf(inbuf', inhead', intail, "reading", SubSeq(topd, n + 1, Len(topd)))
           = StreamOf(inbuf, inhead, intail, pd, topd)
      /\ intail > 0 => inbuf'[intail - 1] = inbuf[intail - 1]
  <2>1. RingOK(inbuf, inhead, intail) /\ topd \in Seq(UpBytes)
      BY Facts
  <2>2. Received(inbuf, inhead, intail, topd, n, inbuf', inhead')
      BY <1>1, <1>2 DEF Received
  <2>3. n \in 1 .. Len(topd)
      BY <1>1
  <2> QED BY <1>3, <2>1, <2>2, <2>3, ReadStream
<1>5. Stream' = Stream
  <2>1. Stream' = StreamOf(inbuf', inhead', intail', pd', topd')
      BY DEF Stream
  <2> QED BY <1>1, <1>4, <2>1 DEF Stream
<1>6. Behind'
    BY <1>1, <1>4 DEF Behind, Core
<1>7. Down' = Down /\ Due' = Due
    BY <1>1 DEF Down, Due
<1>8. Answers' /\ Order'
    BY <1>1, <1>5, <1>7 DEF Core, Answers, Order
<1>9. /\ topd' \in Seq(UpBytes) /\ RingOK(inbuf', inhead', intail') /\ sent' \in Seq(UpBytes)
      /\ ~doubled => Paced(Down, Stream', Waits, bytessincelastping)
    BY <1>1, <1>4, <1>5, Facts
<1>10. pd' # "flushing"
    BY <1>1
<1> QED BY <1>1, <1>6, <1>8, <1>9, <1>10, UpStep

\* Input is dropped: what is left of the stream is its end.
LEMMA StepLose ==
    ASSUME Core, UNCHANGED <<guibuf, togui, bytessincelastping, waitingforping, inbuf, topd, sent, doubled>>,
           pd' = "idle", lost' = TRUE, inhead' = intail', RingOK(inbuf', inhead', intail'), Behind'
    PROVE  Core'
<1> DEFINE L == LengthOf(inhead, intail, pd)
<1>1. topd' = topd /\ topd \in Seq(UpBytes) /\ RingOK(inbuf, inhead, intail)
    BY Facts
<1>2. /\ L \in 0 .. INBUFSIZE /\ Stream \in Seq(UpBytes) /\ Len(Stream) = L + Len(topd)
      /\ \A k \in 1 .. Len(topd) : Stream[L + k] = topd[k]
    BY <1>1, StreamIs DEF Stream
<1>3. Stream' \in Seq(UpBytes) /\ Len(Stream') = Len(topd) /\ \A k \in 1 .. Len(topd) : Stream'[k] = topd[k]
  <2> DEFINE M == LengthOf(inhead', intail', "idle")
  <2>1. M = 0
    <3>1. inhead' \in 0 .. INBUFSIZE - 1 /\ intail' \in 0 .. INBUFSIZE - 1
        BY DEF RingOK
    <3> QED BY <3>1, LengthIs
  <2>2. /\ StreamOf(inbuf', inhead', intail', "idle", topd) \in Seq(UpBytes)
        /\ Len(StreamOf(inbuf', inhead', intail', "idle", topd)) = M + Len(topd)
        /\ \A k \in 1 .. Len(topd) : StreamOf(inbuf', inhead', intail', "idle", topd)[M + k] = topd[k]
    <3>1. RingOK(inbuf', inhead', intail')
        OBVIOUS
    <3> QED BY <1>1, <3>1, StreamIs
  <2>3. Stream' = StreamOf(inbuf', inhead', intail', "idle", topd)
      BY <1>1 DEF Stream
  <2> HIDE DEF M
  <2> DEFINE T == Stream'
  <2>4. T \in Seq(UpBytes) /\ Len(T) = 0 + Len(topd) /\ \A k \in 1 .. Len(topd) : T[0 + k] = topd[k]
      BY <2>1, <2>2, <2>3, Zenon
  <2> HIDE DEF T
  <2>5. T \in Seq(UpBytes) /\ Len(T) = Len(topd) /\ \A k \in 1 .. Len(topd) : T[k] = topd[k]
    <3>1. Len(topd) \in Nat
        BY <1>1
    <3> QED BY <2>4, <3>1
  <2> QED BY <2>5 DEF T
<1> HIDE DEF L
<1>4. L \in Nat /\ Len(topd) \in Nat /\ L \in 0 .. Len(Stream) /\ Len(Stream) - L = Len(topd)
  <2>1. L \in Nat /\ Len(topd) \in Nat
      BY <1>1, <1>2, Size
  <2> QED BY <1>2, <2>1
<1>5. Stream' = Rest(Stream, L)
  <2> DEFINE R == Rest(Stream, L)
             T == Stream'
  <2>1. R \in Seq(UpBytes) /\ Len(R) = Len(topd) /\ \A k \in 1 .. Len(topd) : R[k] = Stream[L + k]
    <3>1. /\ R \in Seq(UpBytes) /\ Len(R) = Len(Stream) - L
          /\ \A k \in 1 .. Len(Stream) - L : R[k] = Stream[L + k]
        BY <1>2, <1>4, RestIs
    <3> HIDE DEF R
    <3> QED BY <1>4, <3>1
  <2>2. T \in Seq(UpBytes) /\ Len(T) = Len(topd) /\ \A k \in 1 .. Len(topd) : T[k] = topd[k]
      BY <1>3
  <2> HIDE DEF R, T
  <2>3. Len(T) = Len(R) /\ \A k \in 1 .. Len(T) : T[k] = R[k]
      BY <1>2, <2>1, <2>2
  <2>4. T = R
      BY <2>1, <2>2, <2>3, SeqEqual
  <2> QED BY <2>4 DEF T, R
<1>6. ASSUME ~doubled PROVE Paced(Down, Stream', Waits, bytessincelastping)
    BY <1>2, <1>4, <1>5, <1>6, Facts, PacedRest
<1>7. Answers' /\ Order'
    BY DEF Answers, Order
<1>8. topd' \in Seq(UpBytes) /\ sent' \in Seq(UpBytes) /\ pd' # "flushing"
    BY <1>1, Facts
<1> QED BY <1>6, <1>7, <1>8, UpStep

\* socketreceiver_read finds the buffer full.
LEMMA StepDrop ==
    ASSUME Core, ReadDrop
    PROVE  Core'
<1>1. /\ UNCHANGED <<guibuf, togui, bytessincelastping, waitingforping, inbuf, topd, sent, doubled>>
      /\ pd' = "idle" /\ lost' = TRUE /\ inhead' = 0 /\ intail' = 0
    BY DEF ReadDrop, out, pings
<1>2. RingOK(inbuf', inhead', intail') /\ Behind'
    BY <1>1, Facts, Size DEF RingOK, Behind
<1> QED BY <1>1, <1>2, StepLose

\* socketreceiver_doread finds no message; a full buffer is lost then.
LEMMA StepNone ==
    ASSUME Core, DoReadNone
    PROVE  Core'
<1>1. /\ UNCHANGED <<guibuf, togui, bytessincelastping, waitingforping, inbuf, inhead, intail, topd,
                    sent, dropped, doubled>>
      /\ straddled' = straddled /\ garbled' = garbled
      /\ pd = "reading" /\ pd' = "idle" /\ lost' = (lost \/ inhead = intail)
    BY DEF DoReadNone, out, ring, pings
<1>2. RingOK(inbuf', inhead', intail') /\ Behind'
    BY <1>1, Facts DEF Core, Behind
<1>3. CASE inhead = intail
    BY <1>1, <1>2, <1>3, StepLose
<1>4. CASE inhead # intail
  <2>1. LengthOf(inhead, intail, "idle") = LengthOf(inhead, intail, "reading")
      BY <1>4 DEF LengthOf
  <2>2. StreamOf(inbuf, inhead, intail, "idle", topd) = StreamOf(inbuf, inhead, intail, "reading", topd)
      BY <2>1 DEF StreamOf, WindowOf
  <2>3. Stream' = StreamOf(inbuf', inhead', intail', pd', topd')
      BY DEF Stream
  <2>4. Stream' = Stream
      BY <1>1, <2>2, <2>3 DEF Stream
  <2>5. Down' = Down /\ Due' = Due
      BY <1>1 DEF Down, Due
  <2>6. lost' <=> lost
      BY <1>1, <1>4
  <2>7. Answers' /\ Order'
      BY <1>1, <2>4, <2>5, <2>6 DEF Core, Answers, Order
  <2>8. /\ topd' \in Seq(UpBytes) /\ sent' \in Seq(UpBytes) /\ pd' # "flushing"
        /\ ~doubled => Paced(Down, Stream', Waits, bytessincelastping)
      BY <1>1, <2>4, Facts
  <2> QED BY <1>1, <1>2, <2>7, <2>8, UpStep
<1> QED BY <1>3, <1>4

-----------------------------------------------------------------------------
(* The GUI.                                                                *)

\* More bytes behind the stream.
LEMMA StreamMore ==
    ASSUME Core, UNCHANGED <<inbuf, inhead, intail, pd>>, NEW m \in Seq(UpBytes), topd' = topd \o m
    PROVE  Stream' = Stream \o m /\ topd' \in Seq(UpBytes)
<1>1. inbuf' = inbuf /\ inhead' = inhead /\ intail' = intail /\ pd' = pd
    OBVIOUS
<1>2. m \in Seq(UpBytes) /\ topd \in Seq(UpBytes) /\ RingOK(inbuf, inhead, intail)
    BY Facts
<1> DEFINE W == WindowOf(inbuf, inhead, intail, pd)
<1>3. W \in Seq(UpBytes)
    BY <1>2, WindowIs
<1>4. Stream = W \o topd
    BY DEF Stream, StreamOf
<1>5. Stream' = StreamOf(inbuf', inhead', intail', pd', topd')
    BY DEF Stream
<1>6. Stream' = W \o (topd \o m)
    BY <1>1, <1>5 DEF StreamOf
<1> HIDE DEF W
<1>7. (W \o topd) \o m = W \o (topd \o m)
    BY <1>2, <1>3, ConcatAssociative
<1>8. topd \o m \in Seq(UpBytes)
    BY <1>2, ConcatProperties
<1> QED BY <1>4, <1>6, <1>7, <1>8

\* The GUI sends what the user does.
LEMMA StepUser ==
    ASSUME Core, NEW m \in UserMsgs, GuiUser(m)
    PROVE  Core'
<1> DEFINE u == Append(m, "semi")
<1>1. /\ UNCHANGED <<guibuf, togui, bytessincelastping, waitingforping, inbuf, inhead, intail, pd>>
      /\ lost' = lost /\ straddled' = straddled /\ garbled' = garbled
      /\ dropped' = dropped /\ doubled' = doubled
      /\ topd' = topd \o u /\ sent' = sent \o u
    BY DEF GuiUser, pdsend, out, ring, pings
<1>2. /\ u \in Seq(UpBytes)
      /\ \A s \in Seq(UpBytes) : s \o u \in Seq(UpBytes) /\ Count(s \o u, "p") = Count(s, "p")
    BY SentIs, CountMessage
<1> HIDE DEF u
<1>3. Stream' = Stream \o u /\ topd' \in Seq(UpBytes)
    BY <1>1, <1>2, StreamMore
<1>4. Stream \in Seq(UpBytes) /\ sent \in Seq(UpBytes)
    BY Facts
<1>5. Count(Stream', "p") = Count(Stream, "p")
    BY <1>2, <1>3, <1>4
<1>6. Down' = Down /\ Waits' = Waits /\ Due' = Due
    BY <1>1 DEF Down, Waits, Due
<1>7. ~doubled => Paced(Down, Stream', Waits, bytessincelastping)
    BY <1>5, Facts DEF Paced
<1>8. Answers'
  <2>1. (~lost /\ ~doubled) => Answered(Down, Stream', Due) /\ (dropped => waitingforping)
      BY <1>5, Facts DEF Answered
  <2> QED BY <1>1, <1>6, <2>1 DEF Answers
<1>9. Order'
    BY <1>1, <1>3 DEF Core, Order
<1>10. Types'
    BY <1>1, <1>2, <1>3, <1>4 DEF Core, Types
<1>11. Behind' /\ Quiet'
    BY <1>1 DEF Core, Behind, Quiet
<1>12. Pacing'
    BY <1>1, <1>6, <1>7 DEF Pacing
<1> QED BY <1>8, <1>9, <1>10, <1>11, <1>12 DEF Core

\* The GUI evaluates a batch again.
LEMMA StepAgain ==
    ASSUME Core, GuiAgain
    PROVE  Core'
<1>1. /\ UNCHANGED <<guibuf, togui, bytessincelastping, waitingforping, inbuf, inhead, intail, pd>>
      /\ lost' = lost /\ straddled' = straddled /\ garbled' = garbled /\ doubled' = TRUE
      /\ topd' = topd \o PING /\ sent' = sent \o PING
    BY SentIs DEF GuiAgain, pdsend, out, ring
<1>2. Stream' = Stream \o PING /\ topd' \in Seq(UpBytes)
    BY <1>1, SentIs, StreamMore
<1>3. sent' \in Seq(UpBytes)
    BY <1>1, Facts, CountMessage
<1>4. Types'
    BY <1>1, <1>2, <1>3 DEF Core, Types
<1>5. Order'
    BY <1>1, <1>2 DEF Core, Order
<1>6. Pacing' /\ Answers'
    BY <1>1 DEF Pacing, Answers
<1>7. Behind' /\ Quiet'
    BY <1>1 DEF Core, Behind, Quiet
<1> QED BY <1>4, <1>5, <1>6, <1>7 DEF Core

\* The GUI gives up a batch.
LEMMA StepError ==
    ASSUME Core, NEW n, GuiError(n)
    PROVE  Core'
<1> DEFINE P == \E k \in 1 .. n : Down[k] = "ping"
<1>1. /\ UNCHANGED <<guibuf, bytessincelastping, waitingforping, inbuf, inhead, intail, pd>>
      /\ lost' = lost /\ straddled' = straddled /\ garbled' = garbled /\ doubled' = doubled
      /\ topd' = topd /\ sent' = sent /\ n \in 1 .. Len(togui)
      /\ togui' = Rest(togui, n)
      /\ dropped' = (dropped \/ \E k \in 1 .. n : togui[k] = "ping")
    BY DEF GuiError, out, ring, Rest
<1>2. togui \in Seq(DownBytes) /\ guibuf \in Seq(DownBytes) /\ Len(togui) \in Nat
    BY Facts
<1>3. n \in 0 .. Len(togui) /\ n \in Nat /\ n <= Len(togui)
    BY <1>1, <1>2
<1>4. /\ togui' \in Seq(DownBytes) /\ Len(togui') = Len(togui) - n
      /\ \A k \in 1 .. Len(togui) - n : togui'[k] = togui[n + k]
    BY <1>1, <1>2, <1>3, RestIs
<1>5. /\ Len(Down) = Len(togui) + Len(guibuf) /\ Down \in Seq(DownBytes)
      /\ \A k \in 1 .. Len(togui) + Len(guibuf) :
           Down[k] = IF k <= Len(togui) THEN togui[k] ELSE guibuf[k - Len(togui)]
    BY <1>2, ConcatProperties DEF Down
<1>6. n \in 0 .. Len(Down) /\ Len(guibuf) \in Nat
    BY <1>2, <1>3, <1>5
<1>7. (\E k \in 1 .. n : togui[k] = "ping") <=> P
  <2>1. \A k \in 1 .. n : k \in 1 .. Len(togui) + Len(guibuf) /\ k <= Len(togui)
      BY <1>2, <1>3, <1>6
  <2>2. \A k \in 1 .. n : Down[k] = togui[k]
      BY <1>5, <2>1
  <2> QED BY <2>2
<1>8. Down' = Rest(Down, n)
  <2> DEFINE t == togui'
             d == t \o guibuf
             r == Rest(Down, n)
  <2>1. /\ d \in Seq(DownBytes) /\ Len(d) = Len(t) + Len(guibuf)
        /\ \A k \in 1 .. Len(t) + Len(guibuf) : d[k] = IF k <= Len(t) THEN t[k] ELSE guibuf[k - Len(t)]
      BY <1>2, <1>4, ConcatProperties
  <2>2. /\ r \in Seq(DownBytes) /\ Len(r) = Len(Down) - n
        /\ \A k \in 1 .. Len(Down) - n : r[k] = Down[n + k]
      BY <1>5, <1>6, RestIs
  <2>3. t \in Seq(DownBytes) /\ Len(t) = Len(togui) - n
        /\ \A k \in 1 .. Len(togui) - n : t[k] = togui[n + k]
      BY <1>4
  <2>4. Down' = d
      BY <1>1 DEF Down
  <2> HIDE DEF d, r, t
  <2>5. Len(d) = Len(r)
      BY <1>2, <1>3, <1>5, <1>6, <2>1, <2>2, <2>3
  <2>6. ASSUME NEW k \in 1 .. Len(d) PROVE d[k] = r[k]
    <3>1. /\ k \in 1 .. Len(t) + Len(guibuf) /\ k \in 1 .. Len(Down) - n
          /\ n + k \in 1 .. Len(togui) + Len(guibuf)
        BY <1>2, <1>3, <1>5, <1>6, <2>1, <2>3
    <3>2. CASE k <= Len(t)
      <4>1. k \in 1 .. Len(togui) - n /\ n + k <= Len(togui)
          BY <1>2, <1>3, <2>3, <3>1, <3>2
      <4> QED BY <1>5, <2>1, <2>2, <2>3, <3>1, <3>2, <4>1
    <3>3. CASE ~(k <= Len(t))
      <4>1. ~(n + k <= Len(togui)) /\ (n + k) - Len(togui) = k - Len(t)
          BY <1>2, <1>3, <2>3, <3>1, <3>3
      <4> QED BY <1>5, <2>1, <2>2, <3>1, <3>3, <4>1
    <3> QED BY <3>2, <3>3
  <2>7. d = r
      BY <2>1, <2>2, <2>5, <2>6, SeqEqual
  <2> QED BY <2>4, <2>7 DEF r
<1>9. Stream' = Stream
  <2>1. Stream' = StreamOf(inbuf', inhead', intail', pd', topd')
      BY DEF Stream
  <2> QED BY <1>1, <2>1 DEF Stream
<1>10. Waits' = Waits
    BY <1>1 DEF Waits
<1> HIDE DEF P
<1>11. Pacing'
  <2>1. ASSUME ~doubled PROVE Paced(Rest(Down, n), Stream, Waits, bytessincelastping)
      BY <1>6, <2>1, Facts, PacedDrop
  <2> QED BY <1>1, <1>8, <1>9, <1>10, <2>1 DEF Pacing
<1>12. Answers'
  <2> SUFFICES ASSUME ~lost', ~doubled'
               PROVE  Answered(Down', Stream', Due') /\ (dropped' => waitingforping')
      BY DEF Answers
  <2>1. Answered(Down, Stream, Due) /\ (dropped => waitingforping)
      BY <1>1, Facts
  <2>2. /\ P => Due = 1 /\ Answered(Rest(Down, n), Stream, 0)
        /\ ~P => Answered(Rest(Down, n), Stream, Due)
      BY <1>6, <2>1, Facts, AnsweredDrop DEF P
  <2>3. CASE P
    <3>0. waitingforping
        BY <2>2, <2>3, DueIs
    <3>1. dropped' /\ waitingforping
        BY <1>1, <1>7, <2>3, <3>0
    <3>2. Due' = 0
        BY <3>1 DEF Due
    <3> QED BY <1>1, <1>8, <1>9, <2>2, <2>3, <3>1, <3>2
  <2>4. CASE ~P
    <3>1. dropped' <=> dropped
        BY <1>1, <1>7, <2>4
    <3>2. Due' = Due
        BY <1>1, <3>1 DEF Due
    <3> QED BY <1>1, <1>8, <1>9, <2>1, <2>2, <2>4, <3>1, <3>2
  <2> QED BY <2>3, <2>4
<1>13. Order'
    BY <1>1, <1>9 DEF Core, Order
<1>14. Types'
    BY <1>1, <1>4 DEF Core, Types
<1>15. Behind' /\ Quiet'
    BY <1>1 DEF Core, Behind, Quiet
<1> QED BY <1>11, <1>12, <1>13, <1>14, <1>15 DEF Core

\* The GUI handles a byte.
LEMMA StepHandle ==
    ASSUME Core, GuiHandle
    PROVE  Core'
<1>1. /\ UNCHANGED <<guibuf, bytessincelastping, waitingforping, inbuf, inhead, intail, pd>>
      /\ lost' = lost /\ straddled' = straddled /\ garbled' = garbled
      /\ togui # <<>> /\ togui' = Tail(togui)
      /\ topd' = IF Head(togui) = "ping" THEN topd \o PING ELSE topd
      /\ sent' = IF Head(togui) = "ping" THEN sent \o PING ELSE sent
      /\ dropped' = dropped /\ doubled' = doubled
    BY SentIs DEF GuiHandle, pdsend, out, ring, pings
<1>2. Down # <<>> /\ Head(Down) = Head(togui) /\ Down' = Tail(Down) /\ togui' \in Seq(DownBytes)
  <2>1. togui \in Seq(DownBytes) /\ guibuf \in Seq(DownBytes)
      BY Facts
  <2>2. togui \o guibuf # <<>> /\ Head(togui \o guibuf) = Head(togui)
      BY <1>1, <2>1
  <2>3. Tail(togui) \o guibuf = Tail(togui \o guibuf)
      BY <1>1, <2>1
  <2>4. Down' = togui' \o guibuf'
      BY DEF Down
  <2>5. togui' \in Seq(DownBytes)
      BY <1>1, <2>1
  <2> QED BY <1>1, <2>2, <2>3, <2>4, <2>5 DEF Down
<1>3. Stream \in Seq(UpBytes) /\ sent \in Seq(UpBytes) /\ Count(Stream, "p") \in Nat
    BY Facts, CountIs
<1>4. PING \in Seq(UpBytes) /\ sent \o PING \in Seq(UpBytes)
    BY <1>3, SentIs, CountMessage
<1>5. /\ Stream' = IF Head(togui) = "ping" THEN Stream \o PING ELSE Stream
      /\ topd' \in Seq(UpBytes)
  <2>1. CASE Head(togui) = "ping"
      BY <1>1, <1>4, <2>1, StreamMore
  <2>2. CASE Head(togui) # "ping"
    <3>1. Stream' = StreamOf(inbuf', inhead', intail', pd', topd')
        BY DEF Stream
    <3> QED BY <1>1, <2>2, <3>1, Facts DEF Stream
  <2> QED BY <2>1, <2>2
<1>6. /\ Stream' \in Seq(UpBytes)
      /\ Count(Stream', "p") = Count(Stream, "p") + (IF Head(Down) = "ping" THEN 1 ELSE 0)
  <2>1. /\ Stream \o PING \in Seq(UpBytes)
        /\ Count(Stream \o PING, "p") = Count(Stream, "p") + 1
      BY <1>3, CountMessage
  <2>2. CASE Head(togui) = "ping"
      BY <1>2, <1>5, <2>1, <2>2
  <2>3. CASE Head(togui) # "ping"
      BY <1>2, <1>3, <1>5, <2>3
  <2> QED BY <2>2, <2>3
<1>7. ASSUME ~doubled
      PROVE  /\ Paced(Tail(Down), Stream', Waits, bytessincelastping)
             /\ Count(Tail(Down), "ping") + Count(Stream', "p") = Count(Down, "ping") + Count(Stream, "p")
    BY <1>2, <1>6, <1>7, Facts, PacedHandle
<1>8. Waits' = Waits /\ Due' = Due
    BY <1>1 DEF Waits, Due
<1>9. Pacing'
    BY <1>1, <1>2, <1>7, <1>8 DEF Pacing
<1>10. Answers'
  <2> SUFFICES ASSUME ~lost', ~doubled'
               PROVE  Answered(Down', Stream', Due') /\ (dropped' => waitingforping')
      BY DEF Answers
  <2>1. Answered(Down, Stream, Due) /\ (dropped => waitingforping)
      BY <1>1, Facts
  <2>2. Count(Down', "ping") + Count(Stream', "p") = Due'
      BY <1>1, <1>2, <1>7, <1>8, <2>1 DEF Answered
  <2> QED BY <1>1, <2>1, <2>2 DEF Answered
<1>11. Order'
    BY <1>1, <1>5 DEF Core, Order
<1>12. Types'
    BY <1>1, <1>2, <1>3, <1>4, <1>5 DEF Core, Types
<1>13. Behind' /\ Quiet'
    BY <1>1 DEF Core, Behind, Quiet
<1> QED BY <1>9, <1>10, <1>11, <1>12, <1>13 DEF Core

-----------------------------------------------------------------------------
(* A message is cut off the stream and evaluated.                          *)

\* A set of indices has a first one.
LEMMA FirstIs ==
    ASSUME NEW K, K \subseteq Nat, K # {}
    PROVE  First(K) \in K /\ \A l \in K : First(K) <= l
<1>1. PICK x \in K : \A y \in K : ~ (<<y, x>> \in OpToRel(<, Nat))
    BY WFMin, NatLessThanWellFounded
<1>2. \A y \in K : <<y, x>> \in OpToRel(<, Nat) <=> y < x
    BY DEF OpToRel
<1>3. \A y \in K : ~ (y < x)
    BY <1>1, <1>2, Zenon
<1>4. \E k \in K : \A l \in K : k <= l
    BY <1>3
<1> QED BY <1>4 DEF First

\* The first place where socketreceiver_doread cuts ends the first message of the stream.
LEMMA CutStream ==
    ASSUME NEW buf, NEW h, NEW t, RingOK(buf, h, t), NEW rest \in Seq(UpBytes),
           t > 0 => buf[t - 1] = "semi", NEW e \in 1 .. LengthOf(h, t, "reading"),
           IsCut(buf, SlotAt(t, e - 1)), \A k \in 1 .. e - 1 : ~IsCut(buf, SlotAt(t, k - 1)),
           NEW s, s = StreamOf(buf, h, t, "reading", rest)
    PROVE  /\ s \in Seq(UpBytes) /\ e \in 1 .. Len(s) /\ s[e] = "semi"
           /\ \A j \in 1 .. e - 1 : ~Unescaped(s, j)
           /\ Unescaped(s, e) \/ (SlotAt(t, e - 1) = 0 /\ e > 1 /\ buf[INBUFSIZE - 1] = "backslash")
           /\ [k \in 1 .. e |-> buf[SlotAt(t, k - 1)]] = Start(s, e)
           /\ SlotAt(t, e) > 0 => buf[SlotAt(t, e) - 1] = "semi"
<1> DEFINE L == LengthOf(h, t, "reading")
<1>1. /\ L \in 0 .. INBUFSIZE /\ s \in Seq(UpBytes) /\ Len(s) = L + Len(rest)
      /\ \A k \in 1 .. L : s[k] = buf[SlotAt(t, k - 1)]
    BY StreamIs
<1>2. \A k \in 1 .. L :
          /\ Unescaped(s, k) => IsCut(buf, SlotAt(t, k - 1))
          /\ IsCut(buf, SlotAt(t, k - 1)) => s[k] = "semi"
          /\ IsCut(buf, SlotAt(t, k - 1)) =>
               Unescaped(s, k) \/ (SlotAt(t, k - 1) = 0 /\ k > 1 /\ buf[INBUFSIZE - 1] = "backslash")
  <2> TAKE k \in 1 .. L
  <2> QED BY BoundaryIs
<1>3. e \in 1 .. L
    OBVIOUS
<1> HIDE DEF L
<1>4. L \in Nat /\ Len(rest) \in Nat /\ e \in Nat /\ e >= 1 /\ e <= L /\ INBUFSIZE \in Nat /\ L <= INBUFSIZE
    BY <1>1, <1>3, Size
<1>5. e \in 1 .. Len(s) /\ e \in 0 .. Len(s)
    BY <1>1, <1>4
<1>6. \A j \in 1 .. e - 1 : ~Unescaped(s, j)
  <2> TAKE j \in 1 .. e - 1
  <2>1. j \in 1 .. L
      BY <1>4
  <2> QED BY <1>2, <2>1
<1>7. /\ s[e] = "semi"
      /\ Unescaped(s, e) \/ (SlotAt(t, e - 1) = 0 /\ e > 1 /\ buf[INBUFSIZE - 1] = "backslash")
    BY <1>2, <1>3
<1>8. [k \in 1 .. e |-> buf[SlotAt(t, k - 1)]] = Start(s, e)
  <2> DEFINE m == [k \in 1 .. e |-> buf[SlotAt(t, k - 1)]]
             u == Start(s, e)
  <2>1. u \in Seq(UpBytes) /\ Len(u) = e /\ \A k \in 1 .. e : u[k] = s[k]
      BY <1>1, <1>5, RestIs
  <2>2. \A k \in 1 .. e : s[k] = buf[SlotAt(t, k - 1)] /\ s[k] \in UpBytes
    <3> TAKE k \in 1 .. e
    <3>1. k \in 1 .. L /\ k \in 1 .. Len(s)
        BY <1>1, <1>4
    <3> QED BY <1>1, <3>1
  <2>3. m \in [1 .. e -> UpBytes] /\ \A k \in 1 .. e : m[k] = s[k]
      BY <2>2
  <2> HIDE DEF m, u
  <2>4. m \in Seq(UpBytes) /\ Len(m) = e
      BY <1>4, <2>3
  <2>5. m = u
      BY <2>1, <2>3, <2>4, SeqEqual
  <2> QED BY <2>5 DEF m, u
<1>9. SlotAt(t, e) > 0 => SlotAt(t, e) - 1 = SlotAt(t, e - 1)
  <2>1. t \in 0 .. INBUFSIZE - 1 /\ e \in 0 .. INBUFSIZE /\ e - 1 \in 0 .. INBUFSIZE
      BY <1>4 DEF RingOK
  <2>2. /\ SlotAt(t, e) = IF t + e < INBUFSIZE THEN t + e ELSE t + e - INBUFSIZE
        /\ SlotAt(t, e - 1) = IF t + (e - 1) < INBUFSIZE THEN t + (e - 1) ELSE t + (e - 1) - INBUFSIZE
      BY <2>1, SlotIs
  <2> QED BY <1>4, <2>1, <2>2
<1>10. buf[SlotAt(t, e - 1)] = "semi"
    BY DEF IsCut
<1> QED BY <1>1, <1>5, <1>6, <1>7, <1>8, <1>9, <1>10

\* Where the first message ends.
LEMMA FirstEndIs ==
    ASSUME sent \in Seq(UpBytes)
    PROVE  /\ FirstEnd \in 0 .. Len(sent)
           /\ \A e \in 1 .. Len(sent) :
                (Unescaped(sent, e) /\ \A j \in 1 .. e - 1 : ~Unescaped(sent, j)) => FirstEnd = e
<1>1. DOMAIN sent = 1 .. Len(sent) /\ Len(sent) \in Nat
    OBVIOUS
<1>2. Ends = {k \in 1 .. Len(sent) : Unescaped(sent, k)}
    BY <1>1 DEF Ends
<1>3. CASE Ends = {}
  <2>1. FirstEnd = Len(sent) /\ \A k \in 1 .. Len(sent) : ~Unescaped(sent, k)
      BY <1>2, <1>3 DEF FirstEnd
  <2>2. Len(sent) \in 0 .. Len(sent)
      BY <1>1
  <2>3. FirstEnd \in 0 .. Len(sent)
      BY <2>1, <2>2
  <2> QED BY <2>1, <2>3
<1>4. CASE Ends # {}
  <2>1. Ends \subseteq Nat
      BY <1>1, <1>2
  <2>2. First(Ends) \in Ends /\ \A l \in Ends : First(Ends) <= l
      BY <1>4, <2>1, FirstIs
  <2>3. FirstEnd \in Ends /\ \A l \in Ends : FirstEnd <= l
      BY <1>4, <2>2 DEF FirstEnd
  <2>4. FirstEnd \in 1 .. Len(sent) /\ Unescaped(sent, FirstEnd)
      BY <1>2, <2>3
  <2>5. ASSUME NEW e \in 1 .. Len(sent), Unescaped(sent, e), \A j \in 1 .. e - 1 : ~Unescaped(sent, j)
        PROVE  FirstEnd = e
    <3>1. FirstEnd <= e
        BY <1>2, <2>3, <2>5
    <3>2. ~(FirstEnd \in 1 .. e - 1)
        BY <2>4, <2>5
    <3> QED BY <1>1, <2>4, <3>1, <3>2
  <2> QED BY <1>1, <2>4, <2>5
<1> QED BY <1>3, <1>4

\* socketreceiver_doread cuts off a message and evaluates it.
LEMMA StepDoRead ==
    ASSUME Core, DoRead
    PROVE  Core'
<1> DEFINE end == First(Boundaries)
           e == end + 1
           mess == [k \in 1 .. end + 1 |-> inbuf[At(k - 1)]]
<1>1. /\ pd = "reading" /\ Boundaries # {}
      /\ intail' = At(end + 1)
      /\ waitingforping' = (waitingforping /\ mess # PING)
      /\ pd' = IF At(end + 1) = inhead THEN "idle" ELSE "reading"
      /\ straddled' = (straddled \/ (At(end) = 0 /\ end > 0 /\ inbuf[INBUFSIZE - 1] = "backslash"))
      /\ dropped' = (dropped \/ (mess # PING /\ \E k \in DOMAIN mess : mess[k] = "p"))
      /\ sent' = SubSeq(sent, FirstEnd + 1, Len(sent))
      /\ garbled' = (garbled \/ mess # SubSeq(sent, 1, FirstEnd))
      /\ doubled' = doubled
      /\ guibuf' = guibuf /\ bytessincelastping' = bytessincelastping /\ inbuf' = inbuf
      /\ inhead' = inhead /\ togui' = togui /\ topd' = topd /\ lost' = lost
    BY DEF DoRead
<1>2. RingOK(inbuf, inhead, intail) /\ topd \in Seq(UpBytes) /\ Behind
    BY Facts DEF Core
<1> DEFINE L == LengthOf(inhead, intail, "reading")
<1>3. Filled = L /\ (\A k : At(k) = SlotAt(intail, k)) /\ (\A i : IsBoundary(i) <=> IsCut(inbuf, i))
    BY DEF Filled, LengthOf, At, SlotAt, IsBoundary, IsCut
<1>4. L \in 0 .. INBUFSIZE /\ L \in Nat
    BY <1>2, LengthIs, Size DEF RingOK
<1>5. Boundaries = {k \in 0 .. L - 1 : IsCut(inbuf, SlotAt(intail, k))}
    BY <1>3, Zenon DEF Boundaries
<1> HIDE DEF L
<1>6. /\ end \in 0 .. L - 1 /\ IsCut(inbuf, SlotAt(intail, end))
      /\ \A k \in 0 .. L - 1 : IsCut(inbuf, SlotAt(intail, k)) => end <= k
  <2>1. Boundaries \subseteq Nat
      BY <1>4, <1>5
  <2>2. end \in Boundaries /\ \A k \in Boundaries : end <= k
      BY <1>1, <2>1, FirstIs
  <2> HIDE DEF end
  <2> QED BY <1>5, <2>2
<1> HIDE DEF end
<1>7. e \in 1 .. L /\ e - 1 = end
    BY <1>4, <1>6
<1>8. \A k \in 1 .. e - 1 : ~IsCut(inbuf, SlotAt(intail, k - 1))
  <2> TAKE k \in 1 .. e - 1
  <2>1. k - 1 \in 0 .. L - 1 /\ ~(end <= k - 1)
      BY <1>4, <1>6, <1>7
  <2> QED BY <1>6, <2>1
<1>9. Stream = StreamOf(inbuf, inhead, intail, "reading", topd)
    BY <1>1 DEF Stream
<1>10. /\ mess = [k \in 1 .. e |-> inbuf[SlotAt(intail, k - 1)]]
       /\ intail' = SlotAt(intail, e) /\ At(end) = SlotAt(intail, e - 1)
    BY <1>1, <1>3, <1>7
<1> HIDE DEF e
<1>11. /\ Stream \in Seq(UpBytes) /\ e \in 1 .. Len(Stream) /\ Stream[e] = "semi"
       /\ \A j \in 1 .. e - 1 : ~Unescaped(Stream, j)
       /\ Unescaped(Stream, e) \/ (SlotAt(intail, e - 1) = 0 /\ e > 1 /\ inbuf[INBUFSIZE - 1] = "backslash")
       /\ [k \in 1 .. e |-> inbuf[SlotAt(intail, k - 1)]] = Start(Stream, e)
       /\ SlotAt(intail, e) > 0 => inbuf[SlotAt(intail, e) - 1] = "semi"
  <2>1. e \in 1 .. LengthOf(inhead, intail, "reading")
      BY <1>7 DEF L
  <2>2. IsCut(inbuf, SlotAt(intail, e - 1))
      BY <1>6, <1>7
  <2>3. intail > 0 => inbuf[intail - 1] = "semi"
      BY <1>2 DEF Behind
  <2> QED BY ONLY <1>2, <1>8, <1>9, <2>1, <2>2, <2>3, CutStream
<1>12. mess = Start(Stream, e)
    BY <1>10, <1>11
<1> HIDE DEF mess
<1>13. RingOK(inbuf, inhead, intail') /\ Stream' = Rest(Stream, e)
  <2>1. e \in 1 .. LengthOf(inhead, intail, "reading")
      BY <1>7 DEF L
  <2>2. pd' = IF intail' = inhead THEN "idle" ELSE "reading"
      BY <1>1
  <2>3. /\ RingOK(inbuf, inhead, intail')
        /\ StreamOf(inbuf, inhead, intail', pd', topd)
             = Rest(StreamOf(inbuf, inhead, intail, "reading", topd), e)
      BY ONLY <1>2, <1>10, <2>1, <2>2, TakeStream
  <2>4. Stream' = StreamOf(inbuf', inhead', intail', pd', topd')
      BY DEF Stream
  <2> QED BY <1>1, <1>9, <2>3, <2>4
<1>14. Waits' = IF Start(Stream, e) = PING THEN 0 ELSE Waits
    BY <1>1, <1>12 DEF Waits
<1>15. Down' = Down /\ e \in 0 .. Len(Stream)
    BY <1>1, <1>11 DEF Down
<1>16. Pacing'
  <2>1. ASSUME ~doubled PROVE Paced(Down, Rest(Stream, e), Waits', bytessincelastping)
    <3>1. CASE Start(Stream, e) = PING
      <4>1. Paced(Down, Rest(Stream, e), 0, bytessincelastping)
          BY <1>15, <2>1, <3>1, Facts, PacedAnswer
      <4> QED BY <1>14, <3>1, <4>1
    <3>2. CASE Start(Stream, e) # PING
      <4>1. Paced(Down, Rest(Stream, e), Waits, bytessincelastping)
          BY <1>15, <2>1, Facts, PacedRest
      <4> QED BY <1>14, <3>2, <4>1
    <3> QED BY <3>1, <3>2
  <2> QED BY <1>1, <1>13, <1>15, <2>1 DEF Pacing
<1>17. Answers'
  <2> DEFINE m == Start(Stream, e)
             P == \E k \in 1 .. Len(m) : m[k] = "p"
  <2> SUFFICES ASSUME ~lost', ~doubled'
               PROVE  Answered(Down', Stream', Due') /\ (dropped' => waitingforping')
      BY DEF Answers
  <2>1. Answered(Down, Stream, Due) /\ (dropped => waitingforping)
      BY <1>1, Facts
  <2>2. /\ m = PING => Due = 1 /\ Answered(Down, Rest(Stream, e), 0)
        /\ P => Due = 1 /\ Answered(Down, Rest(Stream, e), 0)
        /\ ~P => Answered(Down, Rest(Stream, e), Due)
      BY <1>15, <2>1, Facts, AnsweredRest
  <2>3. m \in Seq(UpBytes)
      BY <1>15, Facts, RestIs
  <2>4. waitingforping' = (waitingforping /\ m # PING) /\ dropped' = (dropped \/ (m # PING /\ P))
    <3>1. DOMAIN m = 1 .. Len(m)
        BY <2>3
    <3> QED BY <1>1, <1>12, <3>1
  <2> HIDE DEF m, P
  <2>5. CASE m = PING
    <3>0. ~dropped
        BY <2>2, <2>5, DueIs
    <3>1. ~dropped /\ ~dropped' /\ ~waitingforping'
        BY <2>4, <2>5, <3>0
    <3>2. Due' = 0
        BY <3>1 DEF Due
    <3> QED BY <1>13, <1>15, <2>2, <2>5, <3>1, <3>2
  <2>6. CASE m # PING /\ P
    <3>0. waitingforping
        BY <2>2, <2>6, DueIs
    <3>1. dropped' /\ waitingforping'
        BY <2>4, <2>6, <3>0
    <3>2. Due' = 0
        BY <3>1 DEF Due
    <3> QED BY <1>13, <1>15, <2>2, <2>6, <3>1, <3>2
  <2>7. CASE m # PING /\ ~P
    <3>1. (dropped' <=> dropped) /\ (waitingforping' <=> waitingforping)
        BY <2>4, <2>7
    <3>2. Due' = Due
        BY <3>1 DEF Due
    <3> QED BY <1>13, <1>15, <2>1, <2>2, <2>7, <3>1, <3>2
  <2> QED BY <2>5, <2>6, <2>7
<1>18. Order'
  <2> SUFFICES ASSUME ~lost', ~straddled' PROVE Stream' = sent' /\ ~garbled'
      BY DEF Order
  <2>1. ~lost /\ ~straddled /\ ~(At(end) = 0 /\ end > 0 /\ inbuf[INBUFSIZE - 1] = "backslash")
      BY <1>1
  <2>2. Stream = sent /\ ~garbled
      BY <2>1 DEF Core, Order
  <2>3. e > 1 => end > 0
      BY <1>4, <1>6, <1>7
  <2>4. Unescaped(Stream, e)
      BY <1>10, <1>11, <2>1, <2>3
  <2>5. FirstEnd = e
      BY <1>11, <2>2, <2>4, Facts, FirstEndIs
  <2>6. Start(Stream, e) = SubSeq(sent, 1, FirstEnd) /\ Rest(Stream, e) = SubSeq(sent, FirstEnd + 1, Len(sent))
      BY <2>2, <2>5 DEF Start, Rest
  <2> QED BY <1>1, <1>12, <1>13, <2>2, <2>6
<1>19. Types'
  <2>1. sent' \in Seq(UpBytes)
    <3>1. sent \in Seq(UpBytes) /\ FirstEnd \in 0 .. Len(sent)
        BY Facts, FirstEndIs
    <3>2. Rest(sent, FirstEnd) \in Seq(UpBytes)
        BY <3>1, RestIs
    <3> QED BY <1>1, <3>2 DEF Rest
  <2>2. waitingforping' \in BOOLEAN
      BY <1>1
  <2> QED BY <1>1, <1>13, <2>1, <2>2 DEF Core, Types
<1>20. Behind'
    BY <1>1, <1>10, <1>11 DEF Behind
<1>21. Quiet'
    BY <1>1 DEF Quiet
<1> QED BY <1>16, <1>17, <1>18, <1>19, <1>20, <1>21 DEF Core

-----------------------------------------------------------------------------
(* The queue of updates.                                                   *)

Members(q) == {q[k] : k \in 1 .. Len(q)}
Once(q) == \A j, k \in 1 .. Len(q) : q[j] = q[k] => j = k

\* QueueExact, said of the sequence.
Exactly(q, want) == q \in Seq(Clients) /\ Members(q) = want /\ Once(q)

\* The two ways to say it are the same.
LEMMA QueueIs == Queue <=> Exactly(guiqueue, dirty \ wiped)
<1>1. guiqueue \in Seq(Clients) => DOMAIN guiqueue = 1 .. Len(guiqueue)
    OBVIOUS
<1> QED BY <1>1 DEF Queue, QueueExact, Exactly, Members, Once, Queued

\* A client that is not queued is appended.
LEMMA QueueMore ==
    ASSUME NEW q, NEW want, Exactly(q, want), NEW c \in Clients, c \notin want
    PROVE  Exactly(Append(q, c), want \cup {c})
<1> DEFINE r == Append(q, c)
<1>1. /\ r \in Seq(Clients) /\ Len(r) = Len(q) + 1 /\ r[Len(q) + 1] = c /\ Len(q) \in Nat
      /\ \A k \in 1 .. Len(q) : r[k] = q[k]
    BY DEF Exactly
<1>2. \A k \in 1 .. Len(q) : q[k] \in want
    BY DEF Exactly, Members
<1>3. \A x \in want : \E k \in 1 .. Len(q) : q[k] = x
    BY DEF Exactly, Members
<1> HIDE DEF r
<1>4. \A k \in 1 .. Len(r) : r[k] \in want \cup {c}
    BY <1>1, <1>2
<1>5. \A x \in want \cup {c} : \E k \in 1 .. Len(r) : r[k] = x
  <2> TAKE x \in want \cup {c}
  <2>1. CASE x = c
    <3>1. Len(q) + 1 \in 1 .. Len(r)
        BY <1>1
    <3> QED BY <1>1, <2>1, <3>1
  <2>2. CASE x \in want
    <3>1. PICK k \in 1 .. Len(q) : q[k] = x
        BY <1>3, <2>2
    <3>2. k \in 1 .. Len(r)
        BY <1>1
    <3> QED BY <1>1, <3>1, <3>2
  <2> QED BY <2>1, <2>2
<1>6. Members(r) = want \cup {c}
    BY <1>4, <1>5 DEF Members
<1>7. Once(r)
  <2>1. \A j, k \in 1 .. Len(q) : q[j] = q[k] => j = k
      BY DEF Exactly, Once
  <2>2. \A k \in 1 .. Len(q) : q[k] # c
      BY <1>2
  <2>3. \A k \in 1 .. Len(r) : k \in 1 .. Len(q) \/ k = Len(q) + 1
      BY <1>1
  <2> QED BY <1>1, <2>1, <2>2, <2>3 DEF Once
<1> QED BY <1>1, <1>6, <1>7 DEF Exactly, r

\* Without the element at j.
LEMMA Shorter ==
    ASSUME NEW q, NEW want, Exactly(q, want), NEW j \in 1 .. Len(q), NEW r,
           r \in Seq(Clients), Len(r) = Len(q) - 1,
           \A i \in 1 .. Len(q) - 1 : r[i] = IF i < j THEN q[i] ELSE q[i + 1]
    PROVE  Exactly(r, want \ {q[j]})
<1>1. /\ Len(q) \in Nat /\ Members(q) = want
      /\ \A i, k \in 1 .. Len(q) : q[i] = q[k] => i = k
    BY DEF Exactly, Once
<1>2. \A k \in 1 .. Len(r) : \E i \in 1 .. Len(q) : i # j /\ r[k] = q[i] /\ i = IF k < j THEN k ELSE k + 1
  <2> TAKE k \in 1 .. Len(r)
  <2>1. k \in 1 .. Len(q) - 1 /\ k \in 1 .. Len(q) /\ k + 1 \in 1 .. Len(q)
      BY <1>1
  <2>2. CASE k < j
      BY <2>1, <2>2
  <2>3. CASE ~(k < j)
      BY <2>1, <2>3
  <2> QED BY <2>2, <2>3
<1>3. \A i \in 1 .. Len(q) : i # j => \E k \in 1 .. Len(r) : r[k] = q[i]
  <2> SUFFICES ASSUME NEW i \in 1 .. Len(q), i # j PROVE \E k \in 1 .. Len(r) : r[k] = q[i]
      OBVIOUS
  <2>1. CASE i < j
    <3>1. i \in 1 .. Len(q) - 1
        BY <1>1, <2>1
    <3> QED BY <2>1, <3>1
  <2>2. CASE i > j
    <3>1. i - 1 \in 1 .. Len(q) - 1 /\ ~(i - 1 < j) /\ (i - 1) + 1 = i
        BY <1>1, <2>2
    <3> QED BY <3>1
  <2> QED BY <1>1, <2>1, <2>2
<1>4. Members(r) = want \ {q[j]}
  <2>1. ASSUME NEW x \in Members(r) PROVE x \in want \ {q[j]}
    <3>1. PICK k \in 1 .. Len(r) : x = r[k]
        BY DEF Members
    <3>2. PICK i \in 1 .. Len(q) : i # j /\ r[k] = q[i]
        BY <1>2
    <3>3. q[i] # q[j] /\ q[i] \in Members(q)
        BY <1>1, <3>2 DEF Members
    <3> QED BY <1>1, <3>1, <3>2, <3>3
  <2>2. ASSUME NEW x \in want \ {q[j]} PROVE x \in Members(r)
    <3>1. PICK i \in 1 .. Len(q) : x = q[i]
        BY <1>1 DEF Members
    <3>2. i # j
        BY <3>1
    <3>3. PICK k \in 1 .. Len(r) : r[k] = q[i]
        BY <1>3, <3>2
    <3> QED BY <3>1, <3>3 DEF Members
  <2> QED BY <2>1, <2>2
<1>5. Once(r)
  <2> SUFFICES ASSUME NEW k \in 1 .. Len(r), NEW l \in 1 .. Len(r), r[k] = r[l] PROVE k = l
      BY DEF Once
  <2>1. PICK i \in 1 .. Len(q) : r[k] = q[i] /\ i = IF k < j THEN k ELSE k + 1
      BY <1>2
  <2>2. PICK m \in 1 .. Len(q) : r[l] = q[m] /\ m = IF l < j THEN l ELSE l + 1
      BY <1>2
  <2>3. i = m
      BY <1>1, <2>1, <2>2
  <2>4. k \in Int /\ l \in Int /\ j \in Int
      BY <1>1
  <2>5. i = (IF k < j THEN k ELSE k + 1) /\ i = IF l < j THEN l ELSE l + 1
      BY <2>1, <2>2, <2>3
  <2> QED BY <2>4, <2>5
<1> QED BY <1>4, <1>5 DEF Exactly

\* The first client leaves the queue.
LEMMA QueueTail ==
    ASSUME NEW q, NEW want, Exactly(q, want), q # <<>>
    PROVE  Exactly(Tail(q), want \ {q[1]})
<1> DEFINE r == Tail(q)
<1>1. /\ 1 \in 1 .. Len(q) /\ r \in Seq(Clients) /\ Len(r) = Len(q) - 1
      /\ \A i \in 1 .. Len(q) - 1 : r[i] = q[i + 1]
    BY DEF Exactly
<1>2. \A i \in 1 .. Len(q) - 1 : ~(i < 1)
    OBVIOUS
<1> HIDE DEF r
<1>3. \A i \in 1 .. Len(q) - 1 : r[i] = IF i < 1 THEN q[i] ELSE q[i + 1]
    BY <1>1, <1>2
<1> QED BY <1>1, <1>3, Shorter DEF r

\* RemoveFirst takes out the only one.
LEMMA QueueRemove ==
    ASSUME NEW q, NEW want, Exactly(q, want), NEW c
    PROVE  Exactly(RemoveFirst(q, c), want \ {c})
<1>1. q \in Seq(Clients) /\ Members(q) = want /\ Len(q) \in Nat
    BY DEF Exactly
<1>2. CASE ~ \E i \in 1 .. Len(q) : q[i] = c
  <2>1. RemoveFirst(q, c) = q
      BY <1>2 DEF RemoveFirst
  <2>2. c \notin want
      BY <1>1, <1>2 DEF Members
  <2> QED BY <2>1, <2>2, want \ {c} = want
<1>3. CASE \E i \in 1 .. Len(q) : q[i] = c
  <2>1. PICK j \in 1 .. Len(q) : q[j] = c
      BY <1>3
  <2> DEFINE I == {i \in 1 .. Len(q) : q[i] = c}
  <2>2. I = {j}
      BY <2>1 DEF Exactly, Once
  <2>3. Min(I) = j
      BY <2>2 DEF Min
  <2>4. SelectInSeq(q, LAMBDA v : v = c) = j
      BY <2>2, <2>3 DEF SelectInSeq
  <2>5. RemoveFirst(q, c) = RemoveAt(q, j)
      BY <1>3, <2>4 DEF RemoveFirst
  <2> HIDE DEF I
  <2> DEFINE r == RemoveAt(q, j)
             a == Start(q, j - 1)
             b == Rest(q, j)
  <2>6. r = a \o b
      BY DEF RemoveAt, Start, Rest
  <2>7. j - 1 \in 0 .. Len(q) /\ j \in 0 .. Len(q) /\ j \in Nat /\ j >= 1 /\ j <= Len(q)
      BY <1>1
  <2>8. /\ a \in Seq(Clients) /\ Len(a) = j - 1 /\ \A k \in 1 .. j - 1 : a[k] = q[k]
      BY <1>1, <2>7, RestIs
  <2>9. b \in Seq(Clients) /\ Len(b) = Len(q) - j /\ \A k \in 1 .. Len(q) - j : b[k] = q[j + k]
      BY <1>1, <2>7, RestIs
  <2> HIDE DEF a, b, r
  <2>10. /\ r \in Seq(Clients) /\ Len(r) = (j - 1) + (Len(q) - j)
         /\ \A i \in 1 .. (j - 1) + (Len(q) - j) : r[i] = IF i <= j - 1 THEN a[i] ELSE b[i - (j - 1)]
      BY <2>6, <2>8, <2>9, ConcatProperties
  <2>11. (j - 1) + (Len(q) - j) = Len(q) - 1
      BY <1>1, <2>7
  <2>12. ASSUME NEW i \in 1 .. Len(q) - 1 PROVE r[i] = IF i < j THEN q[i] ELSE q[i + 1]
    <3>1. r[i] = IF i <= j - 1 THEN a[i] ELSE b[i - (j - 1)]
        BY <2>10, <2>11
    <3>2. CASE i < j
      <4>1. i <= j - 1 /\ i \in 1 .. j - 1
          BY <1>1, <2>7, <3>2
      <4> QED BY <2>8, <3>1, <3>2, <4>1
    <3>3. CASE ~(i < j)
      <4>1. ~(i <= j - 1) /\ i - (j - 1) \in 1 .. Len(q) - j /\ j + (i - (j - 1)) = i + 1
          BY <1>1, <2>7, <3>3
      <4>2. b[i - (j - 1)] = q[j + (i - (j - 1))]
          BY <2>9, <4>1
      <4> QED BY <3>1, <3>3, <4>1, <4>2
    <3> QED BY <3>2, <3>3
  <2>13. r \in Seq(Clients) /\ Len(r) = Len(q) - 1
      BY <2>10, <2>11
  <2>14. Exactly(r, want \ {q[j]})
      BY <2>12, <2>13, Shorter
  <2> QED BY <2>1, <2>5, <2>14 DEF r
<1> QED BY <1>2, <1>3

\* The steps that change the queue, and the rest.
LEMMA QueueNext ==
    ASSUME Queue, [Next]_vars
    PROVE  Queue'
<1> DEFINE want == dirty \ wiped
<1>1. Exactly(guiqueue, want)
    BY QueueIs
<1>2. Queued = want
    BY DEF Queue, QueueExact
<1>3. Queue' <=> Exactly(guiqueue', dirty' \ wiped')
  <2>1. guiqueue' \in Seq(Clients) => DOMAIN guiqueue' = 1 .. Len(guiqueue')
      OBVIOUS
  <2> QED BY <2>1 DEF Queue, QueueExact, Exactly, Members, Once, Queued
<1> SUFFICES Exactly(guiqueue', dirty' \ wiped')
    BY <1>3
<1>4. ASSUME NEW c \in Clients, sys_queuegui(c) PROVE Exactly(guiqueue', dirty' \ wiped')
  <2>1. /\ guiqueue' = IF c \in Queued THEN guiqueue ELSE Append(guiqueue, c)
        /\ dirty' = dirty \cup {c} /\ wiped' = wiped \ {c}
      BY <1>4 DEF sys_queuegui
  <2>2. dirty' \ wiped' = want \cup {c}
      BY <2>1
  <2>3. CASE c \in want
      BY <1>1, <1>2, <2>1, <2>2, <2>3, want \cup {c} = want
  <2>4. CASE c \notin want
      BY <1>1, <1>2, <2>1, <2>2, <2>4, QueueMore
  <2> QED BY <2>3, <2>4
<1>5. ASSUME NEW c \in Clients, sys_unqueuegui(c) PROVE Exactly(guiqueue', dirty' \ wiped')
  <2>1. /\ guiqueue' = Without(guiqueue, c) /\ dirty' = dirty \ {c}
        /\ wiped' = (wiped \ {c}) \cup
                    (IF guiqueue # <<>> /\ guiqueue[1] = c THEN Queued \ {c} ELSE {})
      BY <1>5 DEF sys_unqueuegui
  <2>2. CASE guiqueue # <<>> /\ guiqueue[1] = c
    <3>1. guiqueue' = <<>> /\ dirty' \ wiped' = {}
        BY <1>2, <2>1, <2>2 DEF Without
    <3> QED BY <3>1 DEF Exactly, Members, Once
  <2>3. CASE ~(guiqueue # <<>> /\ guiqueue[1] = c)
    <3>1. guiqueue' = RemoveFirst(guiqueue, c)
        BY <2>1, <2>3 DEF Without
    <3>2. wiped' = wiped \ {c}
        BY <2>1, <2>3
    <3>3. dirty' \ wiped' = want \ {c}
        BY <2>1, <3>2
    <3> QED BY <1>1, <3>1, <3>3, QueueRemove
  <2> QED BY <2>2, <2>3
<1>6. ASSUME NEW n \in Lens, FlushOne(n) PROVE Exactly(guiqueue', dirty' \ wiped')
  <2>1. /\ guiqueue # <<>> /\ guiqueue' = Tail(guiqueue)
        /\ dirty' = dirty \ {guiqueue[1]} /\ wiped' = wiped \ {guiqueue[1]}
      BY <1>6 DEF FlushOne
  <2>2. dirty' \ wiped' = want \ {guiqueue[1]}
      BY <2>1
  <2> QED BY <1>1, <2>1, <2>2, QueueTail
<1>7. CASE UNCHANGED <<guiqueue, dirty, wiped>>
    BY <1>1, <1>7
<1>8. CASE UNCHANGED vars
    BY <1>7, <1>8 DEF vars, out, history
<1>9. CASE \E n \in Lens : sys_vgui(n) \/ sys_pretendguibytes(n)
    BY <1>7, <1>9 DEF sys_vgui, sys_pretendguibytes, history
<1>10. CASE \E m \in UserMsgs : GuiUser(m)
    BY <1>7, <1>10 DEF GuiUser, out
<1>11. CASE pd_readsocket \/ GuiAgain \/ GuiDies
    BY <1>7, <1>11 DEF pd_readsocket, GuiHandle, GuiError, GuiAgain, GuiDies, out, history
<1>12. CASE (\E n \in 1 .. Len(guibuf) : PollFlush(n)) \/ \E n \in 0 .. Len(guibuf) : FlushEnd(n)
    BY <1>7, <1>12 DEF PollFlush, FlushEnd, history
<1>13. CASE PollQueue \/ FlushPing \/ FlushEmpty \/ Bail
    BY <1>7, <1>13 DEF PollQueue, FlushPing, FlushEmpty, Bail, out, history
<1>14. CASE ReadDrop \/ ReadEof \/ DoRead \/ DoReadNone \/ \E n \in 1 .. Len(topd) : ReadSome(n)
    BY <1>7, <1>14 DEF ReadDrop, ReadEof, DoRead, DoReadNone, ReadSome, out, history
<1> QED
    BY <1>4, <1>5, <1>6, <1>8, <1>9, <1>10, <1>11, <1>12, <1>13, <1>14 DEF Next, PollStep

-----------------------------------------------------------------------------
(* The invariant is inductive.                                             *)

\* The invariant holds at the start,
LEMMA InitHolds == Init => IInv
<1> SUFFICES ASSUME Init PROVE IInv
    OBVIOUS
<1>1. Types
  <2>1. "m" \in UpBytes
      BY DEF UpBytes
  <2>2. RingOK(inbuf, inhead, intail)
      BY <2>1, Size DEF Init, RingOK
  <2>3. guibuf = <<>> /\ togui = <<>> /\ topd = <<>> /\ sent = <<>>
      BY DEF Init
  <2>4. <<>> \in Seq(DownBytes) /\ <<>> \in Seq(UpBytes)
      OBVIOUS
  <2>5. bytessincelastping \in Nat /\ waitingforping \in BOOLEAN
      BY DEF Init
  <2> QED BY <2>2, <2>3, <2>4, <2>5 DEF Types
<1>2. Behind /\ Quiet
    BY DEF Init, Behind, Quiet
<1>3. Down = <<>> /\ Waits = 0 /\ Due = 0 /\ ~dropped
    BY DEF Init, Down, Waits, Due
<1>4. Stream = <<>>
  <2>1. inhead \in 0 .. INBUFSIZE - 1 /\ intail \in 0 .. INBUFSIZE - 1 /\ inhead = intail /\ pd # "reading"
      BY Size DEF Init
  <2>2. LengthOf(inhead, intail, pd) = 0
      BY <2>1, LengthIs
  <2>3. topd = <<>>
      BY DEF Init
  <2>4. Stream = WindowOf(inbuf, inhead, intail, pd) \o <<>>
      BY <2>3 DEF Stream, StreamOf
  <2>5. WindowOf(inbuf, inhead, intail, pd) = <<>>
    <3>1. RingOK(inbuf, inhead, intail)
        BY <1>1 DEF Types
    <3>2. /\ WindowOf(inbuf, inhead, intail, pd) \in Seq(UpBytes)
          /\ Len(WindowOf(inbuf, inhead, intail, pd)) = LengthOf(inhead, intail, pd)
        BY <3>1, WindowIs
    <3> QED BY <2>2, <3>2
  <2> QED BY <2>4, <2>5
<1>5. Count(<<>>, "ping") = 0 /\ Count(<<>>, "p") = 0 /\ Count(<<>>, "u") = 0
    BY CountSmall, 0 \in Nat
<1>6. Pacing
  <2>1. \A n \in Nat : 0 <= GUI_BYTESPERPING - 1 + n
      BY GuiAssumption
  <2>2. bytessincelastping = 0
      BY DEF Init
  <2> QED BY <1>3, <1>4, <1>5, <2>1, <2>2 DEF Pacing, Paced
<1>7. Answers
    BY <1>3, <1>4, <1>5 DEF Answers, Answered
<1>8. Order
    BY <1>4 DEF Order, Init
<1>9. Queue
    BY DEF Init, Queue, QueueExact, Queued
<1> QED BY <1>1, <1>2, <1>6, <1>7, <1>8, <1>9 DEF IInv, Core

\* Every step keeps what the invariant says of the bytes,
LEMMA CoreNext ==
    ASSUME Core, [Next]_vars
    PROVE  Core'
<1>1. ASSUME UNCHANGED <<guibuf, togui, bytessincelastping, waitingforping, pd>>, UpSame
      PROVE  Core'
  <2>1. guibuf' \in Seq(DownBytes) /\ togui' \in Seq(DownBytes) /\ Down' = Down
      BY <1>1, Facts DEF Down
  <2>2. pd' = "flushing" => ~waitingforping
      BY <1>1 DEF Core, Quiet
  <2> QED BY <1>1, <2>1, <2>2, DownSame
<1>2. CASE UNCHANGED vars
  <2>1. UNCHANGED <<guibuf, togui, bytessincelastping, waitingforping, pd>> /\ UpSame
      BY <1>2 DEF vars, out, ring, history, replies, pings, UpSame
  <2> QED BY <1>1, <2>1
<1>3. CASE \E c \in Clients : sys_queuegui(c) \/ sys_unqueuegui(c)
  <2>1. UNCHANGED <<guibuf, togui, bytessincelastping, waitingforping, pd>> /\ UpSame
      BY <1>3 DEF sys_queuegui, sys_unqueuegui, ring, replies, pings, UpSame
  <2> QED BY <1>1, <2>1
<1>4. CASE \E n \in Lens : sys_vgui(n) \/ sys_pretendguibytes(n)
    BY <1>4, StepVgui, StepPretend
<1>5. CASE \E m \in UserMsgs : GuiUser(m)
    BY <1>5, StepUser
<1>6. CASE pd_readsocket \/ GuiAgain
    BY <1>6, StepHandle, StepError, StepAgain DEF pd_readsocket
<1>7. CASE GuiDies \/ Bail \/ PollQueue \/ FlushEmpty \/ ReadEof
    BY <1>7, StepQuiet
<1>8. CASE (\E n \in 1 .. Len(guibuf) : PollFlush(n)) \/ \E n \in 0 .. Len(guibuf) : FlushEnd(n)
    BY <1>8, StepFlush
<1>9. CASE FlushPing
    BY <1>9, StepPing
<1>10. CASE \E n \in Lens : FlushOne(n)
    BY <1>10, StepUpdate
<1>11. CASE ReadDrop
    BY <1>11, StepDrop
<1>12. CASE DoRead
    BY <1>12, StepDoRead
<1>13. CASE DoReadNone
    BY <1>13, StepNone
<1>14. CASE \E n \in 1 .. Len(topd) : ReadSome(n)
    BY <1>14, StepRead
<1> QED BY <1>2, <1>3, <1>4, <1>5, <1>6, <1>7, <1>8, <1>9, <1>10, <1>11, <1>12, <1>13, <1>14
        DEF Next, PollStep

\* and all of it.
LEMMA NextHolds == IInv /\ [Next]_vars => IInv'
    BY CoreNext, QueueNext DEF IInv

\* The answers in the ring and on the way to it are those of the stream.
LEMMA RingCount ==
    ASSUME Core
    PROVE  LET c == Cardinality({k \in 0 .. InRing - 1 : inbuf[At(k)] = "p"})
           IN  c \in Nat /\ Count(Stream, "p") = Count(topd, "p") + c
<1> DEFINE W == WindowOf(inbuf, inhead, intail, pd)
           L == LengthOf(inhead, intail, pd)
           A == Places(W, "p")
           B == {k \in 0 .. InRing - 1 : inbuf[At(k)] = "p"}
<1>1. RingOK(inbuf, inhead, intail) /\ topd \in Seq(UpBytes)
    BY Facts
<1>2. /\ L \in Nat /\ W \in Seq(UpBytes) /\ Len(W) = L
      /\ \A k \in 1 .. L : W[k] = inbuf[SlotAt(intail, k - 1)]
    BY <1>1, WindowIs
<1>3. Stream = W \o topd
    BY DEF Stream, StreamOf
<1>4. InRing = L
    BY DEF InRing, Filled, LengthOf
<1> HIDE DEF W, L
<1>5. B = {k \in 0 .. L - 1 : inbuf[SlotAt(intail, k)] = "p"}
    BY <1>4 DEF At, SlotAt
<1>6. A = {k \in 1 .. L : inbuf[SlotAt(intail, k - 1)] = "p"}
    BY <1>2 DEF Places
<1>7. Count(W, "p") = Cardinality(A) /\ IsFiniteSet(A) /\ Count(W, "p") \in Nat
    BY <1>2, CountIs
<1> HIDE DEF A, B
<1>8. \A k \in Int : k \in A <=> k + (-1) \in B
  <2> TAKE k \in Int
  <2>1. k + (-1) = k - 1 /\ (k \in 1 .. L <=> k - 1 \in 0 .. L - 1)
      BY <1>2
  <2> QED BY <1>5, <1>6, <2>1
<1>9. A \subseteq Int /\ B \subseteq Int /\ -1 \in Int
    BY <1>2, <1>5, <1>6
<1>10. Cardinality(B) = Cardinality(A)
    BY <1>7, <1>8, <1>9, Moved
<1>11. Count(W \o topd, "p") = Count(W, "p") + Count(topd, "p")
    BY <1>1, <1>2, CountConcat
<1>12. Count(topd, "p") \in Nat
    BY <1>1, CountIs
<1>13. Cardinality(B) \in Nat /\ Count(Stream, "p") = Count(topd, "p") + Cardinality(B)
    BY <1>3, <1>7, <1>10, <1>11, <1>12
<1> QED BY <1>13 DEF B

-----------------------------------------------------------------------------
(* Theorems.                                                               *)

\* The inductive invariant of Pd and its GUI.
LEMMA Invariant == Spec => []IInv
    BY InitHolds, NextHolds, PTL DEF Spec

\* The queue that sys_queuegui, sys_unqueuegui and sys_flushqueue keep has exactly one
\* entry for each client that waits for its update and was not wiped out with another.
THEOREM QueueStaysExact == Spec => []QueueExact
<1>1. IInv => QueueExact
    BY DEF IInv, Queue
<1> QED BY <1>1, Invariant, PTL

\* Pd waits for an answer (sys_waitingforping) exactly while one ping or one answer is
\* somewhere between sys_flushqueue and glob_ping, or for ever after pd_readsocket or a
\* trailing backslash has lost it, for every size of the ring, of the socket and of what
\* is sent, whatever text pdsend is given and whichever command fails; unless input was
\* dropped or a batch with a ping was evaluated again.
THEOREM PingAlwaysOnTheWay == Spec => []PingOnTheWay
<1>1. IInv => PingOnTheWay
  <2> SUFFICES ASSUME IInv, ~lost, ~doubled PROVE PingOnTheWay
      BY DEF PingOnTheWay
  <2> DEFINE c == Cardinality({k \in 0 .. InRing - 1 : inbuf[At(k)] = "p"})
  <2>1. Core /\ Answered(Down, Stream, Due) /\ (dropped => waitingforping)
      BY DEF IInv, Core, Answers
  <2>2. c \in Nat /\ Count(Stream, "p") = Count(topd, "p") + c
      BY <2>1, RingCount
  <2>3. Count(Down, "ping") \in Nat /\ Count(topd, "p") \in Nat /\ Count(Stream, "p") \in Nat
      BY <2>1, Facts, CountIs
  <2>4. Count(Down, "ping") + Count(Stream, "p") = IF waitingforping /\ ~dropped THEN 1 ELSE 0
      BY <2>1 DEF Answered, Due
  <2> HIDE DEF c
  <2>5. Count(Down, "ping") + Count(topd, "p") + c = IF waitingforping /\ ~dropped THEN 1 ELSE 0
      BY <2>2, <2>3, <2>4
  <2> QED BY <2>1, <2>5 DEF PingOnTheWay, c
<1> QED BY <1>1, Invariant, PTL

\* sys_flushqueue never lets more than one ping's worth of updates, and one update
\* more, wait for the GUI, whatever else is sent, whatever input is dropped and whichever
\* command fails, unless a ping was answered twice.
THEOREM UpdatesBounded == Spec => []Backpressure
<1>1. IInv => Backpressure
  <2> SUFFICES ASSUME IInv, ~doubled, NEW max \in Lens, \A n \in Lens : n <= max
               PROVE  Count(Down, "u") <= GUI_BYTESPERPING - 1 + max
      BY DEF Backpressure
  <2>1. Paced(Down, Stream, Waits, bytessincelastping)
      BY DEF IInv, Core, Pacing
  <2>2. max \in Nat /\ MaxLen(max)
      BY Lengths DEF MaxLen
  <2> QED BY <2>1, <2>2 DEF Paced
<1> QED BY <1>1, Invariant, PTL

\* socketreceiver_doread evaluates the messages that the GUI sent, whole and in order,
\* however socketreceiver_read cuts them and wherever the ring wraps, unless input was
\* dropped or an escaped semicolon came to lie at index 0.
THEOREM MessagesWhole == Spec => []WholeMessages
<1>1. IInv => WholeMessages
    BY DEF IInv, Core, Order, WholeMessages
<1> QED BY <1>1, Invariant, PTL
=============================================================================
